------------------------------ MODULE Network_proofs ------------------------------
(***************************************************************************)
(* The network stack: an RLDP transfer over a link that loses, repeats and *)
(* reorders, the two locks of an ADNL node, and the DHT, each for every    *)
(* configuration, number of nodes and tasks; and that the composition keeps*)
(* the types of all three.                                                 *)
(***************************************************************************)
EXTENDS MCNetwork, DataLemmas

-----------------------------------------------------------------------------
(***************************************************************************)
(* RLDP: what a success of send_rldp means, and that the rotation of       *)
(* next_round leaves no symbol behind.                                     *)
(***************************************************************************)

USE DEF Chunks

(* The remainder next_round takes, for a sum of at most twice Count.        *)
LEMMA SymbolValue ==
    ASSUME NEW x \in Chunks, NEW i \in 0 .. Count
    PROVE  /\ Symbol(x, i) \in Chunks
           /\ Symbol(x, i) = IF x + i < Count THEN x + i ELSE x + i - Count
<1>1. Count \in Nat \ {0}
  BY RldpConfigAssumption
<1>2. CASE x + i < Count
  <2>1. (x + i) % Count = x + i
    BY <1>1, <1>2
  <2> QED BY <1>1, <1>2, <2>1 DEF Symbol
<1>3. CASE x + i >= Count
  <2>1. (x + i) % Count = x + i - Count
    BY <1>1, <1>3
  <2> QED BY <1>1, <1>3, <2>1 DEF Symbol
<1> QED BY <1>1, <1>2, <1>3

LEMMA SymbolsPerRoundType == SymbolsPerRound \in Nat
  BY RldpConfigAssumption DEF SymbolsPerRound

(* k symbols inspected are at most k symbols sent.                          *)
LEMMA UnackedBound ==
    ASSUME NEW s, NEW k \in 0 .. Count
    PROVE  IsFiniteSet(Unacked(s, k)) /\ Cardinality(Unacked(s, k)) <= k /\ Cardinality(Unacked(s, k)) \in Nat
<1> DEFINE I == 0 .. k - 1
           T == {Symbol(s.cursor, i) : i \in I}
           f == [i \in I |-> Symbol(s.cursor, i)]
<1>0. Count \in Nat /\ k \in Nat
  BY RldpConfigAssumption
<1>1. IsFiniteSet(I) /\ Cardinality(I) = k
  BY <1>0, FS_Interval
<1>2. f \in Surjection(I, T)
  BY DEF Surjection
<1>3. IsFiniteSet(T) /\ Cardinality(T) <= k /\ Cardinality(T) \in Nat
  <2> HIDE DEF I, T, f
  <2> QED BY <1>1, <1>2, FS_Surjection, FS_CardinalityType
<1>4. Unacked(s, k) \in SUBSET T
  BY DEF Unacked
<1> HIDE DEF T
<1>5. IsFiniteSet(Unacked(s, k)) /\ Cardinality(Unacked(s, k)) <= Cardinality(T)
  BY <1>3, <1>4, FS_Subset
<1>6. Cardinality(Unacked(s, k)) \in Nat
  BY <1>5, FS_CardinalityType
<1> QED BY <1>0, <1>3, <1>5, <1>6

(* A round inspects some number of symbols: all, or as many as it has       *)
(* packets for and no fewer.                                                *)
LEMMA InspectedEnds ==
    ASSUME NEW s
    PROVE  Inspected(s) \in 0 .. Count /\ RoundEnds(s, Inspected(s))
<1> DEFINE T == {k \in 0 .. Count : RoundEnds(s, k)}
<1>0. Count \in Nat
  BY RldpConfigAssumption
<1>1. Count \in T
  BY <1>0 DEF RoundEnds
<1>2. T \subseteq Nat
  BY <1>0
<1>3. PICK k \in T : \A j \in T : ~(<<j, k>> \in OpToRel(<, Nat))
  <2> HIDE DEF T
  <2> QED BY <1>1, <1>2, NatLessThanWellFounded, WFMin
<1>4. \A j \in T : ~(j < k)
  BY <1>2, <1>3 DEF OpToRel
<1>5. \A j \in 0 .. k - 1 : ~RoundEnds(s, j)
  <2> SUFFICES ASSUME NEW j \in 0 .. k - 1, RoundEnds(s, j) PROVE FALSE
    OBVIOUS
  <2>1. j \in 0 .. Count /\ j < k
    BY <1>0, <1>2
  <2> QED BY <1>4, <2>1
<1>6. \E m \in 0 .. Count : RoundEnds(s, m) /\ \A j \in 0 .. m - 1 : ~RoundEnds(s, j)
  BY <1>5
<1> QED BY <1>6, Zenon DEF Inspected

(* ... so a round that leaves a symbol out moved past as many as it has     *)
(* packets for.                                                             *)
LEMMA RoundIsFull ==
    ASSUME NEW s
    PROVE  Inspected(s) = Count \/ Inspected(s) >= SymbolsPerRound
<1>1. Inspected(s) \in 0 .. Count /\ RoundEnds(s, Inspected(s))
  BY InspectedEnds
<1>2. Cardinality(Unacked(s, Inspected(s))) <= Inspected(s) /\ Cardinality(Unacked(s, Inspected(s))) \in Nat
  BY <1>1, UnackedBound
<1> QED BY <1>1, <1>2, RldpConfigAssumption, SymbolsPerRoundType DEF RoundEnds

-----------------------------------------------------------------------------
(* The invariant *)

(* How far the cursor is from a symbol it has yet to come to.               *)
Distance(c) == IF c >= sender.cursor THEN c - sender.cursor ELSE c - sender.cursor + Count

(* The rounds a symbol has been waiting for, in symbols, and the way still  *)
(* to go never add up to a full turn.                                       *)
RotationIsFair ==
    \A c \in Chunks \ sender.acked :
        (sender.round - lastSent[c]) * SymbolsPerRound + Distance(c) < Count

(* What an ACK of this transfer says the receiver holds.                    *)
AcksAreTrue ==
    \A a \in ackLink : a.id = "this" =>
        /\ receiver.id = "this" /\ receiver.status # "listening"
        /\ a.mask \subseteq receiver.chunks

AckedIsTrue ==
    sender.acked # {} =>
        /\ receiver.id = "this" /\ receiver.status # "listening"
        /\ sender.acked \subseteq receiver.chunks

(* Until the payload is returned, some symbol is in no ACK and in nothing   *)
(* the sender made of them, even if the receiver ended with it in hand.     *)
SomeSymbolMissing ==
    receiver.status # "delivered" =>
        \E c \in Chunks : c \notin sender.acked /\ \A a \in ackLink : a.id = "this" => c \notin a.mask

SuccessIsComplete == sender.status = "ok" => sender.acked = Chunks

RldpInv ==
    /\ RldpTypeOK /\ RotationIsFair
    /\ AcksAreTrue /\ AckedIsTrue /\ SomeSymbolMissing /\ SuccessIsComplete

LEMMA RldpInitInv == RldpInit => RldpInv
<1> SUFFICES ASSUME RldpInit PROVE RldpInv
  OBVIOUS
<1>0. Count \in Nat \ {0} /\ MaxAcks \in Nat /\ MaxRounds \in Nat /\ OldChunks \subseteq Chunks /\ 0 \in Chunks
  BY RldpConfigAssumption, RldpBoundAssumption, OldChunksAssumption
<1>1. RldpTypeOK
  <2>1. dataLink \subseteq Frames
    <3>1. \A c \in OldChunks : [id |-> "old", seq |-> c] \in Frames
      BY <1>0 DEF Frames, Transfers
    <3> QED BY <3>1 DEF RldpInit
  <2>2. ackLink \subseteq Acks
    <3>1. [id |-> "old", seq |-> MaxAcks, mask |-> OldChunks] \in Acks
      BY <1>0 DEF Acks, Transfers
    <3> QED BY <3>1 DEF RldpInit
  <2>3. sender \in [status : {"sending", "waiting", "ok", "timeout", "error"},
                    round : 0 .. MaxRounds, cursor : Chunks,
                    acked : SUBSET Chunks, lastAck : 0 .. MaxAcks]
    BY <1>0 DEF RldpInit
  <2>4. receiver \in [status : {"listening", "receiving", "delivered", "error"},
                      id : Transfers, chunks : SUBSET Chunks, ackSeq : 0 .. MaxAcks]
    BY <1>0 DEF RldpInit, Transfers
  <2>5. lastSent \in [Chunks -> 0 .. MaxRounds]
    BY <1>0 DEF RldpInit
  <2> QED BY <2>1, <2>2, <2>3, <2>4, <2>5 DEF RldpInit, RldpTypeOK
<1>2. RotationIsFair
  BY <1>0, SymbolsPerRoundType DEF RldpInit, RotationIsFair, Distance
<1>3. AcksAreTrue /\ AckedIsTrue /\ SuccessIsComplete
  BY DEF RldpInit, AcksAreTrue, AckedIsTrue, SuccessIsComplete
<1>4. SomeSymbolMissing
  BY <1>0 DEF RldpInit, SomeSymbolMissing
<1> QED BY <1>1, <1>2, <1>3, <1>4 DEF RldpInv

-----------------------------------------------------------------------------
(* The sender *)

(* The cursor, moved past the symbols of a round: a symbol that was not     *)
(* inspected is nearer by as many, one that was is less than a turn away.   *)
LEMMA CursorMoves ==
    ASSUME RldpTypeOK, NEW c \in Chunks, sender'.cursor = NextCursor(sender)
    PROVE  /\ sender'.cursor \in Chunks
           /\ Distance(c) \in 0 .. Count - 1 /\ Distance(c)' \in 0 .. Count - 1
           /\ (\A i \in 0 .. Inspected(sender) - 1 : c # Symbol(sender.cursor, i))
                => Distance(c)' + Inspected(sender) = Distance(c)
<1> DEFINE x == sender.cursor
           k == Inspected(sender)
<1>0. Count \in Nat \ {0} /\ x \in Chunks /\ k \in 0 .. Count /\ c \in Nat
  BY RldpConfigAssumption, InspectedEnds DEF RldpTypeOK
<1>1. /\ sender'.cursor \in Chunks
      /\ sender'.cursor = IF x + k < Count THEN x + k ELSE x + k - Count
  BY <1>0, SymbolValue DEF NextCursor
<1>2. Distance(c) \in 0 .. Count - 1 /\ Distance(c)' \in 0 .. Count - 1
  BY <1>0, <1>1 DEF Distance
<1>3. ASSUME \A i \in 0 .. k - 1 : c # Symbol(x, i)
      PROVE  Distance(c)' + k = Distance(c)
  <2> DEFINE d == Distance(c)
  <2>1. Symbol(x, d) = c
    <3>1. d \in 0 .. Count
      BY <1>0, <1>2
    <3>2. Symbol(x, d) = IF x + d < Count THEN x + d ELSE x + d - Count
      BY <1>0, <3>1, SymbolValue
    <3> QED BY <1>0, <3>2 DEF Distance
  <2>2. ~(d < k)
    BY <1>0, <1>2, <1>3, <2>1
  <2> DEFINE y == sender'.cursor
             e == IF c >= y THEN c - y ELSE c - y + Count
  <2>3. /\ d = IF c >= x THEN c - x ELSE c - x + Count
        /\ Distance(c)' = e
    BY DEF Distance
  <2>4. /\ x \in 0 .. Count - 1 /\ c \in 0 .. Count - 1 /\ k \in 0 .. Count /\ Count \in Nat
        /\ y = IF x + k < Count THEN x + k ELSE x + k - Count
    BY <1>0, <1>1 DEF Chunks
  <2> HIDE DEF d, y, k, x
  <2>5. e + k = d
    BY <2>2, <2>3, <2>4
  <2> QED BY <2>3, <2>5 DEF d, k
<1> QED BY <1>1, <1>2, <1>3

LEMMA SendRoundInv == RldpInv /\ SendRound => RldpInv'
<1> SUFFICES ASSUME RldpInv, SendRound PROVE RldpInv'
  OBVIOUS
<1> DEFINE out == Unacked(sender, Inspected(sender))
<1>0. RldpTypeOK /\ Count \in Nat \ {0} /\ MaxRounds \in Nat
  BY RldpConfigAssumption DEF RldpInv
<1>1. /\ dataLink' = dataLink \cup {[id |-> "this", seq |-> c] : c \in out}
      /\ lastSent' = [c \in Chunks |-> IF c \in out THEN sender.round + 1 ELSE lastSent[c]]
      /\ sender' = [sender EXCEPT !.cursor = NextCursor(sender), !.round = @ + 1,
                                  !.status = IF IsComplete(sender) THEN "ok" ELSE "waiting"]
      /\ sender.round < MaxRounds
      /\ UNCHANGED <<driver, receiver, session, ackLink, fullAckRead>>
  BY DEF SendRound
<1>2. /\ sender'.cursor = NextCursor(sender) /\ sender'.round = sender.round + 1
      /\ sender'.acked = sender.acked /\ sender'.lastAck = sender.lastAck
      /\ sender'.status = IF IsComplete(sender) THEN "ok" ELSE "waiting"
  BY <1>0, <1>1 DEF RldpTypeOK
<1>3. out \subseteq Chunks
  BY DEF Unacked
<1>4. NextCursor(sender) \in Chunks /\ 0 \in Chunks
  BY <1>0, <1>2, CursorMoves
<1> HIDE DEF out
<1>5. RldpTypeOK'
  <2>1. dataLink' \subseteq Frames
    <3>1. \A c \in out : [id |-> "this", seq |-> c] \in Frames
      BY <1>3 DEF Frames, Transfers
    <3>2. dataLink \subseteq Frames
      BY <1>0 DEF RldpTypeOK
    <3> QED BY <1>1, <3>1, <3>2
  <2>2. lastSent' \in [Chunks -> 0 .. MaxRounds]
    BY <1>0, <1>1 DEF RldpTypeOK
  <2>3. sender' \in [status : {"sending", "waiting", "ok", "timeout", "error"},
                     round : 0 .. MaxRounds, cursor : Chunks,
                     acked : SUBSET Chunks, lastAck : 0 .. MaxAcks]
    <3> DEFINE st == IF IsComplete(sender) THEN "ok" ELSE "waiting"
               rd == sender.round + 1
               cu == NextCursor(sender)
    <3>1. st \in {"sending", "waiting", "ok", "timeout", "error"} /\ rd \in 0 .. MaxRounds /\ cu \in Chunks
      BY <1>0, <1>1, <1>4 DEF RldpTypeOK
    <3>2. sender' = [sender EXCEPT !.cursor = cu, !.round = rd, !.status = st]
      BY <1>1
    <3> HIDE DEF st, rd, cu
    <3> QED BY <1>0, <3>1, <3>2 DEF RldpTypeOK
  <2> QED BY <1>0, <1>1, <2>1, <2>2, <2>3 DEF RldpTypeOK, Acks
<1>6. RotationIsFair'
  <2> SUFFICES ASSUME NEW c \in Chunks, c \notin sender.acked
               PROVE  (sender'.round - lastSent'[c]) * SymbolsPerRound + Distance(c)' < Count
    BY <1>2 DEF RotationIsFair, Distance
  <2> DEFINE perRound == SymbolsPerRound
             r == sender.round
             l == lastSent[c]
  <2>0. /\ perRound \in Nat /\ r \in Nat /\ l \in Nat /\ Inspected(sender) \in 0 .. Count
        /\ Distance(c) \in 0 .. Count - 1 /\ Distance(c)' \in 0 .. Count - 1
    BY <1>0, <1>2, SymbolsPerRoundType, InspectedEnds, CursorMoves DEF RldpTypeOK
  <2>1. CASE c \in out
    <3>1. lastSent'[c] = sender'.round
      BY <1>1, <1>2, <2>1
    <3>2. (sender'.round - lastSent'[c]) * SymbolsPerRound = 0
      BY <1>2, <2>0, <3>1
    <3> QED BY <1>0, <2>0, <3>2
  <2>2. CASE c \notin out
    <3>1. \A i \in 0 .. Inspected(sender) - 1 : c # Symbol(sender.cursor, i)
      BY <2>2 DEF out, Unacked
    <3>2. Distance(c)' + Inspected(sender) = Distance(c)
      BY <1>0, <1>2, <3>1, CursorMoves
    <3>3. Inspected(sender) # Count
      BY <1>0, <2>0, <3>2
    <3>4. Inspected(sender) >= perRound
      BY <3>3, RoundIsFull
    <3>5. sender'.round = r + 1 /\ lastSent'[c] = l
      BY <1>1, <1>2, <2>2
    <3>6. (r - l) * perRound + Distance(c) < Count
      BY DEF RldpInv, RotationIsFair
    <3>7. ((r + 1) - l) * perRound = (r - l) * perRound + perRound
      BY <2>0
    <3>8. (r - l) * perRound \in Int
      BY <2>0
    <3> HIDE DEF perRound, r, l
    <3>9. ((r + 1) - l) * perRound + Distance(c)' < Count
      BY <1>0, <2>0, <3>2, <3>4, <3>6, <3>7, <3>8
    <3> QED BY <3>5, <3>9 DEF perRound, r, l
  <2> QED BY <2>1, <2>2
<1>7. AcksAreTrue' /\ AckedIsTrue' /\ SomeSymbolMissing'
  BY <1>1, <1>2 DEF RldpInv, AcksAreTrue, AckedIsTrue, SomeSymbolMissing
<1>8. SuccessIsComplete'
  BY <1>2 DEF SuccessIsComplete, IsComplete
<1> QED BY <1>5, <1>6, <1>7, <1>8 DEF RldpInv

(* The steps that only end a wait or the transfer.                          *)
LEMMA SenderEndsInv ==
    ASSUME RldpInv, sender' \in {[sender EXCEPT !.status = "error"], [sender EXCEPT !.status = "sending"],
                              [sender EXCEPT !.status = "timeout"]},
           dataLink' \subseteq Frames,
           UNCHANGED <<driver, receiver, session, ackLink, lastSent, fullAckRead>>
    PROVE  RldpInv'
<1>0. RldpTypeOK
  BY DEF RldpInv
<1>1. /\ sender'.cursor = sender.cursor /\ sender'.round = sender.round
      /\ sender'.acked = sender.acked /\ sender'.status # "ok"
      /\ sender' \in [status : {"sending", "waiting", "ok", "timeout", "error"},
                       round : 0 .. MaxRounds, cursor : Chunks,
                       acked : SUBSET Chunks, lastAck : 0 .. MaxAcks]
  BY <1>0 DEF RldpTypeOK
<1>2. RldpTypeOK'
  BY <1>0, <1>1 DEF RldpTypeOK, Frames, Acks
<1>3. RotationIsFair'
  BY <1>1 DEF RldpInv, RotationIsFair, Distance
<1>4. AcksAreTrue' /\ AckedIsTrue' /\ SomeSymbolMissing' /\ SuccessIsComplete'
  BY <1>1 DEF RldpInv, AcksAreTrue, AckedIsTrue, SomeSymbolMissing, SuccessIsComplete
<1> QED BY <1>2, <1>3, <1>4 DEF RldpInv

LEMMA SendFailsInv == RldpInv /\ SendFails => RldpInv'
<1> SUFFICES ASSUME RldpInv, SendFails PROVE RldpInv'
  OBVIOUS
<1>1. PICK k \in 0 .. Inspected(sender) - 1 :
         dataLink' = dataLink \cup {[id |-> "this", seq |-> c] : c \in Unacked(sender, k)}
  BY DEF SendFails
<1>2. \A c \in Unacked(sender, k) : [id |-> "this", seq |-> c] \in Frames
  BY DEF Unacked, Frames, Transfers
<1>3. dataLink' \subseteq Frames
  BY <1>1, <1>2 DEF RldpInv, RldpTypeOK
<1> QED BY <1>3, SenderEndsInv DEF SendFails

(* apply_ack takes over what the ACK says, which is true of the receiver.   *)
LEMMA ReadAckInv ==
    ASSUME RldpInv, NEW ack \in ackLink, ReadAck(ack)
    PROVE  RldpInv'
<1>0. RldpTypeOK /\ ack \in Acks
  BY DEF RldpInv, RldpTypeOK
<1>1. UNCHANGED <<driver, receiver, session, dataLink, ackLink, lastSent>> /\ fullAckRead' \in BOOLEAN
  BY DEF ReadAck
<1>2. \/ sender' = sender
      \/ /\ ack.id = "this"
         /\ sender' = [sender EXCEPT !.lastAck = ack.seq, !.acked = sender.acked \cup ack.mask,
                          !.status = IF sender.acked \cup ack.mask = Chunks THEN "ok" ELSE @]
  BY DEF ReadAck, ApplyAck
<1>3. CASE sender' = sender
  BY <1>1, <1>3 DEF RldpInv, RldpTypeOK, RotationIsFair, Distance, AcksAreTrue, AckedIsTrue,
                    SomeSymbolMissing, SuccessIsComplete, Frames, Acks
<1>4. CASE /\ ack.id = "this"
           /\ sender' = [sender EXCEPT !.lastAck = ack.seq, !.acked = sender.acked \cup ack.mask,
                            !.status = IF sender.acked \cup ack.mask = Chunks THEN "ok" ELSE @]
  <2>0. sender.status = "waiting"
    BY DEF ReadAck
  <2>1. /\ sender'.cursor = sender.cursor /\ sender'.round = sender.round
        /\ sender'.acked = sender.acked \cup ack.mask
        /\ sender'.status = "ok" => sender'.acked = Chunks
        /\ ack.mask \subseteq Chunks /\ ack.seq \in 0 .. MaxAcks
    BY <1>0, <1>4, <2>0 DEF RldpTypeOK, Acks
  <2>2. sender' \in [status : {"sending", "waiting", "ok", "timeout", "error"},
                     round : 0 .. MaxRounds, cursor : Chunks,
                     acked : SUBSET Chunks, lastAck : 0 .. MaxAcks]
    BY <1>0, <1>4, <2>1 DEF RldpTypeOK
  <2>3. RldpTypeOK'
    BY <1>0, <1>1, <2>2 DEF RldpTypeOK, Frames, Acks
  <2>4. RotationIsFair'
    BY <1>1, <2>1 DEF RldpInv, RotationIsFair, Distance
  <2>5. AcksAreTrue' /\ AckedIsTrue' /\ SuccessIsComplete'
    BY <1>1, <1>4, <2>1 DEF RldpInv, AcksAreTrue, AckedIsTrue, SuccessIsComplete
  <2>6. SomeSymbolMissing'
    BY <1>1, <1>4, <2>1 DEF RldpInv, SomeSymbolMissing
  <2> QED BY <2>3, <2>4, <2>5, <2>6 DEF RldpInv
<1> QED BY <1>2, <1>3, <1>4

-----------------------------------------------------------------------------
(* The receiver *)

(* The receiver stops without having told anybody more than before.         *)
LEMMA ReceiverEndsInv ==
    ASSUME RldpInv, UNCHANGED <<driver, sender, dataLink, ackLink, lastSent, fullAckRead>>,
           session' \in BOOLEAN,
           receiver' \in [status : {"listening", "receiving", "delivered", "error"},
                          id : Transfers, chunks : SUBSET Chunks, ackSeq : 0 .. MaxAcks],
           receiver.status # "delivered",
           \/ receiver' = receiver
           \/ /\ receiver'.status = "error"
              /\ receiver.status # "listening" =>
                     receiver'.id = receiver.id /\ receiver.chunks \subseteq receiver'.chunks
    PROVE  RldpInv'
<1>1. RldpTypeOK'
  BY DEF RldpInv, RldpTypeOK, Frames, Acks
<1>2. RotationIsFair'
  BY DEF RldpInv, RotationIsFair, Distance
<1>3. AcksAreTrue'
  BY DEF RldpInv, AcksAreTrue
<1>4. AckedIsTrue'
  BY DEF RldpInv, AckedIsTrue
<1>5. SomeSymbolMissing' /\ SuccessIsComplete'
  BY DEF RldpInv, SomeSymbolMissing, SuccessIsComplete
<1> QED BY <1>1, <1>2, <1>3, <1>4, <1>5 DEF RldpInv

(* Taking in a frame: the transfer it belongs to, and one symbol more.      *)
LEMMA IngestedType ==
    ASSUME RldpTypeOK, NEW f \in dataLink, Receiving, Belongs(f), receiver.ackSeq < MaxAcks
    PROVE  /\ Ingested(f) \in [status : {"receiving", "delivered"}, id : Transfers,
                               chunks : SUBSET Chunks, ackSeq : 0 .. MaxAcks]
           /\ Ingested(f).status = "delivered" <=> Ingested(f).chunks = Chunks
           /\ receiver.status # "listening" =>
                 Ingested(f).id = receiver.id /\ receiver.chunks \subseteq Ingested(f).chunks
<1>1. f.id \in Transfers /\ f.seq \in Chunks
  BY DEF RldpTypeOK, Frames
<1>2. receiver.ackSeq + 1 \in 0 .. MaxAcks
  BY RldpBoundAssumption DEF RldpTypeOK
<1>3. receiver \in [status : {"listening", "receiving", "delivered", "error"},
                    id : Transfers, chunks : SUBSET Chunks, ackSeq : 0 .. MaxAcks]
  BY DEF RldpTypeOK
<1>4. CASE receiver.status = "listening"
  BY <1>1, <1>2, <1>3, <1>4 DEF Ingested
<1>5. CASE receiver.status # "listening"
  BY <1>1, <1>2, <1>3, <1>5 DEF Ingested
<1> QED BY <1>4, <1>5

LEMMA ReceiveFrameInv ==
    ASSUME RldpInv, NEW f \in dataLink, ReceiveFrame(f)
    PROVE  RldpInv'
<1> DEFINE r == Ingested(f)
           a == [id |-> r.id, seq |-> r.ackSeq, mask |-> r.chunks]
<1>0. RldpTypeOK /\ 0 \in Chunks
  BY RldpConfigAssumption DEF RldpInv
<1>1. /\ receiver' = r /\ ackLink' = ackLink \cup {a} /\ session' = TRUE
      /\ UNCHANGED <<driver, sender, dataLink, lastSent, fullAckRead>>
      /\ Receiving /\ Belongs(f) /\ receiver.ackSeq < MaxAcks
  BY DEF ReceiveFrame
<1>2. /\ r \in [status : {"receiving", "delivered"}, id : Transfers,
                 chunks : SUBSET Chunks, ackSeq : 0 .. MaxAcks]
      /\ r.status = "delivered" <=> r.chunks = Chunks
      /\ receiver.status # "listening" => r.id = receiver.id /\ receiver.chunks \subseteq r.chunks
  BY <1>0, <1>1, IngestedType
<1> HIDE DEF r
<1>3. RldpTypeOK'
  <2>1. a \in Acks
    BY <1>2 DEF Acks
  <2>2. receiver' \in [status : {"listening", "receiving", "delivered", "error"},
                       id : Transfers, chunks : SUBSET Chunks, ackSeq : 0 .. MaxAcks]
    BY <1>1, <1>2
  <2> QED BY <1>0, <1>1, <2>1, <2>2 DEF RldpTypeOK, Frames, Acks
<1>4. RotationIsFair' /\ SuccessIsComplete'
  BY <1>1 DEF RldpInv, RotationIsFair, Distance, SuccessIsComplete
<1>5. AcksAreTrue'
  BY <1>1, <1>2 DEF RldpInv, AcksAreTrue
<1>6. AckedIsTrue'
  BY <1>1, <1>2 DEF RldpInv, AckedIsTrue
<1>7. SomeSymbolMissing'
  <2> SUFFICES ASSUME r.status # "delivered"
               PROVE  \E c \in Chunks : c \notin sender'.acked /\ \A b \in ackLink' : b.id = "this" => c \notin b.mask
    BY <1>1 DEF SomeSymbolMissing
  <2>1. PICK c \in Chunks : c \notin r.chunks
    BY <1>2
  <2>2. c \notin sender'.acked
    BY <1>1, <1>6, <2>1 DEF AckedIsTrue
  <2>3. \A b \in ackLink' : b.id = "this" => c \notin b.mask
    BY <1>1, <1>5, <2>1 DEF AcksAreTrue
  <2> QED BY <2>2, <2>3
<1> QED BY <1>3, <1>4, <1>5, <1>6, <1>7 DEF RldpInv

LEMMA ReceiverFailsInv ==
    ASSUME RldpInv,
           RecvFails \/ \E f \in dataLink : AckSendFails(f) \/ ForeignFrame(f)
    PROVE  RldpInv'
<1>0. RldpTypeOK
  BY DEF RldpInv
<1>1. CASE receiver' = [receiver EXCEPT !.status = "error"] /\ Receiving
           /\ UNCHANGED <<driver, sender, session, dataLink, ackLink, lastSent, fullAckRead>>
  <2>1. /\ receiver' \in [status : {"listening", "receiving", "delivered", "error"},
                           id : Transfers, chunks : SUBSET Chunks, ackSeq : 0 .. MaxAcks]
        /\ receiver'.status = "error" /\ receiver'.id = receiver.id /\ receiver'.chunks = receiver.chunks
    BY <1>0, <1>1 DEF RldpTypeOK
  <2>2. session' \in BOOLEAN /\ receiver.status # "delivered"
    BY <1>0, <1>1 DEF RldpTypeOK, Receiving
  <2> QED BY <1>1, <2>1, <2>2, ReceiverEndsInv
<1>2. ASSUME NEW f \in dataLink, AckSendFails(f) PROVE RldpInv'
  <2> DEFINE r == Ingested(f)
  <2>1. /\ r \in [status : {"receiving", "delivered"}, id : Transfers,
                   chunks : SUBSET Chunks, ackSeq : 0 .. MaxAcks]
        /\ receiver.status # "listening" => r.id = receiver.id /\ receiver.chunks \subseteq r.chunks
    BY <1>0, <1>2, IngestedType DEF AckSendFails
  <2>2. receiver' = [r EXCEPT !.status = "error"]
    BY <1>2 DEF AckSendFails
  <2> HIDE DEF r
  <2>3. /\ receiver' \in [status : {"listening", "receiving", "delivered", "error"},
                           id : Transfers, chunks : SUBSET Chunks, ackSeq : 0 .. MaxAcks]
        /\ receiver'.status = "error" /\ receiver'.id = r.id /\ receiver'.chunks = r.chunks
    BY <2>1, <2>2
  <2>4. session' \in BOOLEAN /\ receiver.status # "delivered"
        /\ UNCHANGED <<driver, sender, dataLink, ackLink, lastSent, fullAckRead>>
    BY <1>0, <1>2 DEF AckSendFails, RldpTypeOK, Receiving
  <2> QED BY <2>1, <2>3, <2>4, ReceiverEndsInv
<1> QED BY <1>1, <1>2 DEF RecvFails, ForeignFrame

LEMMA ConnectInv == RldpInv /\ Connect => RldpInv'
<1> SUFFICES ASSUME RldpInv, Connect PROVE RldpInv'
  OBVIOUS
<1> QED BY DEF Connect, RldpInv, RldpTypeOK, RotationIsFair, Distance, AcksAreTrue, AckedIsTrue,
               SomeSymbolMissing, SuccessIsComplete, Frames, Acks

-----------------------------------------------------------------------------
LEMMA RldpStep == RldpInv /\ [RldpNext]_rldpVars => RldpInv'
<1> SUFFICES ASSUME RldpInv, [RldpNext]_rldpVars PROVE RldpInv'
  OBVIOUS
<1>1. CASE SendRound
  BY <1>1, SendRoundInv
<1>2. CASE SendFails
  BY <1>2, SendFailsInv
<1>3. CASE WaitEnds \/ RoundsExhausted
  <2>1. dataLink' \subseteq Frames
    BY <1>3 DEF RldpInv, RldpTypeOK, WaitEnds, RoundsExhausted
  <2> QED BY <1>3, <2>1, SenderEndsInv DEF WaitEnds, RoundsExhausted
<1>4. ASSUME NEW ack \in ackLink, ReadAck(ack) PROVE RldpInv'
  BY <1>4, ReadAckInv
<1>5. CASE Connect
  BY <1>5, ConnectInv
<1>6. ASSUME NEW f \in dataLink, ReceiveFrame(f) PROVE RldpInv'
  BY <1>6, ReceiveFrameInv
<1>7. CASE RecvFails \/ \E f \in dataLink : AckSendFails(f) \/ ForeignFrame(f)
  BY <1>7, ReceiverFailsInv
<1>8. CASE UNCHANGED rldpVars
  BY <1>8 DEF rldpVars, RldpInv, RldpTypeOK, RotationIsFair, Distance, AcksAreTrue, AckedIsTrue,
              SomeSymbolMissing, SuccessIsComplete, Frames, Acks
<1> QED BY <1>1, <1>2, <1>3, <1>4, <1>5, <1>6, <1>7, <1>8 DEF RldpNext

LEMMA RldpInvImplies == RldpInv => RldpTypeOK /\ SuccessMeansDelivered /\ NoSymbolStarves
<1>1. RldpInv => SuccessMeansDelivered
  <2> SUFFICES ASSUME RldpInv, sender.status = "ok"
               PROVE  receiver.status = "delivered" /\ receiver.id = "this" /\ receiver.chunks = Chunks
    BY DEF SuccessMeansDelivered
  <2>0. 0 \in Chunks
    BY RldpConfigAssumption
  <2>1. sender.acked = Chunks /\ Chunks # {}
    BY <2>0 DEF RldpInv, SuccessIsComplete
  <2>2. receiver.id = "this" /\ Chunks \subseteq receiver.chunks
    BY <2>1 DEF RldpInv, AckedIsTrue
  <2>3. receiver.chunks = Chunks
    BY <2>2 DEF RldpInv, RldpTypeOK
  <2>4. receiver.status = "delivered"
    BY <2>1 DEF RldpInv, SomeSymbolMissing
  <2> QED BY <2>2, <2>3, <2>4
<1>2. RldpInv => NoSymbolStarves
  <2> SUFFICES ASSUME RldpInv, NEW c \in Chunks \ sender.acked
               PROVE  (sender.round - lastSent[c]) * SymbolsPerRound < Count
    BY DEF NoSymbolStarves
  <2>0. c \in 0 .. Count - 1 /\ sender.cursor \in 0 .. Count - 1 /\ Count \in Nat
    BY RldpConfigAssumption DEF RldpInv, RldpTypeOK, Chunks
  <2>1. Distance(c) \in Nat
    BY <2>0 DEF Distance
  <2>2. (sender.round - lastSent[c]) * SymbolsPerRound \in Int
    BY SymbolsPerRoundType DEF RldpInv, RldpTypeOK
  <2> QED BY <2>1, <2>2, RldpConfigAssumption DEF RldpInv, RotationIsFair
<1>3. RldpInv => RldpTypeOK
  BY DEF RldpInv
<1> QED BY <1>1, <1>2, <1>3

(* The invariant holds throughout a transfer.                               *)
THEOREM RldpInductive == RldpSpec => []RldpInv
  BY RldpInitInv, RldpStep, PTL DEF RldpSpec

(* The cursor of next_round stays on the payload, and everything either end *)
(* keeps stays within its bounds.                                           *)
THEOREM RldpTypeCorrect == RldpSpec => []RldpTypeOK
  BY RldpInductive, RldpInvImplies, PTL

(* When send_rldp returns Ok, recv_rldp has returned this payload: whatever *)
(* was lost, repeated or reordered, and also when an ACK could not be sent. *)
THEOREM SuccessIsDelivery == RldpSpec => []SuccessMeansDelivered
  BY RldpInductive, RldpInvImplies, PTL

(* next_round goes through the symbols in turn: none stays unsent for so    *)
(* many rounds that all of them would have fitted.                          *)
THEOREM RotationReachesAll == RldpSpec => []NoSymbolStarves
  BY RldpInductive, RldpInvImplies, PTL

HIDE DEF Chunks

-----------------------------------------------------------------------------
(***************************************************************************)
(* ADNL.  sessions is held from the entry of a session to that of its      *)
(* channel, so one task of a node is in between at most, and its peer has  *)
(* no channel.                                                             *)
(***************************************************************************)

TaskRecords ==
    [pc : Pcs, op : {"none", "connect", "send", "recv"}, peer : Nodes \cup {0},
     packet : Packets \cup {NoPacket}, result : Results]

(* A task between the two entries holds sessions; its peer is not registered. *)
OneInsertAtATime ==
    /\ \A t \in Tasks : Is(t, "insert") =>
           task[t].peer \in sessions[Home[t]] /\ task[t].peer \notin Registered(Home[t])
    /\ \A t, u \in Tasks : Is(t, "insert") /\ Is(u, "insert") /\ Home[t] = Home[u] => t = u

(* A task that fetches a session found the channel of its packet.           *)
FetchedIsKnown ==
    \A t \in Tasks : Is(t, "fetch") =>
        <<task[t].packet.header, task[t].peer>> \in channels[Home[t]]

(* Only a task that has returned can have been refused.                     *)
RefusedIsIdle == \A t \in Tasks : task[t].result = "refused" => Is(t, "idle")

(* Who calls a connect, and with whom: a node of the network.               *)
CalleeIsNode == \A t \in Tasks : task[t].pc \in {"connect", "insert", "transmit"} => task[t].peer \in Nodes

AdnlInv ==
    /\ AdnlTypeOK /\ ChannelsHaveSessions /\ OneInsertAtATime
    /\ FetchedIsKnown /\ RefusedIsIdle /\ CalleeIsNode

(* Both ends of a connection compute the same channel.                      *)
LEMMA ChannelIsSymmetric ==
    ASSUME NEW a \in Nodes, NEW b \in Nodes
    PROVE  ChannelId(a, b) = ChannelId(b, a)
<1>1. a \in Int /\ b \in Int
  BY NodesAssumption
<1>2. SharedSecret(a, b) = SharedSecret(b, a)
  BY DEF SharedSecret
<1>3. CASE a = b
  BY <1>3
<1>4. CASE a < b
  BY <1>1, <1>2, <1>4 DEF ChannelId
<1>5. CASE b < a
  BY <1>1, <1>2, <1>5 DEF ChannelId
<1> QED BY <1>1, <1>3, <1>4, <1>5

(* A step of one task that leaves sessions and channels as they are, and    *)
(* does not take a lock it would keep.                                      *)
LEMMA QuietStep ==
    ASSUME AdnlInv, NEW t \in Tasks, NEW rec \in TaskRecords,
           task' = [task EXCEPT ![t] = rec],
           UNCHANGED <<sessions, channels>>, wire' \subseteq Packets,
           rec.pc # "insert",
           rec.pc = "fetch" => <<rec.packet.header, rec.peer>> \in channels[Home[t]],
           rec.result = "refused" => rec.pc = "idle",
           rec.pc \in {"connect", "insert", "transmit"} => rec.peer \in Nodes
    PROVE  AdnlInv'
<1>0. /\ AdnlTypeOK /\ task \in [Tasks -> TaskRecords]
      /\ task'[t] = rec /\ \A u \in Tasks : u # t => task'[u] = task[u]
  BY DEF AdnlInv, AdnlTypeOK, TaskRecords
<1>1. AdnlTypeOK'
  <2>1. task' \in [Tasks -> TaskRecords]
    BY <1>0
  <2> QED BY <1>0, <2>1 DEF AdnlTypeOK, TaskRecords, Channels, Packets, FullPackets, FastPackets
<1>2. ChannelsHaveSessions'
  BY DEF AdnlInv, ChannelsHaveSessions
<1>3. OneInsertAtATime'
  BY <1>0 DEF AdnlInv, OneInsertAtATime, Is, Registered
<1>4. FetchedIsKnown'
  BY <1>0 DEF AdnlInv, FetchedIsKnown, Is
<1>5. RefusedIsIdle' /\ CalleeIsNode'
  BY <1>0 DEF AdnlInv, RefusedIsIdle, CalleeIsNode, Is
<1> QED BY <1>1, <1>2, <1>3, <1>4, <1>5 DEF AdnlInv

LEMMA IdleIsQuiet ==
    ASSUME NEW result \in Results
    PROVE  /\ Idle(result) \in TaskRecords
           /\ Idle(result).pc = "idle"
  BY DEF Idle, TaskRecords, Pcs

LEMMA AdnlInitInv == AdnlInit => AdnlInv
<1> SUFFICES ASSUME AdnlInit PROVE AdnlInv
  OBVIOUS
<1>1. \A t \in Tasks : task[t] = Idle("ok") /\ task[t].pc = "idle" /\ task[t].result = "ok"
  BY DEF AdnlInit, Idle
<1>2. wire \subseteq Packets
  <2>1. \A n \in Nodes : [kind |-> "full", header |-> AddressId(n), from |-> n, to |-> n,
                          intact |-> TRUE, long |-> TRUE] \in FullPackets
    BY DEF FullPackets
  <2> QED BY <2>1 DEF AdnlInit, Packets
<1>3. task \in [Tasks -> TaskRecords]
  <2>1. Idle("ok") \in TaskRecords
    BY IdleIsQuiet DEF Results
  <2> QED BY <2>1 DEF AdnlInit
<1>4. AdnlTypeOK
  BY <1>2, <1>3 DEF AdnlInit, AdnlTypeOK, TaskRecords
<1> QED BY <1>1, <1>4 DEF AdnlInit, AdnlInv, ChannelsHaveSessions, OneInsertAtATime, FetchedIsKnown,
           RefusedIsIdle, CalleeIsNode, Is

-----------------------------------------------------------------------------
(* connect_peer and send_datagram *)

LEMMA CallConnectInv ==
    ASSUME AdnlInv, NEW t \in Tasks, NEW o \in {"connect", "send"}, NEW peer \in Nodes, CallConnect(t, o, peer)
    PROVE  AdnlInv'
<1> DEFINE rec == [pc |-> "connect", op |-> o, peer |-> peer, packet |-> NoPacket, result |-> "ok"]
<1>1. rec \in TaskRecords
  BY DEF TaskRecords, Pcs, Results
<1>2. task' = [task EXCEPT ![t] = rec] /\ UNCHANGED <<sessions, channels, wire>>
  BY DEF CallConnect
<1>3. rec.pc = "connect" /\ rec.result = "ok" /\ rec.peer \in Nodes
  OBVIOUS
<1>4. wire' \subseteq Packets
  BY <1>2 DEF AdnlInv, AdnlTypeOK
<1> HIDE DEF rec
<1> QED BY <1>1, <1>2, <1>3, <1>4, QuietStep

(* A task goes on to the send, or back to its caller: what Connected does   *)
(* to the task, whatever became of the locks.                               *)
LEMMA ConnectedShape ==
    ASSUME AdnlInv, NEW t \in Tasks, task[t].pc \in {"connect", "insert"}, Connected(t)
    PROVE  \E rec \in TaskRecords :
               /\ task' = [task EXCEPT ![t] = rec]
               /\ rec.pc \in {"idle", "transmit"} /\ rec.result = "ok"
               /\ rec.pc = "transmit" => rec.peer \in Nodes
<1>0. task \in [Tasks -> TaskRecords] /\ task[t].peer \in Nodes /\ task[t].result = "ok"
  <2>1. task \in [Tasks -> TaskRecords]
    BY DEF AdnlInv, AdnlTypeOK, TaskRecords
  <2>2. task[t].result \in Results
    BY <2>1 DEF TaskRecords
  <2> QED BY <2>1, <2>2 DEF AdnlInv, CalleeIsNode, RefusedIsIdle, Is, Results
<1>1. CASE task[t].op = "send"
  <2> DEFINE rec == [task[t] EXCEPT !.pc = "transmit"]
  <2>1. rec \in TaskRecords
    BY <1>0 DEF TaskRecords, Pcs
  <2>2. rec.pc = "transmit" /\ rec.result = "ok" /\ rec.peer \in Nodes
    BY <1>0 DEF TaskRecords
  <2>3. task' = [task EXCEPT ![t] = rec]
    BY <1>0, <1>1 DEF Connected, Goto
  <2> QED BY <2>1, <2>2, <2>3
<1>2. CASE task[t].op # "send"
  <2>1. task' = [task EXCEPT ![t] = Idle("ok")]
    BY <1>2 DEF Connected, Return
  <2>2. Idle("ok") \in TaskRecords /\ Idle("ok").pc = "idle" /\ Idle("ok").result = "ok"
    BY IdleIsQuiet DEF Results, Idle
  <2> QED BY <2>1, <2>2
<1> QED BY <1>1, <1>2

LEMMA FindSessionInv ==
    ASSUME AdnlInv, NEW t \in Tasks, FindSession(t)
    PROVE  AdnlInv'
<1>1. PICK rec \in TaskRecords : /\ task' = [task EXCEPT ![t] = rec]
                                 /\ rec.pc \in {"idle", "transmit"} /\ rec.result = "ok"
                                 /\ rec.pc = "transmit" => rec.peer \in Nodes
  BY ConnectedShape DEF FindSession, Is
<1>2. UNCHANGED <<sessions, channels, wire>> /\ wire' \subseteq Packets
  BY DEF FindSession, AdnlInv, AdnlTypeOK
<1> QED BY <1>1, <1>2, QuietStep

(* The session is entered; the lock keeps every other connect_peer of the   *)
(* node out until the channel is.                                           *)
LEMMA CreateSessionInv ==
    ASSUME AdnlInv, NEW t \in Tasks, CreateSession(t)
    PROVE  AdnlInv'
<1> DEFINE n == Home[t]
           p == task[t].peer
<1>0. /\ AdnlTypeOK /\ task \in [Tasks -> TaskRecords] /\ n \in Nodes
      /\ \A u \in Tasks : Home[u] \in Nodes
  BY HomeAssumption DEF AdnlInv, AdnlTypeOK, TaskRecords
<1>1. /\ Is(t, "connect") /\ SessionsFree(n) /\ p \notin sessions[n]
      /\ sessions' = [sessions EXCEPT ![n] = @ \cup {p}]
      /\ task' = [task EXCEPT ![t].pc = "insert"]
      /\ UNCHANGED <<channels, wire>>
  BY DEF CreateSession, Goto
<1>2. p \in Nodes /\ task[t].result # "refused"
  BY <1>1 DEF AdnlInv, CalleeIsNode, RefusedIsIdle, Is
<1>3. /\ task'[t] = [task[t] EXCEPT !.pc = "insert"] /\ task'[t].pc = "insert"
      /\ task'[t].peer = p /\ task'[t].result = task[t].result
      /\ \A u \in Tasks : u # t => task'[u] = task[u]
      /\ task' \in [Tasks -> TaskRecords]
  BY <1>0, <1>1 DEF TaskRecords, Pcs
<1>4. /\ sessions' \in [Nodes -> SUBSET Nodes]
      /\ sessions'[n] = sessions[n] \cup {p}
      /\ \A k \in Nodes : sessions[k] \subseteq sessions'[k]
  BY <1>0, <1>1, <1>2 DEF AdnlTypeOK
<1> HIDE DEF p, n
<1>5. AdnlTypeOK'
  BY <1>0, <1>1, <1>3, <1>4 DEF AdnlTypeOK, TaskRecords
<1>6. ChannelsHaveSessions'
  BY <1>1, <1>4 DEF AdnlInv, ChannelsHaveSessions
<1>7. OneInsertAtATime'
  <2>1. p \notin Registered(n)
    BY <1>0, <1>1 DEF AdnlInv, ChannelsHaveSessions, Registered
  <2>2. \A u \in Tasks : u # t /\ Home[u] = n => task[u].pc # "insert"
    BY <1>1 DEF SessionsFree, Is
  <2>3. \A u \in Tasks : Is(u, "insert")' =>
           task'[u].peer \in sessions'[Home[u]] /\ task'[u].peer \notin Registered(Home[u])'
    BY <1>0, <1>1, <1>3, <1>4, <2>1 DEF AdnlInv, OneInsertAtATime, Is, Registered, n
  <2>4. \A u, v \in Tasks : Is(u, "insert")' /\ Is(v, "insert")' /\ Home[u] = Home[v] => u = v
    BY <1>3, <2>2 DEF AdnlInv, OneInsertAtATime, Is, n
  <2> QED BY <2>3, <2>4 DEF OneInsertAtATime
<1>8. FetchedIsKnown' /\ RefusedIsIdle' /\ CalleeIsNode'
  BY <1>1, <1>2, <1>3 DEF AdnlInv, FetchedIsKnown, RefusedIsIdle, CalleeIsNode, Is
<1> QED BY <1>5, <1>6, <1>7, <1>8 DEF AdnlInv

(* The channel of the session is entered.                                   *)
LEMMA InsertChannelInv ==
    ASSUME AdnlInv, NEW t \in Tasks, InsertChannel(t)
    PROVE  AdnlInv'
<1> DEFINE n == Home[t]
           p == task[t].peer
           e == <<ChannelId(n, p), p>>
<1>0. /\ AdnlTypeOK /\ task \in [Tasks -> TaskRecords] /\ n \in Nodes
      /\ \A u \in Tasks : Home[u] \in Nodes
  BY HomeAssumption DEF AdnlInv, AdnlTypeOK, TaskRecords
<1>1. /\ Is(t, "insert") /\ channels' = [channels EXCEPT ![n] = @ \cup {e}]
      /\ Connected(t) /\ UNCHANGED <<sessions, wire>>
  BY DEF InsertChannel
<1>2. /\ p \in Nodes /\ p \in sessions[n]
      /\ \A u \in Tasks : u # t /\ Home[u] = n => task[u].pc # "insert"
  BY <1>1 DEF AdnlInv, CalleeIsNode, OneInsertAtATime, Is
<1>3. PICK rec \in TaskRecords : /\ task' = [task EXCEPT ![t] = rec]
                                 /\ rec.pc \in {"idle", "transmit"} /\ rec.result = "ok"
                                 /\ rec.pc = "transmit" => rec.peer \in Nodes
  BY <1>1, ConnectedShape DEF Is
<1>4. /\ task'[t] = rec /\ task' \in [Tasks -> TaskRecords]
      /\ \A u \in Tasks : u # t => task'[u] = task[u]
  BY <1>0, <1>3
<1>5. e \in Channels \X Nodes
  BY <1>0, <1>2 DEF Channels
<1>6. /\ channels' \in [Nodes -> SUBSET (Channels \X Nodes)]
      /\ channels'[n] = channels[n] \cup {e}
      /\ \A k \in Nodes : k # n => channels'[k] = channels[k]
  <2> HIDE DEF e, n
  <2> QED BY <1>0, <1>1, <1>5 DEF AdnlTypeOK
<1>7. e[2] = p /\ e[1] = ChannelId(n, p)
  OBVIOUS
<1> HIDE DEF e, p, n
<1>8. AdnlTypeOK'
  BY <1>0, <1>1, <1>4, <1>6 DEF AdnlTypeOK, TaskRecords
<1>9. ChannelsHaveSessions'
  BY <1>0, <1>1, <1>2, <1>6, <1>7 DEF AdnlInv, ChannelsHaveSessions
<1>10. OneInsertAtATime'
  <2>1. \A u \in Tasks : Is(u, "insert")' => u # t /\ Is(u, "insert") /\ Home[u] # n /\ task'[u] = task[u]
    BY <1>2, <1>3, <1>4 DEF Is, n
  <2>2. \A u \in Tasks : Home[u] # n => Registered(Home[u])' = Registered(Home[u])
    BY <1>0, <1>6 DEF Registered
  <2> QED BY <1>1, <2>1, <2>2 DEF AdnlInv, OneInsertAtATime
<1>11. FetchedIsKnown'
  BY <1>0, <1>3, <1>4, <1>6 DEF AdnlInv, FetchedIsKnown, Is
<1>12. RefusedIsIdle' /\ CalleeIsNode'
  BY <1>3, <1>4 DEF AdnlInv, RefusedIsIdle, CalleeIsNode, Is
<1> QED BY <1>8, <1>9, <1>10, <1>11, <1>12 DEF AdnlInv

(* The packet that send_datagram sends.                                     *)
LEMMA TransmitInv ==
    ASSUME AdnlInv, NEW t \in Tasks, Transmit(t)
    PROVE  AdnlInv'
<1> DEFINE q == [kind |-> "fast", header |-> ChannelId(Home[t], task[t].peer), from |-> Home[t],
                 to |-> task[t].peer, intact |-> TRUE, long |-> TRUE]
<1>1. task[t].peer \in Nodes /\ Home[t] \in Nodes
  BY HomeAssumption DEF Transmit, AdnlInv, CalleeIsNode, Is
<1>2. q \in Packets
  BY <1>1 DEF Packets, FastPackets, Channels
<1>3. /\ wire' \in {wire, wire \cup {q}} /\ UNCHANGED <<sessions, channels>>
      /\ \E result \in Results : task' = [task EXCEPT ![t] = Idle(result)]
  BY DEF Transmit, Return, Results
<1>4. wire' \subseteq Packets
  BY <1>2, <1>3 DEF AdnlInv, AdnlTypeOK
<1>5. \A result \in Results : Idle(result) \in TaskRecords /\ Idle(result).pc = "idle"
  BY IdleIsQuiet
<1> QED BY <1>3, <1>4, <1>5, QuietStep

-----------------------------------------------------------------------------
(* recv_datagram *)

(* A task returns, and nothing else changes.                                *)
LEMMA ReturnInv ==
    ASSUME AdnlInv, NEW t \in Tasks, NEW result \in Results, Return(t, result),
           UNCHANGED <<sessions, channels, wire>>
    PROVE  AdnlInv'
<1>1. task' = [task EXCEPT ![t] = Idle(result)]
  BY DEF Return
<1>2. Idle(result) \in TaskRecords /\ Idle(result).pc = "idle"
  BY IdleIsQuiet
<1>3. wire' \subseteq Packets
  BY DEF AdnlInv, AdnlTypeOK
<1> QED BY <1>1, <1>2, <1>3, QuietStep

LEMMA ArrivingType ==
    ASSUME AdnlInv, NEW n, NEW p \in Arriving(n)
    PROVE  p \in Packets
<1>1. PICK q \in wire : p \in {q, [q EXCEPT !.intact = FALSE], [q EXCEPT !.intact = FALSE, !.long = FALSE]}
  BY DEF Arriving
<1>2. q \in FullPackets \/ q \in FastPackets
  BY DEF AdnlInv, AdnlTypeOK, Packets
<1>3. q \in FullPackets => p \in FullPackets
  BY <1>1 DEF FullPackets
<1>4. q \in FastPackets => p \in FastPackets
  BY <1>1 DEF FastPackets
<1> QED BY <1>2, <1>3, <1>4 DEF Packets

LEMMA RecvInv ==
    ASSUME AdnlInv, NEW t \in Tasks, NEW p \in Arriving(Home[t]), Recv(t, p)
    PROVE  AdnlInv'
<1>1. UNCHANGED <<sessions, channels, wire>> /\ wire' \subseteq Packets
  BY DEF Recv, AdnlInv, AdnlTypeOK
<1>2. CASE Return(t, "refused") \/ Return(t, "ok")
  BY <1>1, <1>2, ReturnInv DEF Results
<1>3. CASE task' = [task EXCEPT ![t] = [pc |-> "lookup", op |-> "recv", peer |-> 0,
                                        packet |-> p, result |-> "ok"]]
  <2> DEFINE rec == [pc |-> "lookup", op |-> "recv", peer |-> 0, packet |-> p, result |-> "ok"]
  <2>1. rec \in TaskRecords
    BY ArrivingType DEF TaskRecords, Pcs, Results
  <2>2. rec.pc = "lookup" /\ rec.result = "ok"
    OBVIOUS
  <2>3. task' = [task EXCEPT ![t] = rec]
    BY <1>3
  <2> HIDE DEF rec
  <2> QED BY <1>1, <2>1, <2>2, <2>3, QuietStep
<1> QED BY <1>2, <1>3 DEF Recv

LEMMA KnownChannelInv ==
    ASSUME AdnlInv, NEW t \in Tasks, KnownChannel(t)
    PROVE  AdnlInv'
<1>0. task \in [Tasks -> TaskRecords] /\ Home[t] \in Nodes /\ task[t].result \in Results
  BY HomeAssumption DEF AdnlInv, AdnlTypeOK, TaskRecords
<1>1. PICK p \in PeersOf(Home[t], task[t].packet.header) :
         task' = [task EXCEPT ![t].pc = "fetch", ![t].peer = p]
  BY DEF KnownChannel
<1>2. PICK e \in channels[Home[t]] : e[1] = task[t].packet.header /\ e[2] = p
  BY <1>1 DEF PeersOf
<1>3. e \in Channels \X Nodes
  BY <1>0, <1>2 DEF AdnlInv, AdnlTypeOK
<1>4. e = <<task[t].packet.header, p>> /\ p \in Nodes
  BY <1>2, <1>3
<1> DEFINE rec == [task[t] EXCEPT !.pc = "fetch", !.peer = p]
<1>5. rec \in TaskRecords /\ rec.pc = "fetch" /\ rec.peer = p /\ rec.packet = task[t].packet
      /\ rec.result = task[t].result
  BY <1>0, <1>4 DEF TaskRecords, Pcs
<1>6. task' = [task EXCEPT ![t] = rec]
  BY <1>0, <1>1
<1>7. task[t].result # "refused"
  BY DEF KnownChannel, AdnlInv, RefusedIsIdle, Is
<1>8. UNCHANGED <<sessions, channels, wire>> /\ wire' \subseteq Packets
  BY DEF KnownChannel, AdnlInv, AdnlTypeOK
<1>9. <<rec.packet.header, rec.peer>> \in channels[Home[t]]
  BY <1>2, <1>4, <1>5
<1> HIDE DEF rec
<1> QED BY <1>5, <1>6, <1>7, <1>8, <1>9, QuietStep

-----------------------------------------------------------------------------
LEMMA AdnlStep == AdnlInv /\ [AdnlNext]_adnlVars => AdnlInv'
<1> SUFFICES ASSUME AdnlInv, [AdnlNext]_adnlVars PROVE AdnlInv'
  OBVIOUS
<1>1. ASSUME NEW t \in Tasks, NEW o \in {"connect", "send"}, NEW peer \in Nodes, CallConnect(t, o, peer)
      PROVE  AdnlInv'
  BY <1>1, CallConnectInv
<1>2. ASSUME NEW t \in Tasks, FindSession(t) \/ CreateSession(t) \/ InsertChannel(t) \/ Transmit(t)
      PROVE  AdnlInv'
  BY <1>2, FindSessionInv, CreateSessionInv, InsertChannelInv, TransmitInv
<1>3. ASSUME NEW t \in Tasks, NEW p \in Arriving(Home[t]), Recv(t, p) PROVE AdnlInv'
  BY <1>3, RecvInv
<1>4. ASSUME NEW t \in Tasks, UnknownChannel(t) \/ FetchSession(t) PROVE AdnlInv'
  BY <1>4, ReturnInv DEF UnknownChannel, FetchSession, Results
<1>5. ASSUME NEW t \in Tasks, KnownChannel(t) PROVE AdnlInv'
  BY <1>5, KnownChannelInv
<1>6. CASE UNCHANGED adnlVars
  BY <1>6 DEF adnlVars, AdnlInv, AdnlTypeOK, ChannelsHaveSessions, OneInsertAtATime, FetchedIsKnown,
              RefusedIsIdle, CalleeIsNode, Is, Registered
<1> QED BY <1>1, <1>2, <1>3, <1>4, <1>5, <1>6 DEF AdnlNext

LEMMA AdnlInvImplies == AdnlInv => AdnlTypeOK /\ ChannelsHaveSessions
  BY DEF AdnlInv

(* The invariant holds however the tasks of the nodes interleave.           *)
THEOREM AdnlInductive == AdnlSpec => []AdnlInv
  BY AdnlInitInv, AdnlStep, PTL DEF AdnlSpec

(* recv_datagram never finds a channel whose session is missing.            *)
THEOREM SessionsFirst == AdnlSpec => []ChannelsHaveSessions
  BY AdnlInductive, AdnlInvImplies, PTL

(* An intact packet on the channel of a registered peer is never refused.   *)
LEMMA NoRefusal ==
    ASSUME AdnlInv, [AdnlNext]_adnlVars, NEW t \in Tasks,
           task[t].pc \in {"lookup", "fetch"}, task'[t].result = "refused",
           task[t].packet.intact, task[t].packet.from \in Registered(Home[t]),
           task[t].packet.header = ChannelId(task[t].packet.from, Home[t])
    PROVE  FALSE
<1> DEFINE n == Home[t]
           p == task[t].packet
<1>0. /\ n \in Nodes /\ task[t].result # "refused" /\ task \in [Tasks -> TaskRecords]
  BY HomeAssumption DEF AdnlInv, RefusedIsIdle, Is, AdnlTypeOK, TaskRecords
<1>1. PICK e \in channels[n] : e[2] = p.from
  BY DEF Registered
<1>2. e \in Channels \X Nodes /\ e[1] = ChannelId(n, p.from)
  BY <1>0, <1>1 DEF AdnlInv, AdnlTypeOK, ChannelsHaveSessions
<1>3. p.from \in Nodes
  BY <1>1, <1>2
<1>4. e[1] = p.header
  BY <1>0, <1>2, <1>3, ChannelIsSymmetric
<1>5. p.from \in PeersOf(n, p.header)
  BY <1>1, <1>4 DEF PeersOf
<1>6. ~UnknownChannel(t)
  BY <1>5 DEF UnknownChannel
<1>7. ~FetchSession(t)
  <2> SUFFICES ASSUME FetchSession(t) PROVE FALSE
    OBVIOUS
  <2>1. <<p.header, task[t].peer>> \in channels[n]
    BY DEF FetchSession, AdnlInv, FetchedIsKnown
  <2>2. task[t].peer \in sessions[n] /\ p.header = ChannelId(n, task[t].peer)
    BY <1>0, <2>1 DEF AdnlInv, ChannelsHaveSessions
  <2>3. Return(t, "ok")
    BY <2>2 DEF FetchSession
  <2>4. task'[t].result = "ok"
    BY <1>0, <2>3 DEF Return, Idle
  <2> QED BY <2>4
<1>8. ~KnownChannel(t)
  BY <1>0 DEF KnownChannel, TaskRecords
<1>9. PICK u \in Tasks :
        \/ \E o \in {"connect", "send"}, peer \in Nodes : CallConnect(u, o, peer)
        \/ FindSession(u) \/ CreateSession(u) \/ InsertChannel(u) \/ Transmit(u)
        \/ \E q \in Arriving(Home[u]) : Recv(u, q)
        \/ UnknownChannel(u) \/ KnownChannel(u) \/ FetchSession(u)
  BY <1>0 DEF AdnlNext, adnlVars
<1>10. u # t
  BY <1>6, <1>7, <1>8, <1>9 DEF CallConnect, FindSession, CreateSession, InsertChannel, Transmit, Recv, Is
<1>11. task'[t] = task[t]
  BY <1>0, <1>9, <1>10 DEF CallConnect, FindSession, CreateSession, InsertChannel, Transmit, Recv,
       UnknownChannel, KnownChannel, FetchSession, Connected, Goto, Return
<1> QED BY <1>0, <1>11

(* Both ends derive one channel id: what one seals on it the other opens.   *)
THEOREM PeersUnderstandEachOther == AdnlSpec => PeersAgreeOnChannel
<1>1. AdnlInv /\ [AdnlNext]_adnlVars =>
        [\A t \in Tasks :
          (task[t].pc \in {"lookup", "fetch"} /\ task'[t].result = "refused")
          => LET p == task[t].packet IN
             \/ ~p.intact
             \/ p.from \notin Registered(Home[t])
             \/ p.header # ChannelId(p.from, Home[t])]_adnlVars
  BY NoRefusal
<1> QED BY <1>1, AdnlInductive, PTL DEF AdnlSpec, PeersAgreeOnChannel

-----------------------------------------------------------------------------
(***************************************************************************)
(* The DHT: routing tables, lookups and stored records, whatever a faulty  *)
(* peer answers, forged contacts included.                                 *)
(***************************************************************************)

-----------------------------------------------------------------------------
(* Distances and their order *)

(* Two different strings of bits differ first in one bit. *)
LEMMA FirstDifference ==
    ASSUME NEW a \in [Buckets -> {0, 1}], NEW b \in [Buckets -> {0, 1}], a # b
    PROVE  \E i \in Buckets : a[i] # b[i] /\ \A j \in 0 .. i - 1 : a[j] = b[j]
<1> DEFINE T == {i \in Buckets : a[i] # b[i]}
<1>1. T # {} /\ T \subseteq Nat
  BY DhtAssumption DEF Buckets
<1>2. PICK i \in T : \A j \in T : i <= j
  <2> HIDE DEF T
  <2> QED BY <1>1, LeastNatural
<1>3. ASSUME NEW j \in 0 .. i - 1 PROVE a[j] = b[j]
  <2>1. j \in Buckets /\ j < i
    BY DhtAssumption DEF Buckets
  <2> QED BY <1>2, <2>1 DEF Buckets
<1> QED BY <1>2, <1>3

(* A node's id is one that contacts may claim, and ids are strings of bits. *)
LEMMA ClaimedIds ==
    /\ Ids \subseteq Claimed /\ Claimed \ Forged \subseteq Ids /\ Ids \cap Forged = {}
    /\ Claimed \cup Keys \subseteq [Buckets -> {0, 1}] /\ IsFiniteSet(Claimed)
  BY DhtAssumption DEF Claimed

(* bucket_index of two different nodes is a bucket. *)
LEMMA BucketIndexType ==
    ASSUME NEW a \in Ids, NEW b \in Ids, a # b
    PROVE  bucket_index(a, b) \in Buckets
<1>1. a \in [Buckets -> {0, 1}] /\ b \in [Buckets -> {0, 1}]
  BY ClaimedIds
<1>2. \E i \in Buckets : a[i] # b[i] /\ \A j \in 0 .. i - 1 : a[j] = b[j]
  BY <1>1, FirstDifference
<1> QED BY <1>2 DEF bucket_index

CloserOrder(target) == {p \in Claimed \X Claimed : Closer(p[1], p[2], target)}

(* Nodes are strictly ordered by their distance to a target. *)
LEMMA DistanceOrders ==
    ASSUME NEW S \in SUBSET Claimed, NEW target \in Ids \cup Keys
    PROVE  StrictlyOrders(CloserOrder(target), S)
<1>0. target \in [Buckets -> {0, 1}] /\ Claimed \subseteq [Buckets -> {0, 1}]
  BY ClaimedIds
<1>1. \A x, y \in S : <<x, y>> \in CloserOrder(target) <=> Closer(x, y, target)
  BY DEF CloserOrder
<1>2. \A x \in S : ~Closer(x, x, target)
  BY DEF Closer, Below, xor_distance
<1>3. ASSUME NEW x \in S, NEW y \in S, NEW z \in S, Closer(x, y, target), Closer(y, z, target)
      PROVE  Closer(x, z, target)
  <2> DEFINE dx == xor_distance(x, target)
             dy == xor_distance(y, target)
             dz == xor_distance(z, target)
  <2>1. PICK i \in Buckets : dx[i] < dy[i] /\ \A j \in 0 .. i - 1 : dx[j] = dy[j]
    BY <1>3 DEF Closer, Below
  <2>2. PICK k \in Buckets : dy[k] < dz[k] /\ \A j \in 0 .. k - 1 : dy[j] = dz[j]
    BY <1>3 DEF Closer, Below
  <2>3. \A d \in Buckets : dx[d] \in {0, 1} /\ dy[d] \in {0, 1} /\ dz[d] \in {0, 1}
    BY DEF xor_distance
  <2> DEFINE l == IF i < k THEN i ELSE k
  <2>4. l \in Buckets /\ l \in Int /\ i \in Int /\ k \in Int /\ l <= i /\ l <= k
    BY DhtAssumption DEF Buckets
  <2>5. \A j \in 0 .. l - 1 : dx[j] = dz[j]
    <3> HIDE DEF dx, dy, dz
    <3> QED BY <2>1, <2>2, <2>4
  <2>6. dx[l] < dz[l]
    <3> HIDE DEF dx, dy, dz
    <3>1. CASE i < k
      <4>1. l = i /\ i \in 0 .. k - 1
        BY <3>1, <2>4, DhtAssumption DEF Buckets
      <4> QED BY <4>1, <2>1, <2>2
    <3>2. CASE i = k
      BY <3>2, <2>1, <2>2, <2>3, <2>4
    <3>3. CASE k < i
      <4>1. l = k /\ k \in 0 .. i - 1
        BY <3>3, <2>4, DhtAssumption DEF Buckets
      <4> QED BY <4>1, <2>1, <2>2
    <3> QED BY <3>1, <3>2, <3>3, <2>4
  <2> QED
    <3> HIDE DEF l
    <3> QED BY <2>4, <2>5, <2>6 DEF Closer, Below
<1>4. ASSUME NEW x \in S, NEW y \in S, x # y
      PROVE  Closer(x, y, target) \/ Closer(y, x, target)
  <2>1. PICK i \in Buckets : x[i] # y[i] /\ \A j \in 0 .. i - 1 : x[j] = y[j]
    BY <1>0, <1>4, FirstDifference
  <2>2. \A j \in 0 .. i - 1 : j \in Buckets
    BY DhtAssumption DEF Buckets
  <2>3. \A j \in 0 .. i - 1 : xor_distance(x, target)[j] = xor_distance(y, target)[j]
    BY <2>1, <2>2 DEF xor_distance
  <2>4. x[i] \in {0, 1} /\ y[i] \in {0, 1} /\ target[i] \in {0, 1}
    BY <1>0
  <2>5. xor_distance(x, target)[i] < xor_distance(y, target)[i]
        \/ xor_distance(y, target)[i] < xor_distance(x, target)[i]
    BY <2>1, <2>4 DEF xor_distance
  <2> QED BY <2>3, <2>5 DEF Closer, Below
<1> QED BY <1>1, <1>2, <1>3, <1>4 DEF StrictlyOrders

(* Every set of nodes can be sorted by distance: Sorted lists members of it,
   and First, of a nonempty one, is one of them. *)
LEMMA SortedMembers ==
    ASSUME NEW S \in SUBSET Claimed, NEW target \in Ids \cup Keys
    PROVE  /\ Cardinality(S) \in Nat
           /\ Sorted(S, target) \in [1 .. Cardinality(S) -> S]
           /\ S # {} => First(S, target) \in S
<1> DEFINE R == CloserOrder(target)
<1>1. IsFiniteSet(S) /\ Cardinality(S) \in Nat
  BY ClaimedIds, FS_Subset, FS_CardinalityType
<1>2. \A x \in S : CloserThan(x, S, target) = Before(x, S, R)
  BY DEF CloserThan, Before, CloserOrder
<1>3. StrictlyOrders(R, S)
  BY DistanceOrders
<1>4. \A k \in 0 .. Cardinality(S) - 1 : \E x \in S : Cardinality(CloserThan(x, S, target)) = k
  <2>1. \A k \in 0 .. Cardinality(S) - 1 : \E x \in S : Cardinality(Before(x, S, R)) = k
    <3> HIDE DEF R
    <3> QED BY <1>1, <1>3, EveryPlaceTaken
  <2> QED BY <1>2, <2>1
<1>5. Sorted(S, target) \in [1 .. Cardinality(S) -> S]
  <2>1. ASSUME NEW i \in 1 .. Cardinality(S)
        PROVE  (CHOOSE x \in S : Cardinality(CloserThan(x, S, target)) = i - 1) \in S
    <3>1. i - 1 \in 0 .. Cardinality(S) - 1
      BY <1>1
    <3> QED BY <1>4, <3>1
  <2> QED BY <2>1 DEF Sorted
<1>6. ASSUME S # {} PROVE First(S, target) \in S
  <2>1. Cardinality(S) # 0
    BY <1>1, <1>6, FS_EmptySet
  <2>2. PICK x \in S : Cardinality(CloserThan(x, S, target)) = 0
    BY <1>1, <1>4, <2>1
  <2>3. CloserThan(x, S, target) \in SUBSET S
    BY DEF CloserThan
  <2>4. CloserThan(x, S, target) = {}
    BY <1>1, <2>2, <2>3, FS_Subset, FS_EmptySet
  <2> QED BY <2>4 DEF First
<1> QED BY <1>1, <1>5, <1>6

-----------------------------------------------------------------------------
(* Routing tables *)

Distinct(b) == \A j, k \in DOMAIN b : j # k => b[j] # b[k]

SoundBucket(n, i, b) ==
    /\ b \in Seq(Ids) /\ Len(b) <= K
    /\ \A j \in DOMAIN b : b[j] # n /\ bucket_index(n, b[j]) = i
    /\ Distinct(b)

SoundTables(n) == {t \in [Buckets -> Seq(Ids)] : \A i \in Buckets : SoundBucket(n, i, t[i])}

(* Removing a contact from a bucket leaves the others, in order, each once. *)
LEMMA WithoutContact ==
    ASSUME NEW b \in Seq(Ids), Distinct(b), NEW c
    PROVE  /\ Without(b, c) \in Seq(Ids)
           /\ Len(Without(b, c)) <= Len(b)
           /\ \A j \in DOMAIN Without(b, c) :
                 /\ Without(b, c)[j] # c
                 /\ \E k \in DOMAIN b : Without(b, c)[j] = b[k]
           /\ Distinct(Without(b, c))
<1>1. CASE ~\E p \in DOMAIN b : b[p] = c
  <2>1. Without(b, c) = b
    BY <1>1, Zenon DEF Without
  <2>2. Len(b) <= Len(b)
    OBVIOUS
  <2> QED BY <1>1, <2>1, <2>2, Zenon
<1>2. CASE \E p \in DOMAIN b : b[p] = c
  <2> DEFINE q == CHOOSE p \in DOMAIN b : b[p] = c
             w == RemoveAt(b, q)
  <2>1. q \in DOMAIN b /\ b[q] = c
    BY <1>2
  <2>2. Without(b, c) = w
    BY <1>2 DEF Without
  <2> HIDE DEF q
  <2>3. q \in 1 .. Len(b) /\ Len(b) \in Nat
    BY <2>1
  <2>4. /\ SubSeq(b, 1, q - 1) \in Seq(Ids) /\ Len(SubSeq(b, 1, q - 1)) = q - 1
        /\ \A j \in 1 .. q - 1 : SubSeq(b, 1, q - 1)[j] = b[j]
    BY <2>3
  <2>5. /\ SubSeq(b, q + 1, Len(b)) \in Seq(Ids) /\ Len(SubSeq(b, q + 1, Len(b))) = Len(b) - q
        /\ \A j \in 1 .. Len(b) - q : SubSeq(b, q + 1, Len(b))[j] = b[q + j]
    BY <2>3
  <2>6. /\ w \in Seq(Ids) /\ Len(w) = Len(b) - 1
        /\ \A j \in 1 .. Len(b) - 1 : w[j] = IF j < q THEN b[j] ELSE b[j + 1]
    <3> DEFINE u == SubSeq(b, 1, q - 1)
               v == SubSeq(b, q + 1, Len(b))
    <3>1. w = u \o v
      BY DEF RemoveAt
    <3>2. u \in Seq(Ids) /\ v \in Seq(Ids) /\ Len(u) = q - 1 /\ Len(v) = Len(b) - q
      BY <2>4, <2>5
    <3>3. \A j \in 1 .. q - 1 : u[j] = b[j]
      BY <2>4
    <3>4. \A j \in 1 .. Len(b) - q : v[j] = b[q + j]
      BY <2>5
    <3> HIDE DEF u, v, w
    <3>5. w \in Seq(Ids) /\ Len(w) = Len(b) - 1
      BY <2>3, <3>1, <3>2
    <3>6. \A j \in 1 .. Len(b) - 1 : w[j] = IF j < q THEN u[j] ELSE v[j - (q - 1)]
      BY <2>3, <3>1, <3>2
    <3>7. \A j \in 1 .. Len(b) - 1 : ~(j < q) => v[j - (q - 1)] = b[j + 1]
      <4> SUFFICES ASSUME NEW j \in 1 .. Len(b) - 1, ~(j < q) PROVE v[j - (q - 1)] = b[j + 1]
        OBVIOUS
      <4>1. j - (q - 1) \in 1 .. Len(b) - q /\ q + (j - (q - 1)) = j + 1
        BY <2>3
      <4> QED BY <3>4, <4>1
    <3>8. ASSUME NEW j \in 1 .. Len(b) - 1 PROVE w[j] = IF j < q THEN b[j] ELSE b[j + 1]
      <4>1. CASE j < q
        <5>1. j \in 1 .. q - 1
          BY <2>3, <4>1
        <5> QED BY <3>3, <3>6, <4>1, <5>1
      <4>2. CASE ~(j < q)
        BY <3>6, <3>7, <4>2
      <4> QED BY <4>1, <4>2
    <3> QED BY <3>5, <3>8
  <2> HIDE DEF w
  <2>7. \A j \in DOMAIN w : j \in 1 .. Len(b) - 1
    BY <2>6
  <2>8. \A j \in DOMAIN w : \E k \in DOMAIN b : k # q /\ w[j] = b[k]
    <3> SUFFICES ASSUME NEW j \in DOMAIN w
                 PROVE  \E k \in DOMAIN b : k # q /\ w[j] = b[k]
      OBVIOUS
    <3>1. CASE j < q
      BY <3>1, <2>3, <2>6, <2>7
    <3>2. CASE ~(j < q)
      <4>1. j \in 1 .. Len(b) - 1
        BY <2>7
      <4>2. w[j] = b[j + 1]
        BY <2>6, <3>2, <4>1
      <4>3. j + 1 \in DOMAIN b /\ j + 1 # q
        BY <2>3, <3>2, <4>1
      <4> QED BY <4>2, <4>3
    <3> QED BY <3>1, <3>2
  <2>9. \A j \in DOMAIN w : w[j] # c
    BY <2>1, <2>8 DEF Distinct
  <2>10. Distinct(w)
    <3> SUFFICES ASSUME NEW j \in DOMAIN w, NEW k \in DOMAIN w, j # k
                 PROVE  w[j] # w[k]
      BY DEF Distinct
    <3> DEFINE at(x) == IF x < q THEN x ELSE x + 1
    <3>1. at(j) \in DOMAIN b /\ at(k) \in DOMAIN b /\ at(j) # at(k)
      BY <2>3, <2>7
    <3>2. w[j] = b[at(j)] /\ w[k] = b[at(k)]
      BY <2>6, <2>7
    <3> HIDE DEF at
    <3> QED BY <3>1, <3>2 DEF Distinct
  <2>11. Len(w) <= Len(b)
    BY <2>3, <2>6
  <2> QED BY <2>2, <2>6, <2>8, <2>9, <2>10, <2>11
<1> QED BY <1>1, <1>2

(* add_contact keeps a routing table sound. *)
LEMMA AddContactSound ==
    ASSUME NEW n \in Ids, NEW c \in Claimed, NEW table \in SoundTables(n)
    PROVE  AddContact(table, n, c) \in SoundTables(n)
<1>1. CASE c = n \/ c \in Forged
  BY <1>1 DEF AddContact
<1>2. CASE ~(c = n \/ c \in Forged)
  <2>0. c \in Ids /\ c # n
    BY <1>2, ClaimedIds
  <2> DEFINE i == bucket_index(n, c)
             b == table[i]
             w == Without(b, c)
             longer == Append(w, c)
             new == IF Len(longer) > K THEN Tail(longer) ELSE longer
  <2>1. i \in Buckets
    BY <2>0, BucketIndexType
  <2>2. AddContact(table, n, c) = [table EXCEPT ![i] = new]
    BY <1>2, Zenon DEF AddContact
  <2> HIDE DEF i
  <2>3. SoundBucket(n, i, b)
    BY <2>1 DEF SoundTables
  <2>4. b \in Seq(Ids) /\ Len(b) <= K /\ Distinct(b)
    BY <2>3 DEF SoundBucket
  <2>5. /\ w \in Seq(Ids) /\ Len(w) <= Len(b)
        /\ \A j \in DOMAIN w : w[j] # c /\ \E k \in DOMAIN b : w[j] = b[k]
        /\ Distinct(w)
    <3> HIDE DEF b
    <3> QED BY <2>4, WithoutContact
  <2>6. \A j \in DOMAIN w : w[j] # n /\ bucket_index(n, w[j]) = i
    <3> HIDE DEF w, b
    <3> QED BY <2>3, <2>5 DEF SoundBucket
  <2> HIDE DEF w, b
  <2>7. /\ longer \in Seq(Ids) /\ Len(longer) = Len(w) + 1 /\ Len(longer) <= K + 1
        /\ \A j \in 1 .. Len(w) : longer[j] = w[j]
        /\ longer[Len(w) + 1] = c
    BY <2>0, <2>4, <2>5, DhtAssumption
  <2>8. \A j \in DOMAIN longer : longer[j] # n /\ bucket_index(n, longer[j]) = i
    <3> SUFFICES ASSUME NEW j \in DOMAIN longer
                 PROVE  longer[j] # n /\ bucket_index(n, longer[j]) = i
      OBVIOUS
    <3>1. j \in 1 .. Len(w) \/ j = Len(w) + 1
      BY <2>5, <2>7
    <3>2. j \in 1 .. Len(w) => j \in DOMAIN w
      BY <2>5
    <3>3. bucket_index(n, c) = i
      BY DEF i
    <3> HIDE DEF longer
    <3> QED BY <2>0, <2>6, <2>7, <3>1, <3>2, <3>3
  <2>9. Distinct(longer)
    <3> SUFFICES ASSUME NEW j \in DOMAIN longer, NEW k \in DOMAIN longer, j # k
                 PROVE  longer[j] # longer[k]
      BY DEF Distinct
    <3>1. /\ j \in 1 .. Len(w) \/ j = Len(w) + 1
          /\ k \in 1 .. Len(w) \/ k = Len(w) + 1
      BY <2>5, <2>7
    <3>2. DOMAIN w = 1 .. Len(w)
      BY <2>5
    <3> HIDE DEF longer
    <3> QED BY <2>5, <2>7, <3>1, <3>2 DEF Distinct
  <2> HIDE DEF longer
  <2>10. SoundBucket(n, i, new)
    <3>1. CASE Len(longer) > K
      <4>0. Len(longer) \in Nat /\ K \in Nat \ {0} /\ longer # << >>
        BY <2>7, <3>1, DhtAssumption
      <4>1. /\ Tail(longer) \in Seq(Ids) /\ Len(Tail(longer)) = Len(longer) - 1
            /\ \A j \in 1 .. Len(longer) - 1 : Tail(longer)[j] = longer[j + 1]
        BY <2>7, <4>0
      <4>2. \A j \in DOMAIN Tail(longer) : /\ j \in 1 .. Len(longer) - 1
                                           /\ j + 1 \in DOMAIN longer
        BY <2>7, <4>0, <4>1
      <4>3. \A j \in DOMAIN Tail(longer) :
               Tail(longer)[j] # n /\ bucket_index(n, Tail(longer)[j]) = i
        BY <2>8, <4>1, <4>2
      <4>4. Distinct(Tail(longer))
        BY <2>9, <4>1, <4>2 DEF Distinct
      <4>5. Len(Tail(longer)) <= K
        BY <2>7, <4>0, <4>1
      <4>6. new = Tail(longer)
        BY <3>1
      <4> HIDE DEF new
      <4> QED BY <4>1, <4>3, <4>4, <4>5, <4>6 DEF SoundBucket
    <3>2. CASE ~(Len(longer) > K)
      <4>1. Len(longer) <= K
        BY <3>2, <2>7, DhtAssumption
      <4> QED BY <3>2, <4>1, <2>7, <2>8, <2>9 DEF SoundBucket
    <3> QED BY <3>1, <3>2
  <2> HIDE DEF new
  <2>11. new \in Seq(Ids)
    BY <2>10 DEF SoundBucket
  <2> QED BY <2>1, <2>2, <2>10, <2>11 DEF SoundTables
<1> QED BY <1>1, <1>2

(* ... so does adding a list of contacts, one after the other. *)
LEMMA AddContactsSound ==
    ASSUME NEW n \in Ids, NEW table \in SoundTables(n), NEW contacts,
           NEW len \in Nat, len = Len(contacts), \A j \in 1 .. len : contacts[j] \in Claimed
    PROVE  AddContacts(table, n, contacts) \in SoundTables(n)
<1> DEFINE S == SoundTables(n)
           step == [j \in 1 .. len |-> [t \in S |-> AddContact(t, n, contacts[j])]]
           Defines(f) == f = [j \in 0 .. len |->
               IF j = 0 THEN table ELSE AddContact(f[j - 1], n, contacts[j])]
           after == CHOOSE f : Defines(f)
<1>1. step \in [1 .. len -> [S -> S]]
  BY AddContactSound
<1>2. PICK g : RecursiveIn(g, len, S, table, step)
  <2> HIDE DEF step, S
  <2>1. table \in S
    BY DEF S
  <2> QED BY <1>1, <2>1, RecursionExists
<1>3. g \in [0 .. len -> S] /\ g[0] = table /\ \A j \in 1 .. len : g[j] = step[j][g[j - 1]]
  <2> HIDE DEF step, S
  <2> QED BY <1>2 DEF RecursiveIn
<1>4. \A j \in 1 .. len : g[j] = AddContact(g[j - 1], n, contacts[j])
  <2> HIDE DEF S
  <2>1. \A j \in 1 .. len : g[j - 1] \in S
    BY <1>3
  <2> QED BY <1>3, <2>1
<1>5. Defines(g)
  <2> HIDE DEF step, S
  <2>1. \A j \in 0 .. len : g[j] = IF j = 0 THEN table ELSE AddContact(g[j - 1], n, contacts[j])
    BY <1>3, <1>4
  <2> QED BY <1>3, <2>1
<1>6. Defines(after)
  <2> HIDE DEF Defines
  <2> QED BY <1>5
<1>7. AddContacts(table, n, contacts) = after[len]
  BY DEF AddContacts
<1> DEFINE G == {j \in 0 .. len : after[j] \in S}
<1>8. \A j \in 0 .. len : j \in G
  <2> HIDE DEF after
  <2>1. 0 \in G
    BY <1>6
  <2>2. ASSUME NEW j \in 1 .. len, j - 1 \in G PROVE j \in G
    <3>1. after[j] = AddContact(after[j - 1], n, contacts[j])
      BY <1>6
    <3>2. after[j - 1] \in SoundTables(n)
      BY <2>2
    <3> QED BY <3>1, <3>2, AddContactSound
  <2> HIDE DEF G
  <2> QED BY <2>1, <2>2, IntervalInduction
<1>9. len \in G
  <2> HIDE DEF G
  <2> QED BY <1>8
<1> QED BY <1>7, <1>9

-----------------------------------------------------------------------------
(* The invariant: what each node and each client keeps. *)

\* A node only stores genuine records, each under its own key.
SoundRecords == {r \in [Keys -> Records \cup {NoRecord}] :
    \A k \in Keys : r[k] # NoRecord => r[k].genuine /\ r[k].key = k}

SoundAnswers ==
    {a \in [record : Records \cup {NoRecord}, key : Keys \cup {NoKey}, at : 0 .. MaxClock] :
        a.record # NoRecord => /\ a.record.expiry > a.at
                               /\ a.record.genuine
                               /\ a.record.key = a.key}

\* An operation under way has a target, only find_value fetches, and a lookup
\* that waits for no answer has a peer to ask.
SoundOperations == {o \in Operations :
    /\ o.kind # "idle" => o.target \in Ids \cup Keys
    /\ o.kind = "find_value" => o.target \in Keys
    /\ o.phase # "none" => o.kind # "idle"
    /\ o.phase = "fetch" => o.kind = "find_value"
    /\ o.phase = "lookup" /\ o.reply = NoReply => o.round # {}}

DhtInv ==
    /\ clock \in 0 .. MaxClock /\ opsLeft \in 0 .. MaxOps
    /\ buckets \in [Ids -> [Buckets -> Seq(Ids)]]
    /\ \A n \in Ids : buckets[n] \in SoundTables(n)
    /\ records \in [Ids -> SoundRecords]
    /\ op \in [Clients -> SoundOperations]
    /\ answer \in [Clients -> SoundAnswers]

-----------------------------------------------------------------------------
(* The parts of an operation *)

LEMMA ClientsAreNodes == Clients \subseteq Ids
  BY DhtAssumption

LEMMA ClosestSubset ==
    ASSUME NEW S, NEW target, NEW n
    PROVE  Closest(S, target, n) \subseteq S
  BY DEF Closest

LEMMA ContactsAreNodes ==
    ASSUME NEW n \in Ids, NEW table \in SoundTables(n), NEW target
    PROVE  ClosestContacts(table, target) \subseteq Ids
<1>1. \A i \in Buckets : table[i] \in Seq(Ids)
  BY DEF SoundTables
<1>2. \A i \in Buckets : Range(table[i]) \subseteq Ids
  BY <1>1 DEF Range
<1>3. Contacts(table) \subseteq Ids
  BY <1>2 DEF Contacts
<1> QED BY <1>3, ClosestSubset DEF ClosestContacts

LEMMA IdleSound == IdleOp \in SoundOperations
  BY DEF IdleOp, SoundOperations, Operations, Replies, NoReply

LEMMA BestType ==
    ASSUME NEW S, NEW target
    PROVE  Best(S, target) \in [Buckets -> {0, 1}] \cup {NoKey}
  BY DEF Best, xor_distance

\* A lookup, whether or not it has a peer to ask.
Lookups == {o \in Operations :
    /\ o.phase = "lookup" /\ o.kind \in {"find_node", "find_value", "store"}
    /\ o.target \in Ids \cup Keys /\ (o.kind = "find_value" => o.target \in Keys)}

LEMMA SoundLookup ==
    ASSUME NEW o \in SoundOperations, o.phase = "lookup"
    PROVE  o \in Lookups
  BY DEF SoundOperations, Operations, Lookups

(* What find_node, find_value or store does once the lookup is over. *)
LEMMA AfterLookupSound ==
    ASSUME NEW o \in Lookups
    PROVE  AfterLookup(o) \in SoundOperations
<1>1. /\ o \in Operations /\ o.kind \in {"find_node", "find_value", "store"}
      /\ o.target \in Ids \cup Keys /\ (o.kind = "find_value" => o.target \in Keys)
  BY DEF Lookups
<1>2. CASE o.kind = "find_node"
  BY <1>2, IdleSound DEF AfterLookup
<1>3. CASE o.kind = "find_value"
  <2> DEFINE p == [o EXCEPT !.phase = "fetch", !.round = o.known]
  <2>1. AfterLookup(o) = p
    BY <1>3 DEF AfterLookup
  <2>2. p \in Operations
    BY <1>1 DEF Operations
  <2>3. p.kind = "find_value" /\ p.target \in Keys /\ p.phase = "fetch"
    BY <1>1, <1>3 DEF Operations
  <2> HIDE DEF p
  <2> QED BY <2>1, <2>2, <2>3 DEF SoundOperations
<1>4. CASE o.kind = "store"
  <2> DEFINE r == Closest(o.known, o.target, Alpha)
             p == [o EXCEPT !.phase = "replicate", !.round = r]
  <2>1. AfterLookup(o) = p
    BY <1>4 DEF AfterLookup
  <2>2. r \in SUBSET Claimed
    BY <1>1, ClosestSubset DEF Operations
  <2> HIDE DEF r
  <2>3. p \in Operations
    BY <1>1, <2>2 DEF Operations
  <2>4. p.kind = "store" /\ p.target \in Ids \cup Keys /\ p.phase = "replicate"
    BY <1>1, <1>4 DEF Operations
  <2> HIDE DEF p
  <2> QED BY <2>1, <2>3, <2>4 DEF SoundOperations
<1> QED BY <1>1, <1>2, <1>3, <1>4

(* A lookup that enters a round has a peer to ask in it, or is over. *)
LEMMA EnterRoundSound ==
    ASSUME NEW o \in Lookups
    PROVE  EnterRound(o) \in SoundOperations
<1> DEFINE p == [o EXCEPT !.round = Round(o), !.best = Best(o.known, o.target)]
<1>0. o \in Operations
  BY DEF Lookups
<1>1. Round(o) \in SUBSET Claimed
  <2>1. o.known \ o.queried \subseteq Claimed
    BY <1>0 DEF Operations
  <2> QED BY <2>1, ClosestSubset DEF Round
<1>2. CASE Round(o) # {}
  <2>1. EnterRound(o) = p
    BY <1>2 DEF EnterRound
  <2>2. Best(o.known, o.target) \in [Buckets -> {0, 1}] \cup {NoKey}
    BY BestType
  <2>3. p \in Operations
    BY <1>0, <1>1, <2>2 DEF Operations
  <2>4. p.kind = o.kind /\ p.target = o.target /\ p.phase = "lookup" /\ p.round # {}
    BY <1>0, <1>2 DEF Operations, Lookups
  <2> HIDE DEF p
  <2> QED BY <2>1, <2>3, <2>4 DEF SoundOperations, Lookups
<1>3. CASE Round(o) = {}
  BY <1>3, AfterLookupSound DEF EnterRound
<1> QED BY <1>2, <1>3

(* The end of a round, with what was learned in it. *)
LEMMA EndRoundSound ==
    ASSUME NEW o \in Lookups
    PROVE  EndRound(o) \in SoundOperations
<1> DEFINE known == Closest(o.known, o.target, K)
           rest  == [o EXCEPT !.known = known]
<1>1. rest \in Lookups
  <2>1. o \in Operations
    BY DEF Lookups
  <2>2. known \in SUBSET Claimed
    BY <2>1, ClosestSubset DEF Operations
  <2> HIDE DEF known
  <2>3. rest \in Operations
    BY <2>1, <2>2 DEF Operations
  <2>4. rest.phase = o.phase /\ rest.kind = o.kind /\ rest.target = o.target
    BY <2>1 DEF Operations
  <2> HIDE DEF rest
  <2> QED BY <2>3, <2>4 DEF Lookups
<1>2. CASE o.round # {}
  <2>1. EndRound(o) = o
    BY <1>2, Zenon DEF EndRound
  <2> QED BY <1>2, <2>1 DEF Lookups, SoundOperations
<1>3. CASE o.round = {}
  <2>1. EndRound(o) \in {AfterLookup(rest), EnterRound(rest)}
    <3> HIDE DEF rest
    <3>1. EndRound(o) = AfterLookup(rest) \/ EndRound(o) = EnterRound(rest)
      BY <1>3, Zenon DEF EndRound, rest
    <3> QED BY <3>1
  <2> HIDE DEF rest
  <2> QED BY <1>1, <2>1, AfterLookupSound, EnterRoundSound
<1> QED BY <1>2, <1>3

(* Starting a lookup. *)
LEMMA StartLookupSound ==
    ASSUME DhtInv, NEW n \in Clients, NEW b \in Operations,
           b.kind \in {"find_node", "find_value", "store"}, b.target \in Ids \cup Keys,
           b.kind = "find_value" => b.target \in Keys,
           StartLookup(n, b)
    PROVE  op' \in [Clients -> SoundOperations]
<1> DEFINE known == ClosestContacts(buckets[n], b.target)
           o == [b EXCEPT !.phase = "lookup", !.known = known]
<1>1. known \in SUBSET Claimed
  BY ContactsAreNodes, ClientsAreNodes, ClaimedIds DEF DhtInv
<1>2. op' = [op EXCEPT ![n] = EnterRound(o)]
  BY Zenon DEF StartLookup
<1> HIDE DEF known
<1>3. o \in Operations
  BY <1>1 DEF Operations
<1>4. o.kind = b.kind /\ o.target = b.target /\ o.phase = "lookup"
  BY DEF Operations
<1> HIDE DEF o
<1>5. o \in Lookups
  BY <1>3, <1>4 DEF Lookups
<1>6. EnterRound(o) \in SoundOperations
  BY <1>5, EnterRoundSound
<1> QED BY <1>2, <1>6 DEF DhtInv

(* What a handler leaves behind and answers. *)
SoundHandling(peer, h) ==
    /\ h.table \in SoundTables(peer)
    /\ h.records \in SoundRecords
    /\ h.reply \in Replies \ {NoReply}

LEMMA RepliesTypes ==
    /\ Failed \in Replies \ {NoReply} /\ Stored \in Replies \ {NoReply}
    /\ \A S \in SUBSET Claimed : NodesReply(S) \in Replies \ {NoReply}
    /\ \A r \in Records : ValueReply(r) \in Replies \ {NoReply}
  BY DEF Replies, NoReply, Failed, Stored, NodesReply, ValueReply

LEMMA NodeAtSound ==
    ASSUME DhtInv, NEW n \in Clients, NEW peer \in Ids
    PROVE  SoundHandling(peer, FindNodeAt(peer, n))
<1> DEFINE table == AddContact(buckets[peer], peer, n)
<1>1. table \in SoundTables(peer)
  BY AddContactSound, ClientsAreNodes, ClaimedIds DEF DhtInv
<1>2. records[peer] \in SoundRecords
  BY DEF DhtInv
<1> HIDE DEF table
<1>3. NodesReply(ClosestContacts(table, op[n].target)) \in Replies \ {NoReply}
  BY <1>1, ContactsAreNodes, ClaimedIds, RepliesTypes
<1>4. FindNodeAt(peer, n) = [table |-> table, records |-> records[peer],
                             reply |-> NodesReply(ClosestContacts(table, op[n].target))]
  BY Zenon DEF FindNodeAt, table
<1> QED BY <1>1, <1>2, <1>3, <1>4 DEF SoundHandling

LEMMA LiveSound ==
    ASSUME DhtInv, NEW r \in SoundRecords
    PROVE  /\ Live(r) \in SoundRecords
           /\ \A k \in Keys : Live(r)[k] # NoRecord => Live(r)[k].expiry > clock
<1>1. r \in [Keys -> Records \cup {NoRecord}]
      /\ \A k \in Keys : r[k] # NoRecord => r[k].genuine /\ r[k].key = k
  BY DEF SoundRecords
<1>2. Live(r) \in [Keys -> Records \cup {NoRecord}]
  BY <1>1 DEF Live
<1>3. \A k \in Keys : Live(r)[k] # NoRecord => Live(r)[k] = r[k] /\ r[k].expiry > clock
  BY DEF Live
<1> HIDE DEF NoRecord
<1>4. \A k \in Keys : Live(r)[k] # NoRecord => Live(r)[k].genuine /\ Live(r)[k].key = k
  BY <1>1, <1>3
<1> QED BY <1>2, <1>3, <1>4 DEF SoundRecords

LEMMA ValueAtSound ==
    ASSUME DhtInv, NEW n \in Clients, NEW peer \in Ids, op[n].target \in Keys
    PROVE  SoundHandling(peer, FindValueAt(peer, n))
<1> DEFINE table == AddContact(buckets[peer], peer, n)
           live  == Live(records[peer])
           key   == op[n].target
           reply == IF live[key] # NoRecord THEN ValueReply(live[key])
                    ELSE NodesReply(ClosestContacts(table, key))
<1>1. table \in SoundTables(peer)
  BY AddContactSound, ClientsAreNodes, ClaimedIds DEF DhtInv
<1>2. live \in SoundRecords
  <2>1. records[peer] \in SoundRecords
    BY DEF DhtInv
  <2> QED BY <2>1, LiveSound
<1>3. FindValueAt(peer, n) = [table |-> table, records |-> live, reply |-> reply]
  BY Zenon DEF FindValueAt
<1> HIDE DEF table, live
<1>4. reply \in Replies \ {NoReply}
  <2>1. live[key] \in Records \cup {NoRecord}
    BY <1>2 DEF SoundRecords
  <2>2. ClosestContacts(table, key) \in SUBSET Claimed
    BY <1>1, ContactsAreNodes, ClaimedIds
  <2> QED BY <2>1, <2>2, RepliesTypes
<1> HIDE DEF reply
<1> QED BY <1>1, <1>2, <1>3, <1>4 DEF SoundHandling

LEMMA StoreAtSound ==
    ASSUME DhtInv, NEW n \in Clients, NEW peer \in Ids
    PROVE  SoundHandling(peer, StoreAt(peer, n))
<1> DEFINE table == AddContact(buckets[peer], peer, n)
           r     == op[n].record
           ok    == ValidateRecord(r, r.key)
           recs  == IF ok THEN [records[peer] EXCEPT ![r.key] = r] ELSE records[peer]
           reply == IF ok THEN Stored ELSE Failed
<1>1. table \in SoundTables(peer)
  BY AddContactSound, ClientsAreNodes, ClaimedIds DEF DhtInv
<1>2. StoreAt(peer, n) = [table |-> table, records |-> recs, reply |-> reply]
  BY Zenon DEF StoreAt
<1>3. recs \in SoundRecords
  <2>1. records[peer] \in SoundRecords /\ r \in Records \cup {NoRecord}
    BY DEF DhtInv, SoundOperations, Operations
  <2> HIDE DEF r
  <2> QED BY <2>1 DEF SoundRecords, ValidateRecord
<1>4. reply \in Replies \ {NoReply}
  BY RepliesTypes
<1> HIDE DEF table, recs, reply
<1> QED BY <1>1, <1>2, <1>3, <1>4 DEF SoundHandling

-----------------------------------------------------------------------------
(* The steps *)

(* The same of a peer that may be a claimed identifier nobody answers for. *)
Handled(peer, h) == peer \in Ids => SoundHandling(peer, h)

(* A call, whatever comes of it, leaves the peer's table and records sound and
   the client with an answer. *)
LEMMA CallStep ==
    ASSUME DhtInv, NEW n \in Clients, NEW peer \in Claimed, NEW handled,
           Handled(peer, handled), NEW next, Call(n, peer, handled, next)
    PROVE  /\ \A m \in Ids : buckets'[m] \in SoundTables(m)
           /\ buckets' \in [Ids -> [Buckets -> Seq(Ids)]]
           /\ records' \in [Ids -> SoundRecords]
           /\ \E reply \in Replies \ {NoReply} : op' = [op EXCEPT ![n] = [next EXCEPT !.reply = reply]]
<1>1. CASE op' = [op EXCEPT ![n] = [next EXCEPT !.reply = Failed]] /\ UNCHANGED <<buckets, records>>
  BY <1>1, RepliesTypes DEF DhtInv
<1>2. CASE /\ peer \notin Faulty \cup Forged
           /\ buckets' = [buckets EXCEPT ![peer] = handled.table]
           /\ records' = [records EXCEPT ![peer] = handled.records]
           /\ \E reply \in {handled.reply, Failed} : op' = [op EXCEPT ![n] = [next EXCEPT !.reply = reply]]
  <2>0. SoundHandling(peer, handled)
    BY <1>2, ClaimedIds DEF Handled
  <2>1. \A m \in Ids : buckets'[m] \in SoundTables(m)
    BY <1>2, <2>0 DEF DhtInv, SoundHandling
  <2>2. buckets' \in [Ids -> [Buckets -> Seq(Ids)]]
    BY <1>2, <2>0 DEF DhtInv, SoundHandling, SoundTables
  <2>3. records' \in [Ids -> SoundRecords]
    BY <1>2, <2>0 DEF DhtInv, SoundHandling
  <2>4. \E reply \in Replies \ {NoReply} : op' = [op EXCEPT ![n] = [next EXCEPT !.reply = reply]]
    BY <1>2, <2>0, RepliesTypes, Zenon DEF SoundHandling
  <2> QED BY <2>1, <2>2, <2>3, <2>4
<1>3. CASE /\ \E reply \in FaultyReplies(n) : op' = [op EXCEPT ![n] = [next EXCEPT !.reply = reply]]
           /\ UNCHANGED <<buckets, records>>
  <2>1. FaultyReplies(n) \subseteq Replies \ {NoReply}
    BY RepliesTypes DEF FaultyReplies
  <2> QED BY <1>3, <2>1 DEF DhtInv
<1> QED BY <1>1, <1>2, <1>3 DEF Call

(* A client asks the next peer of a round; each round starts with one. *)
LEMMA AskNodeStep ==
    ASSUME DhtInv, NEW n \in Clients, AskNode(n)
    PROVE  DhtInv'
<1> DEFINE o == op[n]
           peer == First(o.round, o.target)
           next == [o EXCEPT !.round = @ \ {peer}, !.queried = @ \cup {peer}]
<1>1. /\ o \in SoundOperations /\ o \in Operations /\ o.phase = "lookup" /\ o.reply = NoReply
      /\ Call(n, peer, FindNodeAt(peer, n), next)
      /\ clock' = clock /\ answer' = answer /\ opsLeft' = opsLeft
  BY DEF AskNode, DhtInv, SoundOperations
<1>2. /\ o.round \in SUBSET Claimed /\ o.round # {} /\ o.target \in Ids \cup Keys /\ o.kind # "idle"
      /\ o.kind = "find_value" => o.target \in Keys
  BY <1>1 DEF SoundOperations, Operations
<1>3. peer \in Claimed
  BY <1>2, SortedMembers
<1> HIDE DEF peer
<1>4. next \in Operations
  BY <1>1, <1>3 DEF Operations
<1>5. next.phase = "lookup" /\ next.kind = o.kind /\ next.target = o.target
  BY <1>1 DEF Operations
<1>6. Handled(peer, FindNodeAt(peer, n))
  BY <1>3, NodeAtSound DEF Handled
<1> HIDE DEF o, next
<1>7. /\ \A m \in Ids : buckets'[m] \in SoundTables(m)
      /\ buckets' \in [Ids -> [Buckets -> Seq(Ids)]]
      /\ records' \in [Ids -> SoundRecords]
      /\ \E reply \in Replies \ {NoReply} : op' = [op EXCEPT ![n] = [next EXCEPT !.reply = reply]]
  BY <1>1, <1>3, <1>6, CallStep
<1>8. PICK reply \in Replies \ {NoReply} : op' = [op EXCEPT ![n] = [next EXCEPT !.reply = reply]]
  BY <1>7
<1>9. [next EXCEPT !.reply = reply] \in SoundOperations
  <2> DEFINE p == [next EXCEPT !.reply = reply]
  <2>1. p \in Operations /\ p.phase = "lookup" /\ p.kind = o.kind /\ p.target = o.target /\ p.reply = reply
    BY <1>4, <1>5 DEF Operations
  <2> HIDE DEF p
  <2>2. p \in SoundOperations
    BY <1>2, <2>1 DEF SoundOperations
  <2> QED BY <2>2 DEF p
<1>10. op' \in [Clients -> SoundOperations]
  BY <1>8, <1>9 DEF DhtInv
<1> QED BY <1>1, <1>7, <1>10 DEF DhtInv

LEMMA AskValueStep ==
    ASSUME DhtInv, NEW n \in Clients, AskValue(n)
    PROVE  DhtInv'
<1> DEFINE o == op[n]
           peer == First(o.round, o.target)
           next == [o EXCEPT !.round = @ \ {peer}]
<1>1. /\ o \in SoundOperations /\ o \in Operations /\ o.phase = "fetch" /\ o.round # {}
      /\ Call(n, peer, FindValueAt(peer, n), next)
      /\ clock' = clock /\ answer' = answer /\ opsLeft' = opsLeft
  BY DEF AskValue, DhtInv, SoundOperations
<1>2. o.round \in SUBSET Claimed /\ o.target \in Keys /\ o.kind = "find_value"
  BY <1>1 DEF SoundOperations, Operations
<1>3. peer \in Claimed
  BY <1>1, <1>2, SortedMembers
<1> HIDE DEF peer
<1>4. next \in Operations
  BY <1>1, <1>3 DEF Operations
<1>5. next.phase = "fetch" /\ next.kind = o.kind /\ next.target = o.target
  BY <1>1 DEF Operations
<1>6. Handled(peer, FindValueAt(peer, n))
  BY <1>2, <1>3, ValueAtSound DEF Handled
<1> HIDE DEF o, next
<1>7. /\ \A m \in Ids : buckets'[m] \in SoundTables(m)
      /\ buckets' \in [Ids -> [Buckets -> Seq(Ids)]]
      /\ records' \in [Ids -> SoundRecords]
      /\ \E reply \in Replies \ {NoReply} : op' = [op EXCEPT ![n] = [next EXCEPT !.reply = reply]]
  BY <1>1, <1>3, <1>6, CallStep
<1>8. PICK reply \in Replies \ {NoReply} : op' = [op EXCEPT ![n] = [next EXCEPT !.reply = reply]]
  BY <1>7
<1>9. [next EXCEPT !.reply = reply] \in SoundOperations
  <2> DEFINE p == [next EXCEPT !.reply = reply]
  <2>1. p \in Operations /\ p.phase = "fetch" /\ p.kind = o.kind /\ p.target = o.target
    BY <1>4, <1>5 DEF Operations
  <2> HIDE DEF p
  <2>2. p \in SoundOperations
    BY <1>2, <2>1 DEF SoundOperations
  <2> QED BY <2>2 DEF p
<1>10. op' \in [Clients -> SoundOperations]
  BY <1>8, <1>9 DEF DhtInv
<1> QED BY <1>1, <1>7, <1>10 DEF DhtInv

LEMMA ReplicateStep ==
    ASSUME DhtInv, NEW n \in Clients, Replicate(n)
    PROVE  DhtInv'
<1> DEFINE o == op[n]
           peer == First(o.round, o.target)
           next == [o EXCEPT !.round = @ \ {peer}]
<1>1. /\ o \in SoundOperations /\ o \in Operations /\ o.phase = "replicate" /\ o.round # {}
      /\ Call(n, peer, StoreAt(peer, n), next)
      /\ clock' = clock /\ answer' = answer /\ opsLeft' = opsLeft
  BY DEF Replicate, DhtInv, SoundOperations
<1>2. /\ o.round \in SUBSET Claimed /\ o.target \in Ids \cup Keys /\ o.kind # "idle"
      /\ o.kind = "find_value" => o.target \in Keys
  BY <1>1 DEF SoundOperations, Operations
<1>3. peer \in Claimed
  BY <1>1, <1>2, SortedMembers
<1> HIDE DEF peer
<1>4. next \in Operations
  BY <1>1, <1>3 DEF Operations
<1>5. next.phase = "replicate" /\ next.kind = o.kind /\ next.target = o.target
  BY <1>1 DEF Operations
<1>6. Handled(peer, StoreAt(peer, n))
  BY <1>3, StoreAtSound DEF Handled
<1> HIDE DEF o, next
<1>7. /\ \A m \in Ids : buckets'[m] \in SoundTables(m)
      /\ buckets' \in [Ids -> [Buckets -> Seq(Ids)]]
      /\ records' \in [Ids -> SoundRecords]
      /\ \E reply \in Replies \ {NoReply} : op' = [op EXCEPT ![n] = [next EXCEPT !.reply = reply]]
  BY <1>1, <1>3, <1>6, CallStep
<1>8. PICK reply \in Replies \ {NoReply} : op' = [op EXCEPT ![n] = [next EXCEPT !.reply = reply]]
  BY <1>7
<1>9. [next EXCEPT !.reply = reply] \in SoundOperations
  <2> DEFINE p == [next EXCEPT !.reply = reply]
  <2>1. p \in Operations /\ p.phase = "replicate" /\ p.kind = o.kind /\ p.target = o.target
    BY <1>4, <1>5 DEF Operations
  <2> HIDE DEF p
  <2>2. p \in SoundOperations
    BY <1>2, <2>1 DEF SoundOperations
  <2> QED BY <2>2 DEF p
<1>10. op' \in [Clients -> SoundOperations]
  BY <1>8, <1>9 DEF DhtInv
<1> QED BY <1>1, <1>7, <1>10 DEF DhtInv

(* The answers of a peer are learned: the table stays sound, the lookup goes on
   or ends. *)
LEMMA LearnNodesStep ==
    ASSUME DhtInv, NEW n \in Clients, LearnNodes(n)
    PROVE  DhtInv'
<1> DEFINE o == op[n]
           learned == IF o.reply.type = "nodes" THEN o.reply.nodes ELSE {}
           more == [o EXCEPT !.known = @ \cup learned, !.reply = NoReply]
           sorted == Sorted(learned, o.target)
<1>0. n \in Ids
  BY ClientsAreNodes
<1>1. /\ o.phase = "lookup"
      /\ buckets' = [buckets EXCEPT ![n] = AddContacts(@, n, sorted)]
      /\ op' = [op EXCEPT ![n] = EndRound(more)]
      /\ clock' = clock /\ records' = records /\ answer' = answer /\ opsLeft' = opsLeft
  BY DEF LearnNodes
<1>2. o \in SoundOperations /\ o \in Operations /\ o \in Lookups
  BY <1>1, SoundLookup DEF DhtInv, SoundOperations
<1>3. learned \in SUBSET Claimed
  <2>1. o.reply \in Replies
    BY <1>2 DEF Operations
  <2>2. CASE o.reply \in {NodesReply(S) : S \in SUBSET Claimed}
    BY <2>2 DEF NodesReply
  <2>3. CASE o.reply \notin {NodesReply(S) : S \in SUBSET Claimed}
    <3>1. o.reply.type # "nodes"
      BY <2>1, <2>3 DEF Replies, NoReply, Failed, Stored, ValueReply
    <3> QED BY <3>1
  <2> QED BY <2>2, <2>3
<1> HIDE DEF learned
<1>4. more \in Lookups
  <2>1. NoReply \in Replies
    BY DEF Replies
  <2>2. more \in Operations
    BY <1>2, <1>3, <2>1 DEF Operations
  <2>3. more.phase = o.phase /\ more.kind = o.kind /\ more.target = o.target
    BY <1>2 DEF Operations
  <2> HIDE DEF more, o
  <2> QED BY <1>2, <2>2, <2>3 DEF Lookups
<1>5. op' \in [Clients -> SoundOperations]
  <2>1. EndRound(more) \in SoundOperations
    <3> HIDE DEF more
    <3> QED BY <1>4, EndRoundSound
  <2> HIDE DEF more
  <2> QED BY <1>1, <2>1 DEF DhtInv
<1>6. AddContacts(buckets[n], n, sorted) \in SoundTables(n)
  <2>1. o.target \in Ids \cup Keys
    BY <1>2 DEF Lookups
  <2>2. Cardinality(learned) \in Nat /\ sorted \in [1 .. Cardinality(learned) -> learned]
    <3> HIDE DEF o
    <3> QED BY <1>3, <2>1, SortedMembers
  <2> HIDE DEF sorted
  <2>3. Len(sorted) \in Nat /\ \A j \in 1 .. Len(sorted) : sorted[j] \in Claimed
    <3>1. sorted \in Seq(learned)
      BY <2>2
    <3>2. \A j \in 1 .. Len(sorted) : sorted[j] \in learned
      BY <3>1
    <3> QED BY <3>1, <3>2, <1>3
  <2>4. buckets[n] \in SoundTables(n)
    BY <1>0 DEF DhtInv
  <2> QED BY <1>0, <2>3, <2>4, AddContactsSound
<1>7. /\ \A m \in Ids : buckets'[m] \in SoundTables(m)
      /\ buckets' \in [Ids -> [Buckets -> Seq(Ids)]]
  BY <1>0, <1>1, <1>6 DEF DhtInv, SoundTables
<1> QED BY <1>1, <1>5, <1>7 DEF DhtInv

(* find_value answers from its own records, or starts a lookup. *)
LEMMA FindValueStep ==
    ASSUME DhtInv, NEW n \in Clients, NEW key \in Keys, FindValue(n, key)
    PROVE  DhtInv'
<1> DEFINE live == Live(records[n])
           b == [IdleOp EXCEPT !.kind = "find_value", !.target = key]
<1>0. n \in Ids
  BY ClientsAreNodes
<1>1. /\ records' = [records EXCEPT ![n] = live]
      /\ clock' = clock /\ buckets' = buckets
      /\ opsLeft > 0 /\ opsLeft' = opsLeft - 1
  BY DEF FindValue, Starting
<1>2. /\ live \in SoundRecords
      /\ live[key] # NoRecord => live[key].expiry > clock
  <2>1. records[n] \in SoundRecords
    BY <1>0 DEF DhtInv
  <2> QED BY <2>1, LiveSound
<1>3. \/ live[key] # NoRecord /\ Answer(n, live[key], key) /\ op' = op
      \/ StartLookup(n, b) /\ answer' = answer
  BY DEF FindValue
<1> HIDE DEF live
<1>4. records' \in [Ids -> SoundRecords]
  BY <1>1, <1>2 DEF DhtInv
<1>5. CASE live[key] # NoRecord /\ Answer(n, live[key], key) /\ op' = op
  <2> DEFINE a == [record |-> live[key], key |-> key, at |-> clock]
  <2>1. live[key] \in Records /\ live[key].genuine /\ live[key].key = key
    BY <1>2, <1>5 DEF SoundRecords
  <2>2. a \in SoundAnswers
    BY <1>2, <1>5, <2>1 DEF SoundAnswers, DhtInv
  <2>3. answer' = [answer EXCEPT ![n] = a]
    BY <1>5 DEF Answer
  <2> HIDE DEF a
  <2>4. answer' \in [Clients -> SoundAnswers]
    BY <2>2, <2>3 DEF DhtInv
  <2> QED BY <1>1, <1>4, <1>5, <2>4, DhtAssumption DEF DhtInv
<1>6. CASE StartLookup(n, b) /\ answer' = answer
  <2>1. b \in Operations /\ b.kind = "find_value" /\ b.target = key
    BY DEF IdleOp, Operations, Replies
  <2> HIDE DEF b
  <2>2. op' \in [Clients -> SoundOperations]
    BY <1>6, <2>1, StartLookupSound
  <2> QED BY <1>1, <1>4, <1>6, <2>2, DhtAssumption DEF DhtInv
<1> QED BY <1>3, <1>5, <1>6

LEMMA FindNodeStep ==
    ASSUME DhtInv, NEW n \in Clients, NEW target \in Ids, FindNode(n, target)
    PROVE  DhtInv'
<1> DEFINE b == [IdleOp EXCEPT !.kind = "find_node", !.target = target]
<1>1. /\ StartLookup(n, b) /\ opsLeft > 0 /\ opsLeft' = opsLeft - 1
      /\ clock' = clock /\ buckets' = buckets /\ records' = records /\ answer' = answer
  BY DEF FindNode, Starting
<1>2. b \in Operations /\ b.kind = "find_node" /\ b.target = target
  BY DEF IdleOp, Operations, Replies
<1> HIDE DEF b
<1>3. op' \in [Clients -> SoundOperations]
  BY <1>1, <1>2, StartLookupSound
<1> QED BY <1>1, <1>3, DhtAssumption DEF DhtInv

LEMMA StoreRecordStep ==
    ASSUME DhtInv, NEW n \in Clients, NEW r \in Records, StoreRecord(n, r)
    PROVE  DhtInv'
<1> DEFINE b == [IdleOp EXCEPT !.kind = "store", !.target = r.key, !.record = r]
<1>0. n \in Ids /\ r.key \in Keys
  BY ClientsAreNodes, DhtAssumption
<1>1. /\ StartLookup(n, b) /\ opsLeft > 0 /\ opsLeft' = opsLeft - 1
      /\ records' = [records EXCEPT ![n][r.key] = r] /\ r.genuine
      /\ clock' = clock /\ buckets' = buckets /\ answer' = answer
  BY DEF StoreRecord, Starting, ValidateRecord
<1>2. b \in Operations /\ b.kind = "store" /\ b.target = r.key
  BY <1>0 DEF IdleOp, Operations, Replies
<1> HIDE DEF b
<1>3. op' \in [Clients -> SoundOperations]
  BY <1>0, <1>1, <1>2, StartLookupSound
<1>4. records' \in [Ids -> SoundRecords]
  BY <1>0, <1>1 DEF DhtInv, SoundRecords
<1> QED BY <1>1, <1>3, <1>4, DhtAssumption DEF DhtInv

(* A value that was answered is validated when it is used. *)
LEMMA TakeValueStep ==
    ASSUME DhtInv, NEW n \in Clients, TakeValue(n)
    PROVE  DhtInv'
<1> DEFINE o == op[n]
           r == o.reply.record
<1>0. n \in Ids
  BY ClientsAreNodes
<1>1. /\ o.phase = "fetch" /\ o.reply.type = "value"
      /\ op' = [op EXCEPT ![n] = IdleOp]
      /\ clock' = clock /\ buckets' = buckets /\ opsLeft' = opsLeft
  BY DEF TakeValue
<1>2. \/ /\ r.key = o.target /\ r.expiry > clock /\ r.genuine
         /\ records' = [records EXCEPT ![n][o.target] = r]
         /\ answer' = [answer EXCEPT ![n] = [record |-> r, key |-> o.target, at |-> clock]]
      \/ records' = records /\ answer' = answer
  BY DEF TakeValue, ValidateRecord, Answer
<1>3. o \in SoundOperations
  BY DEF DhtInv
<1>4. o.target \in Keys /\ o.reply \in Replies
  BY <1>1, <1>3 DEF SoundOperations, Operations
<1>5. r \in Records
  BY <1>1, <1>4 DEF Replies, NoReply, Failed, Stored, NodesReply, ValueReply
<1>6. op' \in [Clients -> SoundOperations]
  BY <1>1, IdleSound DEF DhtInv
<1> HIDE DEF o, r
<1>7. CASE /\ r.key = o.target /\ r.expiry > clock /\ r.genuine
           /\ records' = [records EXCEPT ![n][o.target] = r]
           /\ answer' = [answer EXCEPT ![n] = [record |-> r, key |-> o.target, at |-> clock]]
  <2>1. records' \in [Ids -> SoundRecords]
    <3> DEFINE rs == [records[n] EXCEPT ![o.target] = r]
    <3>1. records[n] \in SoundRecords /\ records' = [records EXCEPT ![n] = rs]
      BY <1>0, <1>7 DEF DhtInv
    <3>2. rs \in SoundRecords
      BY <1>4, <1>5, <1>7, <3>1 DEF SoundRecords
    <3> HIDE DEF rs
    <3> QED BY <1>0, <3>1, <3>2 DEF DhtInv
  <2> DEFINE a == [record |-> r, key |-> o.target, at |-> clock]
  <2>2. a \in SoundAnswers
    BY <1>4, <1>5, <1>7 DEF SoundAnswers, DhtInv
  <2> HIDE DEF a
  <2>3. answer' \in [Clients -> SoundAnswers]
    BY <1>7, <2>2 DEF DhtInv, a
  <2> QED BY <1>1, <1>6, <2>1, <2>3 DEF DhtInv
<1>8. CASE records' = records /\ answer' = answer
  BY <1>1, <1>6, <1>8 DEF DhtInv
<1> QED BY <1>2, <1>7, <1>8

LEMMA NoValueStep ==
    ASSUME DhtInv, NEW n \in Clients, NoValue(n)
    PROVE  DhtInv'
<1> DEFINE o == op[n]
           a == [record |-> NoRecord, key |-> o.target, at |-> clock]
<1>1. /\ o.phase = "fetch"
      /\ clock' = clock /\ buckets' = buckets /\ records' = records /\ opsLeft' = opsLeft
  BY DEF NoValue
<1>2. \/ op' = [op EXCEPT ![n] = IdleOp] /\ answer' = [answer EXCEPT ![n] = a]
      \/ op' = [op EXCEPT ![n].reply = NoReply] /\ answer' = answer
  BY DEF NoValue, Answer
<1>3. o \in SoundOperations /\ o \in Operations
  BY DEF DhtInv, SoundOperations
<1>4. o.target \in Keys
  BY <1>1, <1>3 DEF SoundOperations
<1>5. CASE op' = [op EXCEPT ![n] = IdleOp] /\ answer' = [answer EXCEPT ![n] = a]
  <2>1. a \in SoundAnswers
    BY <1>4 DEF SoundAnswers, DhtInv
  <2> HIDE DEF a
  <2> QED BY <1>1, <1>5, <2>1, IdleSound DEF DhtInv
<1>6. CASE op' = [op EXCEPT ![n].reply = NoReply] /\ answer' = answer
  <2> DEFINE p == [o EXCEPT !.reply = NoReply]
  <2>1. op' = [op EXCEPT ![n] = p]
    BY <1>6
  <2>2. p \in Operations /\ p.phase = "fetch" /\ p.kind = o.kind /\ p.target = o.target
    BY <1>1, <1>3 DEF Operations, Replies
  <2> HIDE DEF p
  <2>3. p \in SoundOperations
    BY <1>1, <1>3, <2>2 DEF SoundOperations
  <2> QED BY <1>1, <1>6, <2>1, <2>3 DEF DhtInv
<1> QED BY <1>2, <1>5, <1>6

LEMMA ReplicatedStep ==
    ASSUME DhtInv, NEW n \in Clients, Replicated(n)
    PROVE  DhtInv'
<1> DEFINE o == op[n]
           p == [o EXCEPT !.reply = NoReply]
<1>1. /\ o.phase = "replicate"
      /\ op' = [op EXCEPT ![n] = IdleOp] \/ op' = [op EXCEPT ![n] = p]
      /\ clock' = clock /\ buckets' = buckets /\ records' = records /\ answer' = answer
      /\ opsLeft' = opsLeft
  BY DEF Replicated
<1>2. o \in SoundOperations /\ o \in Operations
  BY DEF DhtInv, SoundOperations
<1>3. p \in Operations /\ p.phase = "replicate" /\ p.kind = o.kind /\ p.target = o.target
  BY <1>1, <1>2 DEF Operations, Replies
<1> HIDE DEF p
<1>4. p \in SoundOperations
  BY <1>1, <1>2, <1>3 DEF SoundOperations
<1> QED BY <1>1, <1>4, IdleSound DEF DhtInv

LEMMA PingStep ==
    ASSUME DhtInv, NEW n \in Ids, NEW peer \in Ids, Ping(n, peer)
    PROVE  DhtInv'
<1>1. /\ opsLeft > 0 /\ opsLeft' = opsLeft - 1
      /\ buckets' = [buckets EXCEPT ![peer] = AddContact(buckets[peer], peer, n)]
      /\ clock' = clock /\ records' = records /\ op' = op /\ answer' = answer
  BY DEF Ping
<1>2. AddContact(buckets[peer], peer, n) \in SoundTables(peer)
  BY AddContactSound, ClaimedIds DEF DhtInv
<1>3. /\ \A m \in Ids : buckets'[m] \in SoundTables(m)
      /\ buckets' \in [Ids -> [Buckets -> Seq(Ids)]]
  BY <1>1, <1>2 DEF DhtInv, SoundTables
<1> QED BY <1>1, <1>3, DhtAssumption DEF DhtInv

(* Every node starts with the sound table its bootstrap contacts give it. *)
LEMMA DhtStarts == DhtInit => DhtInv
<1> SUFFICES ASSUME DhtInit PROVE DhtInv
  OBVIOUS
<1> DEFINE empty == [i \in Buckets |-> <<>>]
<1>1. \A n \in Ids : empty \in SoundTables(n)
  <2>1. << >> \in Seq(Ids) /\ Len(<< >>) = 0 /\ DOMAIN << >> = {}
    OBVIOUS
  <2>2. \A n \in Ids, i \in Buckets : SoundBucket(n, i, << >>)
    BY <2>1, DhtAssumption DEF SoundBucket, Distinct
  <2>3. empty \in [Buckets -> Seq(Ids)] /\ \A i \in Buckets : empty[i] = << >>
    BY <2>1
  <2> HIDE DEF empty
  <2> QED BY <2>2, <2>3 DEF SoundTables
<1>2. \A n \in Ids : Len(Bootstrap[n]) \in Nat /\ \A j \in 1 .. Len(Bootstrap[n]) : Bootstrap[n][j] \in Claimed
  BY DhtAssumption, ClaimedIds
<1>3. \A n \in Ids : AddContacts(empty, n, Bootstrap[n]) \in SoundTables(n)
  <2> HIDE DEF empty
  <2> QED BY <1>1, <1>2, AddContactsSound
<1>4. buckets = [n \in Ids |-> AddContacts(empty, n, Bootstrap[n])]
  BY DEF DhtInit
<1>5. \A n \in Ids : buckets[n] \in SoundTables(n)
  <2> HIDE DEF empty
  <2> QED BY <1>3, <1>4
<1>6. buckets \in [Ids -> [Buckets -> Seq(Ids)]]
  <2>1. \A n \in Ids : AddContacts(empty, n, Bootstrap[n]) \in [Buckets -> Seq(Ids)]
    <3> HIDE DEF empty
    <3> QED BY <1>3 DEF SoundTables
  <2> HIDE DEF empty
  <2> QED BY <1>4, <2>1
<1>7. records \in [Ids -> SoundRecords] /\ clock \in 0 .. MaxClock /\ opsLeft \in 0 .. MaxOps
  BY DhtAssumption DEF DhtInit, SoundRecords
<1>8. op \in [Clients -> SoundOperations]
  BY IdleSound DEF DhtInit
<1>9. answer \in [Clients -> SoundAnswers]
  BY DhtAssumption DEF DhtInit, SoundAnswers
<1> QED BY <1>5, <1>6, <1>7, <1>8, <1>9 DEF DhtInv

LEMMA DhtStep == DhtInv /\ [DhtNext]_dhtVars => DhtInv'
<1> SUFFICES ASSUME DhtInv, [DhtNext]_dhtVars PROVE DhtInv'
  OBVIOUS
<1>1. CASE ClockTick
  BY <1>1, DhtAssumption DEF ClockTick, DhtInv
<1>2. ASSUME NEW n \in Clients, NEW target \in Ids, FindNode(n, target) PROVE DhtInv'
  BY <1>2, FindNodeStep
<1>3. ASSUME NEW n \in Clients, NEW key \in Keys, FindValue(n, key) PROVE DhtInv'
  BY <1>3, FindValueStep
<1>4. ASSUME NEW n \in Clients, NEW r \in Records, StoreRecord(n, r) PROVE DhtInv'
  BY <1>4, StoreRecordStep
<1>5. ASSUME NEW n \in Clients, ClientStep(n) PROVE DhtInv'
  BY <1>5, AskNodeStep, LearnNodesStep, AskValueStep, TakeValueStep, NoValueStep,
     ReplicateStep, ReplicatedStep DEF ClientStep
<1>6. ASSUME NEW n \in Ids, NEW peer \in Ids, Ping(n, peer) PROVE DhtInv'
  BY <1>6, PingStep
<1>7. CASE UNCHANGED dhtVars
  BY <1>7 DEF dhtVars, DhtInv
<1> QED BY <1>1, <1>2, <1>3, <1>4, <1>5, <1>6, <1>7 DEF DhtNext

LEMMA DhtInvImplies == DhtInv => DhtTypeOK /\ NoStaleAnswer /\ RoutingTableSound
<1> SUFFICES ASSUME DhtInv PROVE DhtTypeOK /\ NoStaleAnswer /\ RoutingTableSound
  OBVIOUS
<1>1. DhtTypeOK
  BY DEF DhtInv, DhtTypeOK, SoundRecords, SoundOperations, SoundAnswers
<1>2. NoStaleAnswer
  BY DEF DhtInv, NoStaleAnswer, SoundAnswers
<1>3. RoutingTableSound
  BY ClaimedIds DEF DhtInv, RoutingTableSound, SoundTables, SoundBucket, Distinct
<1> QED BY <1>1, <1>2, <1>3

-----------------------------------------------------------------------------
(* DhtInv holds in every reachable state, for any number of nodes, clients and
   faulty peers. *)
THEOREM DhtInductive == DhtSpec => []DhtInv
  BY DhtStarts, DhtStep, PTL DEF DhtSpec

(* Clients, tables and records keep their types. *)
THEOREM DhtTypeCorrect == DhtSpec => []DhtTypeOK
  BY DhtInductive, DhtInvImplies, PTL

(* find_value never returns a record that has expired, is not signed by its
   owner or belongs to another key, whatever peers answer and however long the
   answer was under way. *)
THEOREM AnswersAreFresh == DhtSpec => []NoStaleAnswer
  BY DhtInductive, DhtInvImplies, PTL

(* Whatever is learned from whom, each bucket of a routing table keeps at most
   K contacts, each once, at its distance, and neither the node itself nor a
   contact without the key of its id. *)
THEOREM TablesAreSound == DhtSpec => []RoutingTableSound
  BY DhtInductive, DhtInvImplies, PTL

-----------------------------------------------------------------------------
(* The composition: whichever component moves, the others stand still. *)
NetInv == RldpInv /\ AdnlInv /\ DhtInv

LEMMA NetStarts == NetInit => NetInv
  BY RldpInitInv, AdnlInitInv, DhtStarts DEF NetInit, NetInv

LEMMA NetSteps ==
    ASSUME [NetNext]_netVars
    PROVE  [RldpNext]_rldpVars /\ [AdnlNext]_adnlVars /\ [DhtNext]_dhtVars
  BY DEF NetNext, netVars, rldpVars, adnlVars, dhtVars

LEMMA NetStep == NetInv /\ [NetNext]_netVars => NetInv'
  BY NetSteps, RldpStep, AdnlStep, DhtStep DEF NetInv

(* The three invariants hold together, whichever part of the stack runs. *)
THEOREM NetInductive == NetSpec => []NetInv
  BY NetStarts, NetStep, PTL DEF NetSpec

(* NetTypeOK: whatever an RLDP transfer, ADNL tasks and DHT clients do, each *)
(* keeps its state within its bounds.                                       *)
THEOREM NetTypeCorrect == NetSpec => []NetTypeOK
<1>1. NetInv => NetTypeOK
  BY RldpInvImplies, AdnlInvImplies, DhtInvImplies DEF NetInv, NetTypeOK
<1> QED BY <1>1, NetInductive, PTL

(* Every safety property of the stack that TLC checks of NetSpec holds of it *)
(* for every value of the constants.                                        *)
THEOREM NetworkIsSafe ==
    NetSpec => /\ [](SuccessMeansDelivered /\ NoSymbolStarves)
               /\ [](ChannelsHaveSessions /\ NoStaleAnswer /\ RoutingTableSound)
               /\ PeersAgreeOnChannel
<1>1. NetInv => /\ SuccessMeansDelivered /\ NoSymbolStarves
                /\ ChannelsHaveSessions /\ NoStaleAnswer /\ RoutingTableSound
  BY RldpInvImplies, AdnlInvImplies, DhtInvImplies DEF NetInv
<1>2. NetInv /\ [NetNext]_netVars =>
        [\A t \in Tasks :
          (task[t].pc \in {"lookup", "fetch"} /\ task'[t].result = "refused")
          => LET p == task[t].packet IN
             \/ ~p.intact
             \/ p.from \notin Registered(Home[t])
             \/ p.header # ChannelId(p.from, Home[t])]_adnlVars
  BY NetSteps, NoRefusal DEF NetInv
<1> QED BY <1>1, <1>2, NetInductive, PTL DEF NetSpec, PeersAgreeOnChannel
=============================================================================
