------------------------------ MODULE Ledger_proofs ------------------------------
(***************************************************************************)
(* The rules of the ledger: message delivery, block synchronisation,       *)
(* accounts, shard transitions, routes and stakes; and that the composition*)
(* with the interpreter keeps the types of all of them.                    *)
(***************************************************************************)
EXTENDS MCLedger, Interpreter_proofs, SequenceTheorems

-----------------------------------------------------------------------------
(***************************************************************************)
(* Messages.  At-most-once execution and the order of a lane, for every set*)
(* of messages.  The invariant is the conjunction of the two properties with*)
(* what makes them inductive: the destination forgets a message only once  *)
(* its reference no longer shows it, a message is queued once and leaves   *)
(* the queue executed, and what was enqueued before a queued message is    *)
(* queued with it, at an earlier time, or was executed.                    *)
(*                                                                         *)
(* Blocks.  Import keeps the index sound and connected, for every set of   *)
(* headers, candidates and anchors and batches of every length.  What a    *)
(* candidate is checked against is staged before it and still there at the *)
(* end, so the index need not be followed through the batch step by step.  *)
(***************************************************************************)

DeliveryInv ==
    /\ DeliveryTypeOK /\ AtMostOnce /\ LaneOrder
    /\ Remembered /\ Provenance /\ Predecessors

(* Executing a message adds it to what was executed and moves nothing.      *)
LEMMA AppendExecuted ==
    ASSUME NEW m \in Messages, executed \in Seq(Messages), executed' = Append(executed, m)
    PROVE  /\ executed' \in Seq(Messages)
           /\ Executed' = Executed \cup {m}
           /\ DOMAIN executed = 1..Len(executed) /\ Len(executed) \in Nat
           /\ DOMAIN executed' = 1..(Len(executed) + 1)
           /\ \A i \in DOMAIN executed : executed'[i] = executed[i]
           /\ executed'[Len(executed) + 1] = m
  BY DEF Executed

(* Initially nothing was sent, and everything holds of nothing.             *)
LEMMA DeliveryStarts == DeliveryInit => DeliveryInv
  BY DEF DeliveryInit, DeliveryInv, DeliveryTypeOK, AtMostOnce, LaneOrder, Remembered, Provenance,
         Predecessors, Executed

(* Executing a message that is not on record, and that was not executed     *)
(* before, after everything that was ahead of it.                           *)
LEMMA FreshExecution ==
    ASSUME DeliveryInv, NEW m \in Messages,
           m \notin Executed,
           \A p \in before : p[2] = m => p[1] \in Executed,
           executed' = Append(executed, m), before' = before
    PROVE  AtMostOnce' /\ LaneOrder'
<1>1. /\ executed \in Seq(Messages)
      /\ AtMostOnce /\ LaneOrder
  BY DEF DeliveryInv, DeliveryTypeOK
<1>2. /\ DOMAIN executed = 1..Len(executed) /\ Len(executed) \in Nat
      /\ DOMAIN executed' = 1..(Len(executed) + 1)
      /\ \A i \in DOMAIN executed : executed'[i] = executed[i]
      /\ executed'[Len(executed) + 1] = m
  BY <1>1, AppendExecuted
<1>3. \A i \in DOMAIN executed : executed[i] # m
  BY DEF Executed
<1>4. AtMostOnce'
  BY <1>1, <1>2, <1>3 DEF AtMostOnce
<1>5. LaneOrder'
  <2> SUFFICES ASSUME NEW j \in DOMAIN executed', NEW p \in before, p[2] = executed'[j]
               PROVE  \E i \in 1..(j - 1) : executed'[i] = p[1]
    BY DEF LaneOrder
  <2>1. CASE j \in DOMAIN executed
    <3>1. PICK i \in 1..(j - 1) : executed[i] = p[1]
      BY <1>1, <1>2, <2>1 DEF LaneOrder
    <3>2. i \in DOMAIN executed
      BY <1>2, <2>1
    <3> QED BY <1>2, <3>1, <3>2
  <2>2. CASE j = Len(executed) + 1
    <3>1. PICK i \in DOMAIN executed : executed[i] = p[1]
      BY <1>2, <2>2 DEF Executed
    <3>2. i \in 1..(j - 1)
      BY <1>2, <2>2
    <3> QED BY <1>2, <3>1, <3>2
  <2> QED BY <1>2, <2>1, <2>2
<1> QED BY <1>4, <1>5

-----------------------------------------------------------------------------
(* The origin's steps. *)

LEMMA EnqueueInv ==
    ASSUME DeliveryInv, NEW m \in Messages, NEW t \in AccountTypes, Enqueue(m, t)
    PROVE  DeliveryInv'
<1> USE DEF DeliveryInv
<1>1. /\ m.kind = "Internal" /\ m \notin sent
      /\ \A n \in queue : n.lane = m.lane => n.lt < m.lt
      /\ queue' = queue \cup {m} /\ sent' = sent \cup {m}
      /\ before' = before \cup {<<n, m>> : n \in Queued(m.lane)}
      /\ ref' = ref /\ view' = view /\ processed' = processed /\ executed' = executed
  BY DEF Enqueue, AdmitInternal, Enqueueable, InLane
<1>2. Executed' = Executed
  BY <1>1 DEF Executed
<1>3. m \notin Executed
  BY <1>1 DEF Provenance
<1>4. DeliveryTypeOK'
  BY <1>1 DEF DeliveryTypeOK, Queued, InLane
<1>5. AtMostOnce'
  BY <1>1 DEF AtMostOnce
<1>6. LaneOrder'
  <2> SUFFICES ASSUME NEW j \in DOMAIN executed, NEW p \in before', p[2] = executed[j]
               PROVE  \E i \in 1..(j - 1) : executed[i] = p[1]
    BY <1>1 DEF LaneOrder
  <2>1. p \in before
    BY <1>1, <1>3 DEF Executed
  <2> QED BY <2>1 DEF LaneOrder
<1>7. Remembered'
  BY <1>1, <1>2, <1>3 DEF Remembered
<1>8. Provenance'
  BY <1>1, <1>2 DEF Provenance
<1>9. Predecessors'
  <2>1. \A p \in before' \ before :
           p[2] = m /\ p[1].lane = m.lane /\ (p[1] \in Executed \/ (p[1] \in queue /\ p[1].lt < m.lt))
    BY <1>1 DEF Queued, InLane, Provenance
  <2>2. m \notin ref /\ m \notin view
    BY <1>1 DEF Provenance, Remembered
  <2>3. \A p \in before' :
           /\ p[1].lane = p[2].lane /\ p[2] \in sent' /\ p[2].kind = "Internal"
           /\ p[1] \in Executed \/ p[1].lt < p[2].lt
    BY <1>1, <2>1 DEF Predecessors
  <2>4. \A p \in before' : p[2] \in queue' => p[1] \in queue' \/ p[1] \in Executed
    BY <1>1, <2>1 DEF Predecessors
  <2>5. \A p \in before' : (p[2] \in ref => p[1] \in ref \/ p[1] \in Executed)
                        /\ (p[2] \in view => p[1] \in view \/ p[1] \in Executed)
    BY <1>1, <2>1, <2>2 DEF Predecessors
  <2> QED BY <1>1, <1>2, <2>3, <2>4, <2>5 DEF Predecessors
<1> QED BY <1>4, <1>5, <1>6, <1>7, <1>8, <1>9

LEMMA LogOutboundInv ==
    ASSUME DeliveryInv, NEW m \in Messages, LogOutbound(m)
    PROVE  DeliveryInv'
<1> USE DEF DeliveryInv, LogOutbound
<1>1. Executed' = Executed
  BY DEF Executed
<1>2. DeliveryTypeOK' /\ AtMostOnce' /\ LaneOrder'
  BY DEF DeliveryTypeOK, AtMostOnce, LaneOrder
<1>3. m.kind # "Internal"
  BY DEF AdmitExternalOutbound
<1>4. Remembered' /\ Provenance' /\ Predecessors'
  BY <1>1, <1>3 DEF Remembered, Provenance, Predecessors
<1> QED BY <1>2, <1>4

LEMMA RemoveNextInv == DeliveryInv /\ RemoveNext => DeliveryInv'
<1> SUFFICES ASSUME DeliveryInv, NEW m \in queue, m \in processed, queue' = queue \ {m},
                    UNCHANGED <<ref, view, processed, sent, executed, before>>
             PROVE  DeliveryInv'
  BY DEF RemoveNext
<1> USE DEF DeliveryInv
<1>1. Executed' = Executed
  BY DEF Executed
<1>2. DeliveryTypeOK' /\ AtMostOnce' /\ LaneOrder'
  BY DEF DeliveryTypeOK, AtMostOnce, LaneOrder
<1>3. Remembered' /\ Provenance'
  BY <1>1 DEF Remembered, Provenance
<1>4. Predecessors'
  BY <1>1 DEF Predecessors, Remembered
<1> QED BY <1>2, <1>3, <1>4

-----------------------------------------------------------------------------
(* The destination's steps. *)

LEMMA ReferInv == DeliveryInv /\ Refer => DeliveryInv'
<1> SUFFICES ASSUME DeliveryInv, Refer PROVE DeliveryInv'
  OBVIOUS
<1> USE DEF DeliveryInv, Refer
<1>1. Executed' = Executed
  BY DEF Executed
<1>2. DeliveryTypeOK' /\ AtMostOnce' /\ LaneOrder'
  BY DEF DeliveryTypeOK, AtMostOnce, LaneOrder
<1>3. Remembered' /\ Provenance'
  BY <1>1 DEF Remembered, Provenance
<1>4. Predecessors'
  BY <1>1 DEF Predecessors
<1> QED BY <1>2, <1>3, <1>4

LEMMA ReloadInv == DeliveryInv /\ Reload => DeliveryInv'
<1> SUFFICES ASSUME DeliveryInv, Reload PROVE DeliveryInv'
  OBVIOUS
<1> USE DEF DeliveryInv, Reload
<1>1. Executed' = Executed
  BY DEF Executed
<1>2. DeliveryTypeOK' /\ AtMostOnce' /\ LaneOrder'
  BY DEF DeliveryTypeOK, AtMostOnce, LaneOrder
<1>3. Remembered' /\ Provenance'
  BY <1>1 DEF Remembered, Provenance
<1>4. Predecessors'
  BY <1>1 DEF Predecessors
<1> QED BY <1>2, <1>3, <1>4

LEMMA PruneInv ==
    ASSUME DeliveryInv, NEW m \in Messages, Prune(m)
    PROVE  DeliveryInv'
<1> USE DEF DeliveryInv, Prune, RemovalConfirmed
<1>1. Executed' = Executed
  BY DEF Executed
<1>2. DeliveryTypeOK' /\ AtMostOnce' /\ LaneOrder'
  BY DEF DeliveryTypeOK, AtMostOnce, LaneOrder
<1>3. Remembered' /\ Provenance' /\ Predecessors'
  BY <1>1 DEF Remembered, Provenance, Predecessors
<1> QED BY <1>2, <1>3

(* A message of the copy is refused as a duplicate, or was not executed and *)
(* everything ahead of it was.                                              *)
LEMMA DeliverInv == DeliveryInv /\ Deliver => DeliveryInv'
<1> SUFFICES ASSUME DeliveryInv, NEW m \in view, IsNext(view, m), view' = view \ {m}, Admit(m),
                    UNCHANGED <<queue, ref, sent, before>>
             PROVE  DeliveryInv'
  BY DEF Deliver
<1> USE DEF DeliveryInv
<1>1. m \in Messages /\ m \in ref /\ m \in sent /\ m.kind = "Internal"
  BY DEF DeliveryTypeOK, Remembered, Provenance
<1>2. CASE m \in processed
  <2>1. UNCHANGED <<processed, executed>> /\ m \in Executed
    BY <1>2 DEF Admit, Remembered
  <2>2. Executed' = Executed
    BY <2>1 DEF Executed
  <2>3. DeliveryTypeOK' /\ AtMostOnce' /\ LaneOrder'
    BY <2>1 DEF DeliveryTypeOK, AtMostOnce, LaneOrder
  <2>4. Remembered' /\ Provenance'
    BY <2>1, <2>2 DEF Remembered, Provenance
  <2>5. Predecessors'
    BY <2>1, <2>2 DEF Predecessors
  <2> QED BY <2>3, <2>4, <2>5
<1>3. CASE m \notin processed
  <2>1. processed' = processed \cup {m} /\ executed' = Append(executed, m)
    BY <1>3 DEF Admit
  <2>2. Executed' = Executed \cup {m} /\ executed' \in Seq(Messages)
    BY <1>1, <2>1, AppendExecuted DEF DeliveryTypeOK
  <2>3. m \notin Executed
    BY <1>1, <1>3 DEF Remembered
  <2>4. \A p \in before : p[2] = m => p[1] \in Executed
    <3> SUFFICES ASSUME NEW p \in before, p[2] = m, p[1] \notin Executed PROVE FALSE
      OBVIOUS
    <3>1. p[1] \in view /\ p[1].lane = m.lane /\ p[1].lt < m.lt /\ p[1] \in Messages
      BY DEF Predecessors, DeliveryTypeOK
    <3>2. p[1].lt \in Nat /\ m.lt \in Nat /\ m.lane \in Nat
      BY <1>1, <3>1, MessagesAssumption
    <3>3. p[1] # m
      BY <3>1, <3>2
    <3> QED BY <3>1, <3>2, <3>3 DEF IsNext
  <2>5. AtMostOnce' /\ LaneOrder'
    BY <1>1, <2>1, <2>3, <2>4, FreshExecution
  <2>6. DeliveryTypeOK'
    BY <1>1, <2>1, <2>2 DEF DeliveryTypeOK
  <2>7. Remembered' /\ Provenance'
    BY <1>1, <2>1, <2>2 DEF Remembered, Provenance
  <2>8. Predecessors'
    BY <2>1, <2>2 DEF Predecessors
  <2> QED BY <2>5, <2>6, <2>7, <2>8
<1> QED BY <1>2, <1>3

(* An external message stays on record for good, and is in no queue.        *)
LEMMA SubmitExternalInv ==
    ASSUME DeliveryInv, NEW m \in Messages, NEW o \in Outcomes, SubmitExternal(m, o)
    PROVE  DeliveryInv'
<1> USE DEF DeliveryInv
<1>1. m.kind # "Internal" /\ Admit(m) /\ UNCHANGED <<queue, ref, view, sent, before>>
  BY DEF SubmitExternal, AdmitExternalInbound
<1>2. CASE m \in processed
  <2>1. UNCHANGED <<processed, executed>>
    BY <1>1, <1>2 DEF Admit
  <2>2. Executed' = Executed
    BY <2>1 DEF Executed
  <2>3. DeliveryTypeOK' /\ AtMostOnce' /\ LaneOrder'
    BY <1>1, <2>1 DEF DeliveryTypeOK, AtMostOnce, LaneOrder
  <2>4. Remembered' /\ Provenance' /\ Predecessors'
    BY <1>1, <2>1, <2>2 DEF Remembered, Provenance, Predecessors
  <2> QED BY <2>3, <2>4
<1>3. CASE m \notin processed
  <2>1. processed' = processed \cup {m} /\ executed' = Append(executed, m)
    BY <1>1, <1>3 DEF Admit
  <2>2. Executed' = Executed \cup {m} /\ executed' \in Seq(Messages)
    BY <2>1, AppendExecuted DEF DeliveryTypeOK
  <2>3. m \notin Executed /\ m \notin queue
    BY <1>1, <1>3 DEF Remembered, Provenance
  <2>4. \A p \in before : p[2] # m
    BY <1>1 DEF Predecessors
  <2>5. AtMostOnce' /\ LaneOrder'
    BY <1>1, <2>1, <2>3, <2>4, FreshExecution
  <2>6. DeliveryTypeOK'
    BY <1>1, <2>1, <2>2 DEF DeliveryTypeOK
  <2>7. Remembered' /\ Provenance'
    BY <1>1, <2>1, <2>2, <2>3 DEF Remembered, Provenance
  <2>8. Predecessors'
    BY <1>1, <2>1, <2>2 DEF Predecessors
  <2> QED BY <2>5, <2>6, <2>7, <2>8
<1> QED BY <1>2, <1>3

-----------------------------------------------------------------------------
LEMMA DeliveryStep == DeliveryInv /\ [DeliveryNext]_deliveryVars => DeliveryInv'
<1> SUFFICES ASSUME DeliveryInv, [DeliveryNext]_deliveryVars PROVE DeliveryInv'
  OBVIOUS
<1>1. ASSUME NEW m \in Messages, NEW t \in AccountTypes, Enqueue(m, t) PROVE DeliveryInv'
  BY <1>1, EnqueueInv
<1>2. ASSUME NEW m \in Messages, LogOutbound(m) PROVE DeliveryInv'
  BY <1>2, LogOutboundInv
<1>3. CASE RemoveNext
  BY <1>3, RemoveNextInv
<1>4. CASE Refer
  BY <1>4, ReferInv
<1>5. CASE Reload
  BY <1>5, ReloadInv
<1>6. CASE Deliver
  BY <1>6, DeliverInv
<1>7. ASSUME NEW m \in Messages, NEW o \in Outcomes, SubmitExternal(m, o) PROVE DeliveryInv'
  BY <1>7, SubmitExternalInv
<1>8. ASSUME NEW m \in Messages, Prune(m) PROVE DeliveryInv'
  BY <1>8, PruneInv
<1>9. CASE UNCHANGED deliveryVars
  <2>1. Executed' = Executed
    BY <1>9 DEF deliveryVars, Executed
  <2> QED
    BY <1>9, <2>1 DEF deliveryVars, DeliveryInv, DeliveryTypeOK, AtMostOnce, LaneOrder,
                      Remembered, Provenance, Predecessors
<1> QED BY <1>1, <1>2, <1>3, <1>4, <1>5, <1>6, <1>7, <1>8, <1>9 DEF DeliveryNext

(* DeliveryInv is an inductive invariant of the two shards.                 *)
THEOREM DeliveryInductive == DeliverySpec => []DeliveryInv
  BY DeliveryStarts, DeliveryStep, PTL DEF DeliverySpec

(* Queues, references and trackers hold messages only, in every state.      *)
THEOREM DeliveryTypeCorrect == DeliverySpec => []DeliveryTypeOK
<1>1. DeliveryInv => DeliveryTypeOK
  BY DEF DeliveryInv
<1> QED BY <1>1, DeliveryInductive, PTL

(* No message is executed twice, however ProcessedMessageTracker is pruned  *)
(* by the rule of its comment and however often a message comes again.      *)
THEOREM ExecutedOnce == DeliverySpec => []AtMostOnce
<1>1. DeliveryInv => AtMostOnce
  BY DEF DeliveryInv
<1> QED BY <1>1, DeliveryInductive, PTL

(* Messages of a lane are executed in the order in which OutputQueue took   *)
(* them, whether or not they were ever in it together.                      *)
THEOREM LanesInOrder == DeliverySpec => []LaneOrder
<1>1. DeliveryInv => LaneOrder
  BY DEF DeliveryInv
<1> QED BY <1>1, DeliveryInductive, PTL

-----------------------------------------------------------------------------
SyncInv == SyncTypeOK /\ IndexSound /\ IndexIsConnected

(* What the checks of one candidate come to, in the terms of the properties. *)
Supports(b, blocks) ==
    /\ \A p \in Parents(b.hash) :
           /\ p \in Held(blocks)
           /\ Header[p].seq < Header[b.hash].seq /\ Header[p].end <= Header[b.hash].start
    /\ \E p \in Parents(b.hash) : Header[b.hash].seq = Header[p].seq + 1
    /\ ~IsMaster(b.hash) =>
           /\ \E m \in blocks : m.hash = Header[b.hash].master /\ IsMaster(m.hash)
           /\ \E m \in blocks : m.hash = b.proof /\ \E e \in m.extra : IsCanonical(e, b.hash)

(* A batch in import order, of n candidates that all passed.                 *)
Imported(batch, n) ==
    /\ n \in Nat /\ batch \in [1..n -> Candidates]
    /\ \A i \in 1..n : CandidateValid(batch[i], Staged(batch, i))
    /\ index' = Staged(batch, n + 1)

(* A candidate that passes validate_candidate is supported by the blocks it  *)
(* was checked against.                                                      *)
LEMMA ValidIsSupported ==
    ASSUME NEW blocks, NEW c \in Candidates, CandidateValid(c, blocks)
    PROVE  Supports(Stored(c, FALSE), blocks)
<1>1. \A p \in Parents(c.hash) : p \in Held(blocks) /\ Header[p].end <= Header[c.hash].start
  BY DEF CandidateValid, SuccessorValid, BodyFollows, TimeFollows
<1>2. SeqFollows(c.hash)
  BY DEF CandidateValid, SuccessorValid, BodyFollows
<1>3. ASSUME ~IsMaster(c.hash)
      PROVE  /\ \E m \in blocks : m.hash = Header[c.hash].master /\ IsMaster(m.hash)
             /\ \E m \in blocks : m.hash = c.proof /\ \E e \in m.extra : IsCanonical(e, c.hash)
  BY <1>3 DEF CandidateValid, MasterRefValid, ProofValid, Held
<1> QED BY <1>1, <1>2, <1>3 DEF Supports, Stored, SeqFollows

(* Support is kept when blocks are added.                                    *)
LEMMA SupportGrows ==
    ASSUME NEW b, NEW small, NEW large, small \subseteq large, Supports(b, small)
    PROVE  Supports(b, large)
  BY DEF Supports, Held

(* Connected is: everything that is not trusted is supported, and a block    *)
(* with a configuration is a masterchain block.                              *)
LEMMA ConnectedIfSupported ==
    ASSUME \A b \in index : RoleFieldsValid(b),
           \A b \in index : ~b.trusted => Supports(b, index)
    PROVE  IndexIsConnected
<1>1. \A m \in index : \A e \in m.extra : IsMaster(m.hash)
  BY DEF RoleFieldsValid
<1> QED BY <1>1 DEF IndexIsConnected, Supports

(* ... and the other way round.                                              *)
LEMMA SupportedIfConnected ==
    ASSUME IndexIsConnected, NEW b \in index, ~b.trusted
    PROVE  Supports(b, index)
  BY DEF IndexIsConnected, Supports

(* A batch of candidates that all pass leaves a sound, connected index.      *)
LEMMA ImportInv ==
    ASSUME SyncInv, NEW n, NEW batch, Imported(batch, n)
    PROVE  SyncInv'
<1> DEFINE new(i) == Stored(batch[i], FALSE)
<1>a. /\ n \in Nat /\ batch \in [1..n -> Candidates]
      /\ \A i \in 1..n : CandidateValid(batch[i], Staged(batch, i))
      /\ index' = Staged(batch, n + 1)
  BY DEF Imported
<1>b. (n + 1) - 1 = n
  BY <1>a
<1>c. index' = index \cup {new(j) : j \in 1..n}
  BY <1>a, <1>b, Zenon DEF Staged
<1>1. /\ n \in Nat
      /\ \A i \in 1..n : batch[i] \in Candidates
      /\ \A i \in 1..n : CandidateValid(batch[i], Staged(batch, i))
      /\ index' = index \cup {new(j) : j \in 1..n}
  BY <1>a, <1>c
<1>2. \A i \in 1..n : /\ Staged(batch, i) = index \cup {new(j) : j \in 1..(i - 1)}
                      /\ Staged(batch, i) \subseteq index'
  <2> SUFFICES ASSUME NEW i \in 1..n
               PROVE  /\ Staged(batch, i) = index \cup {new(j) : j \in 1..(i - 1)}
                      /\ Staged(batch, i) \subseteq index'
    BY Zenon
  <2>1. Staged(batch, i) = index \cup {new(j) : j \in 1..(i - 1)}
    BY Zenon DEF Staged
  <2>2. 1..(i - 1) \subseteq 1..n
    BY <1>a
  <2> QED BY <1>c, <2>1, <2>2, Zenon
<1>3. \A i \in 1..n : /\ new(i).hash = batch[i].hash /\ new(i).trusted = FALSE
                      /\ new(i).extra = batch[i].extra /\ new(i).proof = batch[i].proof
  BY DEF Stored
<1>4. SyncTypeOK'
  <2> SUFFICES ASSUME NEW b \in index'
               PROVE  \E c \in Candidates \cup Anchors : b = Stored(c, b.trusted) /\ b.trusted \in BOOLEAN
    BY DEF SyncTypeOK
  <2>1. CASE b \in index
    BY <2>1 DEF SyncInv, SyncTypeOK
  <2>2. CASE b \notin index
    <3>1. PICK i \in 1..n : b = new(i)
      BY <1>1, <2>2
    <3> QED BY <1>1, <1>3, <3>1
  <2> QED BY <2>1, <2>2
<1>5. \A b \in index' : RoleFieldsValid(b)
  <2> SUFFICES ASSUME NEW b \in index' PROVE RoleFieldsValid(b)
    OBVIOUS
  <2>1. CASE b \in index
    BY <2>1 DEF SyncInv, IndexSound
  <2>2. CASE b \notin index
    <3>1. PICK i \in 1..n : b = new(i)
      BY <1>1, <2>2
    <3>2. RoleFieldsValid(batch[i])
      BY <1>1 DEF CandidateValid
    <3> QED BY <1>3, <3>1, <3>2 DEF RoleFieldsValid
  <2> QED BY <2>1, <2>2
<1>6. ASSUME NEW i \in 1..n, NEW b \in index' , b.hash = new(i).hash, b \in Staged(batch, i)
      PROVE  FALSE
  <2>1. batch[i].hash \notin Held(Staged(batch, i))
    BY <1>1 DEF CandidateValid
  <2> QED BY <1>3, <1>6, <2>1 DEF Held
<1>7. IndexSound'
  <2> SUFFICES ASSUME NEW b \in index', NEW c \in index', b.hash = c.hash
               PROVE  b = c
    BY <1>5 DEF IndexSound, RoleFieldsValid, IsMaster, ExtraSorted
  <2>1. CASE b \in index /\ c \in index
    BY <2>1 DEF SyncInv, IndexSound
  <2>2. CASE b \in index /\ c \notin index
    <3>1. PICK i \in 1..n : c = new(i)
      BY <1>1, <2>2
    <3> QED BY <1>2, <1>6, <2>2, <3>1
  <2>3. CASE b \notin index /\ c \in index
    <3>1. PICK i \in 1..n : b = new(i)
      BY <1>1, <2>3
    <3> QED BY <1>2, <1>6, <2>3, <3>1
  <2>4. CASE b \notin index /\ c \notin index
    <3>1. PICK i \in 1..n : b = new(i)
      BY <1>1, <2>4
    <3>2. PICK j \in 1..n : c = new(j)
      BY <1>1, <2>4
    <3>3. CASE i < j
      <4>1. i \in 1..(j - 1)
        BY <3>3
      <4>2. b \in Staged(batch, j)
        BY <1>2, <3>1, <4>1
      <4> QED BY <1>6, <3>2, <4>2
    <3>4. CASE j < i
      <4>1. j \in 1..(i - 1)
        BY <3>4
      <4>2. c \in Staged(batch, i)
        BY <1>2, <3>2, <4>1
      <4> QED BY <1>6, <3>1, <4>2
    <3>5. CASE i = j
      BY <3>1, <3>2, <3>5
    <3> QED BY <3>3, <3>4, <3>5
  <2> QED BY <2>1, <2>2, <2>3, <2>4
<1>8. \A b \in index' : ~b.trusted => Supports(b, index')
  <2> SUFFICES ASSUME NEW b \in index', ~b.trusted PROVE Supports(b, index')
    OBVIOUS
  <2>1. CASE b \in index
    <3>1. Supports(b, index)
      BY <2>1, SupportedIfConnected DEF SyncInv
    <3>2. index \subseteq index'
      BY <1>1
    <3> QED BY <3>1, <3>2, SupportGrows
  <2>2. CASE b \notin index
    <3>1. PICK i \in 1..n : b = new(i)
      BY <1>1, <2>2
    <3>2. Supports(b, Staged(batch, i))
      BY <1>1, <3>1, ValidIsSupported
    <3> QED BY <1>2, <3>2, SupportGrows
  <2> QED BY <2>1, <2>2
<1>9. IndexIsConnected'
  <2>1. \A m \in index' : \A e \in m.extra : IsMaster(m.hash)
    BY <1>5 DEF RoleFieldsValid
  <2> QED BY <1>8, <2>1 DEF IndexIsConnected, Supports
<1> QED BY <1>4, <1>7, <1>9 DEF SyncInv

(* insert_trusted: whatever it holds, a trusted block disturbs nothing.      *)
LEMMA TrustedInv ==
    ASSUME SyncInv, NEW c \in Anchors, InsertTrusted(c)
    PROVE  SyncInv'
<1> DEFINE b == Stored(c, TRUE)
<1>1. /\ RoleFieldsValid(c) /\ c.hash \notin Held(index) /\ index' = index \cup {b}
  BY DEF InsertTrusted
<1>2. b.hash = c.hash /\ b.extra = c.extra /\ b.proof = c.proof /\ b.trusted = TRUE
  BY DEF Stored
<1> HIDE DEF b
<1>3. SyncTypeOK'
  <2>1. b = Stored(c, b.trusted) /\ b.trusted \in BOOLEAN
    BY <1>2 DEF b
  <2> QED BY <1>1, <2>1 DEF SyncInv, SyncTypeOK
<1>4. \A x \in index' : RoleFieldsValid(x)
  <2>1. RoleFieldsValid(b)
    BY <1>1, <1>2 DEF RoleFieldsValid
  <2> QED BY <1>1, <2>1 DEF SyncInv, IndexSound
<1>5. \A x, y \in index' : x.hash = y.hash => x = y
  BY <1>1, <1>2 DEF SyncInv, IndexSound, Held
<1>6. IndexSound'
  BY <1>4, <1>5 DEF IndexSound, RoleFieldsValid, IsMaster, ExtraSorted
<1>7. \A x \in index' : ~x.trusted => Supports(x, index')
  <2>1. \A x \in index : ~x.trusted => Supports(x, index)
    BY SupportedIfConnected DEF SyncInv
  <2>2. index \subseteq index'
    BY <1>1
  <2> QED BY <1>1, <1>2, <2>1, <2>2, SupportGrows
<1>8. IndexIsConnected'
  <2>1. \A m \in index' : \A e \in m.extra : IsMaster(m.hash)
    BY <1>4 DEF RoleFieldsValid
  <2> QED BY <1>7, <2>1 DEF IndexIsConnected, Supports
<1> QED BY <1>3, <1>6, <1>8 DEF SyncInv

(* The batches, in either direction, are finite sequences of candidates.     *)
LEMMA BatchShape ==
    ASSUME NEW batch \in Batches
    PROVE  \E n \in Nat : /\ batch \in [1..n -> Candidates] /\ Len(batch) = n
                          /\ Reversed(batch) \in [1..n -> Candidates] /\ Len(Reversed(batch)) = n
<1>1. PICK n \in 1..MaxBatch : batch \in [1..n -> Candidates]
  BY DEF Batches
<1>2. n \in Nat
  BY BatchAssumption
<1>3. batch \in Seq(Candidates) /\ Len(batch) = n /\ DOMAIN batch = 1..n
  BY <1>1, <1>2
<1>4. \A i \in 1..n : n + 1 - i \in 1..n
  BY <1>2
<1>5. Reversed(batch) \in [1..n -> Candidates]
  BY <1>1, <1>3, <1>4 DEF Reversed
<1>6. Len(Reversed(batch)) = n
  BY <1>2, <1>5
<1> QED BY <1>1, <1>2, <1>3, <1>5, <1>6

(* One step. *)
LEMMA SyncStep == SyncInv /\ [SyncNext]_index => SyncInv'
<1> SUFFICES ASSUME SyncInv, [SyncNext]_index PROVE SyncInv'
  OBVIOUS
<1>1. ASSUME NEW c \in Anchors, InsertTrusted(c) PROVE SyncInv'
  BY <1>1, TrustedInv
<1>2. ASSUME NEW batch \in Batches, ImportBatch(batch) PROVE SyncInv'
  <2>1. PICK n \in Nat : batch \in [1..n -> Candidates] /\ Len(batch) = n
    BY BatchShape
  <2>2. Imported(batch, n)
    BY <1>2, <2>1 DEF ImportBatch, Imported
  <2> QED BY <2>2, ImportInv
<1>3. ASSUME NEW batch \in Batches, ImportReverseBatch(batch) PROVE SyncInv'
  <2>1. PICK n \in Nat : Reversed(batch) \in [1..n -> Candidates] /\ Len(Reversed(batch)) = n
    BY BatchShape
  <2>2. Imported(Reversed(batch), n)
    BY <1>3, <2>1 DEF ImportReverseBatch, ImportBatch, Imported
  <2> QED BY <2>2, ImportInv
<1>4. CASE UNCHANGED index
  BY <1>4 DEF SyncInv, SyncTypeOK, IndexSound, IndexIsConnected, RoleFieldsValid, Held,
              IsMaster, ExtraSorted, Parents, Commits, IsCanonical, IsMergeResult
<1> QED BY <1>1, <1>2, <1>3, <1>4 DEF SyncNext

LEMMA SyncStarts == SyncInit => SyncInv
  BY DEF SyncInit, SyncInv, SyncTypeOK, IndexSound, IndexIsConnected

(* The index stays typed, sound and connected, whatever is imported.         *)
THEOREM SyncInductive == SyncSpec => []SyncInv
  BY SyncStarts, SyncStep, PTL DEF SyncSpec

(* import_batch in both directions and insert_trusted: every block that was  *)
(* not trusted has its parents and its masterchain blocks in the index, and  *)
(* the sequence number and start its parents ask for.                        *)
THEOREM Connected == SyncSpec => []IndexIsConnected
<1>1. SyncInv => IndexIsConnected
  BY DEF SyncInv
<1> QED BY <1>1, SyncInductive, PTL

(* A masterchain block vouches for one block per shard: the proof that two   *)
(* blocks name is one stored block, whose configuration is sorted strictly.  *)
LEMMA OnePerProof == SyncInv => OneBlockPerProof
<1> SUFFICES ASSUME SyncInv, NEW b \in index, NEW c \in index, ~b.trusted, ~c.trusted,
                    b.proof # NoProof, b.proof = c.proof,
                    Header[b.hash].shard = Header[c.hash].shard
             PROVE  b = c
  BY DEF OneBlockPerProof
<1>1. ~IsMaster(b.hash) /\ ~IsMaster(c.hash)
  BY DEF SyncInv, IndexSound, RoleFieldsValid
<1>2. PICK m \in index : /\ m.hash = b.proof /\ IsMaster(m.hash)
                         /\ \E e \in m.extra : IsCanonical(e, b.hash)
  BY <1>1 DEF SyncInv, IndexIsConnected
<1>3. PICK k \in index : /\ k.hash = c.proof /\ IsMaster(k.hash)
                         /\ \E e \in k.extra : IsCanonical(e, c.hash)
  BY <1>1 DEF SyncInv, IndexIsConnected
<1>4. k = m
  BY <1>2, <1>3 DEF SyncInv, IndexSound
<1>5. PICK d \in Candidates \cup Anchors : m.extra = d.extra
  BY DEF SyncInv, SyncTypeOK, Stored
<1>6. /\ \A e, f \in m.extra : e = f
      /\ m.extra \subseteq Seq([shard : Nat, hash : Hashes, seq : Nat])
  BY <1>5, CandidateAssumption
<1>7. PICK e \in m.extra : IsCanonical(e, b.hash) /\ IsCanonical(e, c.hash)
  BY <1>2, <1>3, <1>4, <1>6
<1>8. ExtraSorted(e)
  BY <1>2, <1>7 DEF SyncInv, IndexSound, RoleFieldsValid
<1>9. PICK i \in DOMAIN e : e[i] = [shard |-> Header[b.hash].shard, hash |-> b.hash, seq |-> Header[b.hash].seq]
  BY <1>7 DEF IsCanonical
<1>10. PICK j \in DOMAIN e : e[j] = [shard |-> Header[c.hash].shard, hash |-> c.hash, seq |-> Header[c.hash].seq]
  BY <1>7 DEF IsCanonical
<1>11. e[i].shard = e[j].shard /\ e[i].hash = b.hash /\ e[j].hash = c.hash
  BY <1>9, <1>10
<1>12. /\ e[i].shard \in Nat /\ i \in Nat /\ j \in Nat
  <2> DEFINE Entry == [shard : Nat, hash : Hashes, seq : Nat]
  <2>1. e \in Seq(Entry)
    BY <1>6, <1>7
  <2> HIDE DEF Entry
  <2>2. DOMAIN e = 1..Len(e) /\ Len(e) \in Nat /\ e[i] \in Entry
    BY <2>1
  <2> QED BY <2>2 DEF Entry
<1>13. ~(i < j) /\ ~(j < i)
  BY <1>8, <1>11, <1>12 DEF ExtraSorted
<1> QED BY <1>13, <1>12, <1>11, <1>12 DEF SyncInv, IndexSound

(* validate_canonicality with a strictly sorted shard configuration: of two  *)
(* rival blocks of a shard only one enters on a masterchain block's word.    *)
THEOREM OneBlockPerMasterProof == SyncSpec => []OneBlockPerProof
  BY SyncInductive, OnePerProof, PTL

-----------------------------------------------------------------------------
(***************************************************************************)
(* Accounts.  The history of an account is what its balance and logical    *)
(* time follow from, through saving, loading, freezing and destruction.    *)
(***************************************************************************)

\* The history has an entry with logical time and type of a.
InHistory(a) == \E i \in DOMAIN applied : applied[i].lt = a.lt /\ applied[i].type = a.type

HistoryEntries == [lt : Times, delta : Deltas, type : {"Active", "Frozen", "Destroyed"}]

\* The last entry of the history is the account's state, and there is one as soon
\* as it has left "Uninitialized".
HistoryEndsHere ==
    /\ account.type = "Uninitialized" <=> applied = <<>>
    /\ applied # <<>> => applied[Len(applied)].type = account.type
    /\ IsHeld(account) => applied[Len(applied)].lt = account.lt

HistoryGrows ==
    \A i, j \in DOMAIN applied : i < j =>
        /\ applied[i].type # "Destroyed"
        /\ applied[j].type # "Destroyed" => applied[i].lt < applied[j].lt

AccountInv ==
    /\ account \in Accounts
    /\ applied \in Seq(HistoryEntries)
    /\ HistoryEndsHere
    /\ HistoryGrows
    /\ IsHeld(account) => account.balance <= Credited(applied)
    /\ \E a \in Accounts : record = ToBytes(a) /\ (IsHeld(a) => InHistory(a))
    /\ loaded \in Accounts \cup {Unreadable}
    /\ IsHeld(loaded) => InHistory(loaded)

LEMMA DeltasAreInts == Deltas \subseteq Int /\ Balances \subseteq Int /\ Times \subseteq Int
  BY AccountAssumption DEF Deltas, Balances, Times

LEMMA BalancesAreInts ==
    ASSUME NEW a \in Accounts
    PROVE  /\ balance_nanos(a) \in Int
           /\ IsHeld(a) => a.balance \in Int
<1>1. CASE a \in HeldAccounts
  <2>1. a.balance \in Balances
    BY <1>1 DEF HeldAccounts
  <2>2. a.balance \in Int
    BY <2>1, DeltasAreInts
  <2> QED BY <2>2 DEF balance_nanos
<1>2. CASE a \in {Uninitialized, Destroyed}
  <2>1. ~IsHeld(a)
    BY <1>2 DEF IsHeld, Uninitialized, Destroyed
  <2> QED BY <2>1 DEF balance_nanos
<1> QED BY <1>1, <1>2 DEF Accounts

LEMMA CreditedNothing == Credited(<<>>) = 0
<1> DEFINE f == [i \in 1 .. Len(<<>>) |-> <<>>[i].delta]
<1>1. Len(<<>>) = 0 /\ f \in [1 .. 0 -> Int]
  OBVIOUS
<1>2. SumTo(f, 0) = 0
  BY <1>1, SumToZero
<1> QED BY <1>1, <1>2 DEF Credited

LEMMA CreditedOneMore ==
    ASSUME NEW history \in Seq(HistoryEntries), NEW e \in HistoryEntries
    PROVE  /\ Credited(history) \in Int
           /\ Credited(Append(history, e)) = Credited(history) + e.delta
<1> DEFINE n == Len(history)
           longer == Append(history, e)
           m == Len(longer)
           f == [i \in 1 .. n |-> history[i].delta]
           g == [i \in 1 .. m |-> longer[i].delta]
<1>1. /\ n \in Nat /\ m \in Nat /\ m = n + 1 /\ longer[m] = e
      /\ \A i \in 1 .. n : longer[i] = history[i]
  OBVIOUS
<1>2. \A d \in HistoryEntries : d.delta \in Int
  BY DeltasAreInts DEF HistoryEntries
<1>3. f \in [1 .. n -> Int]
  BY <1>2
<1>4. g \in [1 .. m -> Int] /\ g[m] = e.delta
  <2>1. longer \in Seq(HistoryEntries)
    OBVIOUS
  <2> HIDE DEF longer
  <2> QED BY <1>1, <1>2, <2>1
<1>5. \A i \in 1 .. n : g[i] = f[i]
  <2> HIDE DEF longer
  <2> QED BY <1>1
<1> HIDE DEF f, g, n, m
<1>6. SumTo(g, m) = SumTo(f, n) + g[m]
  BY <1>1, <1>3, <1>4, <1>5, SumToNext
<1>7. SumTo(f, n) \in Int
  BY <1>1, <1>3, SumToType
<1>8. Credited(history) = SumTo(f, n) /\ Credited(longer) = SumTo(g, m)
  BY DEF Credited, f, g, n, m
<1> QED BY <1>4, <1>6, <1>7, <1>8

(* A record that is read in full gives the account it was made of; a cut one,
   or the rest of a shorter one, gives nothing. *)
LEMMA ReadBack ==
    ASSUME NEW a \in Accounts, NEW n \in 0 .. Len(ToBytes(a))
    PROVE  FromBytes(SubSeq(ToBytes(a), 1, n)) \in {a, Unreadable}
<1>1. CASE a = Uninitialized
  <2>1. ToBytes(a) = <<0>>
    BY <1>1 DEF ToBytes, IsHeld, Uninitialized, Tag
  <2>2. n \in {0, 1}
    BY <2>1
  <2> DEFINE c == SubSeq(<<0>>, 1, n)
  <2>3. n = 0 => c = <<>>
    OBVIOUS
  <2>4. n = 1 => c # <<>> /\ c[1] = 0
    OBVIOUS
  <2> HIDE DEF c
  <2>5. FromBytes(c) \in {Uninitialized, Unreadable}
    BY <2>2, <2>3, <2>4 DEF FromBytes
  <2> QED BY <1>1, <2>1, <2>5 DEF c
<1>2. CASE a = Destroyed
  <2>1. ToBytes(a) = <<3>>
    BY <1>2 DEF ToBytes, IsHeld, Destroyed, Tag
  <2>2. n \in {0, 1}
    BY <2>1
  <2> DEFINE c == SubSeq(<<3>>, 1, n)
  <2>3. n = 0 => c = <<>>
    OBVIOUS
  <2>4. n = 1 => c # <<>> /\ c[1] = 3
    OBVIOUS
  <2> HIDE DEF c
  <2>5. FromBytes(c) \in {Destroyed, Unreadable}
    BY <2>2, <2>3, <2>4 DEF FromBytes
  <2> QED BY <1>2, <2>1, <2>5 DEF c
<1>3. CASE a \in HeldAccounts
  <2> DEFINE tag == IF a.type = "Active" THEN 1 ELSE 2
             b == <<tag, a.balance, a.lt, a.body>>
  <2>1. ToBytes(a) = b
    BY <1>3 DEF ToBytes, IsHeld, HeldAccounts, Tag
  <2>2. n \in 0 .. 4 /\ tag \in {1, 2}
    BY <2>1
  <2>3. CASE n = 0
    <3>1. SubSeq(b, 1, n) = <<>>
      BY <2>3
    <3> QED BY <2>1, <3>1 DEF FromBytes
  <2>4. CASE n \in 1 .. 3
    <3> DEFINE c == SubSeq(b, 1, n)
    <3>1. c # <<>> /\ c[1] = tag /\ Len(c) = n
      BY <2>4
    <3> HIDE DEF c, tag
    <3>2. FromBytes(c) = Unreadable
      BY <2>2, <2>4, <3>1 DEF FromBytes
    <3> QED BY <2>1, <3>2 DEF c
  <2>5. CASE n = 4
    <3> DEFINE c == SubSeq(b, 1, n)
    <3>1. c # <<>> /\ c[1] = tag /\ c[2] = a.balance /\ c[3] = a.lt /\ c[4] = a.body /\ Len(c) = 4
      BY <2>5
    <3>2. FromBytes(c) = [type |-> IF tag = 1 THEN "Active" ELSE "Frozen",
                          balance |-> a.balance, lt |-> a.lt, body |-> a.body]
      <4> HIDE DEF b, tag, c
      <4> QED BY <2>2, <3>1 DEF FromBytes
    <3>3. a = [type |-> IF tag = 1 THEN "Active" ELSE "Frozen",
               balance |-> a.balance, lt |-> a.lt, body |-> a.body]
      BY <1>3 DEF HeldAccounts
    <3> HIDE DEF b, tag
    <3> QED BY <2>1, <3>2, <3>3
  <2> QED BY <2>2, <2>3, <2>4, <2>5
<1> QED BY <1>1, <1>2, <1>3 DEF Accounts

-----------------------------------------------------------------------------
LEMMA AccountInitInv == AccountInit => AccountInv
<1> SUFFICES ASSUME AccountInit PROVE AccountInv
  OBVIOUS
<1>1. account = Uninitialized /\ record = ToBytes(Uninitialized) /\ applied = <<>> /\ loaded = Uninitialized
  BY DEF AccountInit
<1>2. Uninitialized \in Accounts /\ ~IsHeld(Uninitialized) /\ Uninitialized.type = "Uninitialized"
  BY DEF Accounts, IsHeld, Uninitialized
<1>3. applied \in Seq(HistoryEntries) /\ DOMAIN applied = {}
  BY <1>1
<1>4. HistoryEndsHere
  BY <1>1, <1>2 DEF HistoryEndsHere
<1>5. HistoryGrows
  BY <1>3 DEF HistoryGrows
<1> QED BY <1>1, <1>2, <1>3, <1>4, <1>5 DEF AccountInv

(* What a valid transition does to the balance: it never gains more than the
   delta. *)
LEMMA BalanceFollows ==
    ASSUME NEW a \in Accounts, NEW next \in Accounts, IsHeld(next), NEW lt \in Times, NEW delta \in Deltas,
           TransitionWithDeltaValid(a, next, lt, delta)
    PROVE  next.balance <= balance_nanos(a) + delta
<1>1. balance_nanos(a) \in Int /\ delta \in Int /\ MaxBalance \in Int
  BY BalancesAreInts, DeltasAreInts, AccountAssumption
<1>2. next.balance = NextBalance(a, delta)
  BY DEF TransitionWithDeltaValid
<1> QED BY <1>1, <1>2 DEF NextBalance

LEMMA TransactStep ==
    ASSUME AccountInv, NEW next \in Accounts, NEW lt \in Times, NEW delta \in Deltas,
           Transact(next, lt, delta)
    PROVE  AccountInv'
<1> DEFINE e == [lt |-> lt, delta |-> delta, type |-> next.type]
           n == Len(applied)
<1>1. /\ TransitionValid(account, next, lt) /\ TransitionWithDeltaValid(account, next, lt, delta)
      /\ account' = next /\ record' = record /\ loaded' = loaded
  BY DEF Transact, TransitionWithDeltaValid
<1>2. account \in Accounts /\ applied \in Seq(HistoryEntries) /\ n \in Nat /\ DOMAIN applied = 1 .. n
  BY DEF AccountInv
<1>3. CASE next = account
  <2>1. applied' = applied
    BY <1>3 DEF Transact
  <2> QED BY <1>1, <1>3, <2>1 DEF AccountInv, HistoryEndsHere, HistoryGrows, InHistory
<1>4. CASE next # account
  <2>1. applied' = Append(applied, e)
    BY <1>4 DEF Transact
  <2>2. \/ account.type = "Uninitialized" /\ next.type = "Active" /\ next.lt = lt
        \/ IsHeld(account) /\ IsHeld(next) /\ account.lt < lt /\ next.lt = lt
        \/ IsHeld(account) /\ next.type = "Destroyed"
    <3>1. account.type = "Uninitialized" /\ next.type = "Uninitialized" => account = next
      BY <1>2 DEF Accounts, HeldAccounts, Uninitialized, Destroyed
    <3> QED BY <1>1, <1>4, <3>1 DEF TransitionValid, LtFollows
  <2>3. e \in HistoryEntries /\ e.lt = lt /\ e.type = next.type /\ e.delta = delta
    BY <2>2 DEF HistoryEntries, IsHeld
  <2> HIDE DEF e
  <2>4. /\ applied' \in Seq(HistoryEntries) /\ Len(applied') = n + 1 /\ DOMAIN applied' = 1 .. n + 1
        /\ applied'[n + 1] = e /\ \A i \in 1 .. n : applied'[i] = applied[i]
    BY <1>2, <2>1, <2>3
  <2> HIDE DEF n
  <2>5. \A a : InHistory(a) => InHistory(a)'
    BY <1>2, <2>4 DEF InHistory
  <2>6. HistoryEndsHere'
    <3>1. n + 1 # 0 /\ applied' # <<>>
      BY <1>2, <2>4
    <3>2. next.type # "Uninitialized"
      BY <2>2 DEF IsHeld
    <3>3. IsHeld(next) => next.lt = lt
      BY <2>2 DEF IsHeld
    <3> QED BY <1>1, <2>3, <2>4, <3>1, <3>2, <3>3 DEF HistoryEndsHere
  <2>7. HistoryGrows'
    <3>1. \A i \in 1 .. n : applied[i].lt \in Int /\ lt \in Int
      <4>1. \A d \in HistoryEntries : d.lt \in Times
        BY DEF HistoryEntries
      <4>2. \A i \in 1 .. n : applied[i] \in HistoryEntries
        BY <1>2
      <4> QED BY <4>1, <4>2, DeltasAreInts
    <3>2. ASSUME NEW i \in 1 .. n
          PROVE  applied[i].type # "Destroyed" /\ (e.type # "Destroyed" => applied[i].lt < e.lt)
      <4>0. applied # <<>> /\ n \in 1 .. n
        BY <1>2 DEF n
      <4>1. account.type # "Uninitialized" /\ applied[n].type = account.type
        BY <4>0 DEF AccountInv, HistoryEndsHere, n
      <4>2. IsHeld(account) /\ applied[n].lt = account.lt /\ applied[n].type # "Destroyed"
        BY <2>2, <4>1 DEF AccountInv, HistoryEndsHere, IsHeld, n
      <4>3. e.type # "Destroyed" => applied[n].lt < e.lt
        BY <2>2, <2>3, <4>1, <4>2
      <4>4. CASE i = n
        BY <4>2, <4>3, <4>4
      <4>5. CASE i # n
        <5>1. i < n
          BY <1>2, <4>5
        <5>2. applied[i].type # "Destroyed" /\ (applied[n].type # "Destroyed" => applied[i].lt < applied[n].lt)
          BY <1>2, <4>0, <5>1 DEF AccountInv, HistoryGrows
        <5> QED BY <2>3, <3>1, <4>0, <4>2, <4>3, <5>2
      <4> QED BY <4>4, <4>5
    <3>3. SUFFICES ASSUME NEW i \in 1 .. n + 1, NEW j \in 1 .. n + 1, i < j
                   PROVE  /\ applied'[i].type # "Destroyed"
                          /\ applied'[j].type # "Destroyed" => applied'[i].lt < applied'[j].lt
      BY <2>4 DEF HistoryGrows
    <3>4. i \in 1 .. n /\ (j \in 1 .. n \/ j = n + 1)
      BY <1>2, <3>3
    <3>5. CASE j = n + 1
      BY <2>4, <3>2, <3>4, <3>5
    <3>6. CASE j \in 1 .. n
      BY <1>2, <2>4, <3>3, <3>4, <3>6 DEF AccountInv, HistoryGrows
    <3> QED BY <3>4, <3>5, <3>6
  <2>8. IsHeld(next) => next.balance <= Credited(applied')
    <3> SUFFICES ASSUME IsHeld(next) PROVE next.balance <= Credited(applied')
      OBVIOUS
    <3>1. next.balance <= balance_nanos(account) + delta
      BY <1>1, <1>2, BalanceFollows
    <3>2. Credited(applied) \in Int /\ Credited(applied') = Credited(applied) + delta
      BY <1>2, <2>1, <2>3, CreditedOneMore
    <3>3. balance_nanos(account) <= Credited(applied)
      <4>1. CASE IsHeld(account)
        BY <4>1 DEF balance_nanos, AccountInv
      <4>2. CASE ~IsHeld(account)
        <5>1. applied = <<>>
          BY <2>2, <4>2 DEF AccountInv, HistoryEndsHere
        <5> QED BY <4>2, <5>1, CreditedNothing DEF balance_nanos
      <4> QED BY <4>1, <4>2
    <3>4. next.balance \in Int /\ balance_nanos(account) \in Int /\ delta \in Int
      BY <1>2, BalancesAreInts, DeltasAreInts
    <3> QED BY <3>1, <3>2, <3>3, <3>4
  <2> QED BY <1>1, <2>4, <2>5, <2>6, <2>7, <2>8 DEF AccountInv
<1> QED BY <1>3, <1>4

LEMMA SaveStep ==
    ASSUME AccountInv, Save
    PROVE  AccountInv'
<1>1. record' = ToBytes(account) /\ account' = account /\ applied' = applied /\ loaded' = loaded
  BY DEF Save
<1>2. account \in Accounts /\ (IsHeld(account) => InHistory(account))
  <2>1. ASSUME IsHeld(account) PROVE InHistory(account)
    <3>1. applied \in Seq(HistoryEntries) /\ applied # <<>>
      BY <2>1 DEF AccountInv, HistoryEndsHere, IsHeld
    <3>2. Len(applied) \in DOMAIN applied
      BY <3>1
    <3> QED BY <2>1, <3>1, <3>2 DEF AccountInv, HistoryEndsHere, InHistory
  <2> QED BY <2>1 DEF AccountInv
<1>3. \E a \in Accounts : record' = ToBytes(a) /\ (IsHeld(a) => InHistory(a)')
  BY <1>1, <1>2 DEF InHistory
<1> QED BY <1>1, <1>3 DEF AccountInv, HistoryEndsHere, HistoryGrows, InHistory

LEMMA LoadStep ==
    ASSUME AccountInv, NEW n \in 0 .. Len(record), Load(n)
    PROVE  AccountInv'
<1>1. /\ loaded' = FromBytes(SubSeq(record, 1, n))
      /\ account' = account /\ record' = record /\ applied' = applied
  BY DEF Load
<1>2. PICK a \in Accounts : record = ToBytes(a) /\ (IsHeld(a) => InHistory(a))
  BY DEF AccountInv
<1>3. loaded' \in {a, Unreadable}
  BY <1>1, <1>2, ReadBack
<1>4. loaded' \in Accounts \cup {Unreadable} /\ (IsHeld(loaded') => InHistory(loaded'))
  BY <1>2, <1>3 DEF IsHeld, Unreadable
<1>5. (IsHeld(loaded) => InHistory(loaded))'
  BY <1>1, <1>4 DEF InHistory
<1> QED BY <1>1, <1>2, <1>4, <1>5 DEF AccountInv, HistoryEndsHere, HistoryGrows, InHistory

LEMMA AccountStepInv == AccountInv /\ [AccountNext]_accountVars => AccountInv'
<1> SUFFICES ASSUME AccountInv, [AccountNext]_accountVars PROVE AccountInv'
  OBVIOUS
<1>1. ASSUME NEW next \in Accounts, NEW lt \in Times, NEW delta \in Deltas, Transact(next, lt, delta)
      PROVE  AccountInv'
  BY <1>1, TransactStep
<1>2. CASE Save
  BY <1>2, SaveStep
<1>3. ASSUME NEW n \in 0 .. Len(record), Load(n) PROVE AccountInv'
  BY <1>3, LoadStep
<1>4. CASE UNCHANGED accountVars
  BY <1>4 DEF accountVars, AccountInv, HistoryEndsHere, HistoryGrows, InHistory
<1> QED BY <1>1, <1>2, <1>3, <1>4 DEF AccountNext

LEMMA AccountInvImplies == AccountInv => AccountTypeOK /\ AccountHistorySound
<1>1. AccountInv => AccountTypeOK
  BY DEF AccountInv, AccountTypeOK, HistoryEntries
<1>2. AccountInv => AccountHistorySound
  BY DEF AccountInv, AccountHistorySound, HistoryGrows, InHistory
<1> QED BY <1>1, <1>2

(* AccountInv holds through transactions, saves and loads. *)
THEOREM AccountInductive == AccountSpec => []AccountInv
  BY AccountInitInv, AccountStepInv, PTL DEF AccountSpec

(* The account, its record and its history keep their types. *)
THEOREM AccountTypeCorrect == AccountSpec => []AccountTypeOK
  BY AccountInductive, AccountInvImplies, PTL

(* AccountHistorySound, for balances, times and histories of every length:  *)
(* logical time grows up to a destruction, nothing follows one, the balance *)
(* never exceeds what was credited, and a record read in full is one the    *)
(* account once had.                                                        *)
THEOREM HistoryHolds == AccountSpec => []AccountHistorySound
  BY AccountInductive, AccountInvImplies, PTL

-----------------------------------------------------------------------------
(***************************************************************************)
(* Shards.  Splits and merges keep the shards a partition of the accounts, *)
(* for every depth, longest prefix and genesis that starts as one, whatever*)
(* announcements, load and rotations lead to them, and lose nothing that a *)
(* shard holds.                                                            *)
(***************************************************************************)

(* One shard contains the account.                                          *)
HasOneOwner(active, a) == \E s \in active : \A t \in active : ContainsAccount(t, a) <=> t = s

PartitionInv ==
    /\ DOMAIN shards \subseteq Shards
    /\ \A a \in AccountIds : HasOneOwner(DOMAIN shards, a)

(* Shards and accounts as sequences of bits.                                *)
LEMMA ShardsAreSequences ==
    ASSUME NEW s
    PROVE  s \in Shards <=> s \in Seq(Bits) /\ Len(s) <= MaxPrefix
<1>0. MaxPrefix \in Nat
  BY ShardAssumption, DepthAssumption
<1>1. ASSUME s \in Shards PROVE s \in Seq(Bits) /\ Len(s) <= MaxPrefix
  <2>1. PICK n \in 0..MaxPrefix : s \in [1..n -> Bits]
    BY <1>1 DEF Shards
  <2>2. n \in Nat
    BY <1>0
  <2>3. s \in Seq(Bits) /\ Len(s) = n
    BY <2>1, <2>2
  <2> QED BY <2>2, <2>3, <1>0
<1>2. ASSUME s \in Seq(Bits), Len(s) <= MaxPrefix PROVE s \in Shards
  <2>1. Len(s) \in 0..MaxPrefix /\ s \in [1..Len(s) -> Bits]
    BY <1>0, <1>2
  <2> QED BY <2>1 DEF Shards
<1> QED BY <1>1, <1>2

LEMMA AccountsAreSequences ==
    ASSUME NEW a \in AccountIds
    PROVE  a \in Seq(Bits) /\ Len(a) = Depth
<1>1. a \in [1..Depth -> Bits] /\ Depth \in Nat
  BY DepthAssumption DEF AccountIds
<1> QED BY <1>1

(* contains_account, bit by bit.                                            *)
LEMMA ContainsBitwise ==
    ASSUME NEW s \in Seq(Bits), NEW a \in Seq(Bits)
    PROVE  ContainsAccount(s, a) <=> Len(s) <= Len(a) /\ \A i \in 1..Len(s) : s[i] = a[i]
<1>0. Len(s) \in Nat /\ Len(a) \in Nat
  OBVIOUS
<1>1. ASSUME Len(s) <= Len(a)
      PROVE  SubSeq(s, 1, Len(s)) = SubSeq(a, 1, Len(s)) <=> \A i \in 1..Len(s) : s[i] = a[i]
  <2>1. /\ SubSeq(s, 1, Len(s)) = [i \in 1..Len(s) |-> s[i]]
        /\ SubSeq(a, 1, Len(s)) = [i \in 1..Len(s) |-> a[i]]
    BY <1>0, <1>1
  <2> QED BY <2>1
<1> QED BY <1>1 DEF ContainsAccount, IsPrefix

(* A child contains the accounts of its shard whose next bit is its own.    *)
LEMMA ChildContains ==
    ASSUME NEW s \in Seq(Bits), Len(s) < Depth, NEW b \in Bits, NEW a \in AccountIds
    PROVE  ContainsAccount(Append(s, b), a) <=> ContainsAccount(s, a) /\ a[Len(s) + 1] = b
<1>0. a \in Seq(Bits) /\ Len(a) = Depth /\ Depth \in Nat /\ Len(s) \in Nat
  BY AccountsAreSequences, DepthAssumption
<1>1. /\ Append(s, b) \in Seq(Bits) /\ Len(Append(s, b)) = Len(s) + 1
      /\ Append(s, b)[Len(s) + 1] = b /\ \A i \in 1..Len(s) : Append(s, b)[i] = s[i]
  <2>1. Append(s, b) \in Seq(Bits) /\ Len(Append(s, b)) = Len(s) + 1
    OBVIOUS
  <2>2. Append(s, b)[Len(s) + 1] = b
    OBVIOUS
  <2>3. ASSUME NEW i \in 1..Len(s) PROVE Append(s, b)[i] = s[i]
    OBVIOUS
  <2> QED BY <2>1, <2>2, <2>3
<1>2. ContainsAccount(s, a) <=> \A i \in 1..Len(s) : s[i] = a[i]
  BY <1>0, ContainsBitwise
<1>3. ContainsAccount(Append(s, b), a) <=> \A i \in 1..(Len(s) + 1) : Append(s, b)[i] = a[i]
  <2> DEFINE c == Append(s, b)
  <2>1. c \in Seq(Bits) /\ Len(c) = Len(s) + 1
    BY <1>1
  <2> HIDE DEF c
  <2>2. ContainsAccount(c, a) <=> Len(c) <= Len(a) /\ \A i \in 1..Len(c) : c[i] = a[i]
    BY <1>0, <2>1, ContainsBitwise, Zenon
  <2>3. Len(c) <= Len(a)
    BY <1>0, <2>1
  <2>4. ContainsAccount(c, a) <=> \A i \in 1..(Len(s) + 1) : c[i] = a[i]
    BY <2>1, <2>2, <2>3, Zenon
  <2> QED BY <2>4 DEF c
<1> QED BY <1>0, <1>1, <1>2, <1>3

(* The property is what the invariant says of each account.                 *)
LEMMA OneOwnerCounts ==
    ASSUME NEW active, NEW a, HasOneOwner(active, a)
    PROVE  Cardinality({s \in active : ContainsAccount(s, a)}) = 1
<1>1. PICK s \in active : \A t \in active : ContainsAccount(t, a) <=> t = s
  BY DEF HasOneOwner
<1>2. {t \in active : ContainsAccount(t, a)} = {s}
  BY <1>1
<1> QED BY <1>2, FS_Singleton

-----------------------------------------------------------------------------
(* Transitions *)

(* Replacing some shards by others that contain, between them and once      *)
(* each, the same accounts.                                                 *)
LEMMA ReplaceKeepsOwners ==
    ASSUME NEW active, NEW old, old \subseteq active, NEW new, NEW a,
           HasOneOwner(active, a),
           (\E s \in old : ContainsAccount(s, a)) => HasOneOwner(new, a),
           (\A s \in old : ~ContainsAccount(s, a)) => \A s \in new : ~ContainsAccount(s, a)
    PROVE  HasOneOwner((active \ old) \cup new, a)
<1>1. PICK s \in active : \A t \in active : ContainsAccount(t, a) <=> t = s
  BY DEF HasOneOwner
<1>2. CASE s \in old
  <2>1. PICK n \in new : \A t \in new : ContainsAccount(t, a) <=> t = n
    BY <1>1, <1>2 DEF HasOneOwner
  <2>2. \A t \in (active \ old) \cup new : ContainsAccount(t, a) <=> t = n
    BY <1>1, <1>2, <2>1
  <2> QED BY <2>2 DEF HasOneOwner
<1>3. CASE s \notin old
  <2>1. \A t \in new : ~ContainsAccount(t, a)
    BY <1>1, <1>3
  <2>2. \A t \in (active \ old) \cup new : ContainsAccount(t, a) <=> t = s
    BY <1>1, <1>3, <2>1
  <2> QED BY <1>3, <2>2 DEF HasOneOwner
<1> QED BY <1>2, <1>3

LEMMA SplitInv ==
    ASSUME PartitionInv, NEW s \in DOMAIN shards, Split(s)
    PROVE  PartitionInv'
<1>0. /\ s \in Seq(Bits) /\ Len(s) < MaxPrefix /\ MaxPrefix <= Depth
      /\ MaxPrefix \in Nat /\ Depth \in Nat /\ Len(s) \in Nat
  BY ShardsAreSequences, ShardAssumption, DepthAssumption DEF PartitionInv, Split
<1>1. DOMAIN shards' = (DOMAIN shards \ {s}) \cup Children(s)
  BY DEF Split, Replace, SplitState
<1>2. Children(s) \subseteq Shards
  <2>1. \A b \in Bits : Append(s, b) \in Seq(Bits) /\ Len(Append(s, b)) <= MaxPrefix
    BY <1>0
  <2>2. \A b \in Bits : Append(s, b) \in Shards
    BY <2>1, ShardsAreSequences
  <2> QED BY <2>2 DEF Children, Bits
<1>3. ASSUME NEW a \in AccountIds PROVE HasOneOwner(DOMAIN shards', a)
  <2>1. \A b \in Bits : ContainsAccount(Append(s, b), a) <=> ContainsAccount(s, a) /\ a[Len(s) + 1] = b
    BY <1>0, ChildContains
  <2>2. a[Len(s) + 1] \in Bits
    BY <1>0 DEF AccountIds
  <2>3. ContainsAccount(s, a) => HasOneOwner(Children(s), a)
    <3> SUFFICES ASSUME ContainsAccount(s, a) PROVE HasOneOwner(Children(s), a)
      OBVIOUS
    <3> DEFINE c == Append(s, a[Len(s) + 1])
    <3>1. c \in Children(s)
      BY <2>2 DEF Children, Bits
    <3>2. \A t \in Children(s) : ContainsAccount(t, a) <=> t = c
      <4> SUFFICES ASSUME NEW b \in Bits PROVE ContainsAccount(Append(s, b), a) <=> Append(s, b) = c
        BY DEF Children, Bits
      <4>1. b = a[Len(s) + 1] => Append(s, b) = c
        OBVIOUS
      <4>2. Append(s, b) = c => b = a[Len(s) + 1]
        <5>1. Append(s, b)[Len(s) + 1] = b
          BY <1>0
        <5>2. c[Len(s) + 1] = a[Len(s) + 1]
          BY <1>0
        <5> HIDE DEF c
        <5> QED BY <5>1, <5>2
      <4> QED BY <2>1, <4>1, <4>2
    <3> QED BY <3>1, <3>2 DEF HasOneOwner
  <2>4. ~ContainsAccount(s, a) => \A c \in Children(s) : ~ContainsAccount(c, a)
    BY <2>1 DEF Children, Bits
  <2>5. HasOneOwner(DOMAIN shards, a)
    BY DEF PartitionInv
  <2>6. HasOneOwner((DOMAIN shards \ {s}) \cup Children(s), a)
    <3>1. {s} \subseteq DOMAIN shards
      OBVIOUS
    <3>2. (\E u \in {s} : ContainsAccount(u, a)) => HasOneOwner(Children(s), a)
      BY <2>3
    <3>3. (\A u \in {s} : ~ContainsAccount(u, a)) => \A u \in Children(s) : ~ContainsAccount(u, a)
      BY <2>4
    <3> QED BY <2>5, <3>1, <3>2, <3>3, ReplaceKeepsOwners, Zenon
  <2> QED BY <1>1, <2>6
<1> QED BY <1>1, <1>2, <1>3 DEF PartitionInv

(* The parent of two siblings contains what either of them does.            *)
LEMMA ParentContains ==
    ASSUME NEW s \in Shards, NEW t \in Shards, Siblings(s, t)
    PROVE  /\ Front(s) \in Shards
           /\ \A a \in AccountIds :
                  ContainsAccount(Front(s), a) <=> ContainsAccount(s, a) \/ ContainsAccount(t, a)
<1> DEFINE p == Front(s)
           k == Len(s)
<1>0. /\ s \in Seq(Bits) /\ t \in Seq(Bits) /\ Len(s) <= MaxPrefix /\ MaxPrefix <= Depth
      /\ MaxPrefix \in Nat /\ Depth \in Nat
  BY ShardsAreSequences, ShardAssumption, DepthAssumption
<1>1. Len(t) = k /\ k > 0 /\ k \in Nat /\ s # t /\ Front(t) = p
  BY <1>0 DEF Siblings
<1>2. /\ p \in Seq(Bits) /\ Len(p) = k - 1
      /\ \A i \in 1..(k - 1) : p[i] = s[i] /\ p[i] = t[i]
  <2>1. p = [i \in 1..(k - 1) |-> s[i]] /\ p = [i \in 1..(k - 1) |-> t[i]]
    BY <1>0, <1>1 DEF Front
  <2>2. p \in [1..(k - 1) -> Bits] /\ k - 1 \in Nat
    BY <1>0, <1>1, <2>1
  <2>3. p \in Seq(Bits) /\ Len(p) = k - 1
    BY <2>2
  <2> QED BY <2>1, <2>3
<1>3. s[k] \in Bits /\ t[k] \in Bits /\ s[k] # t[k]
  <2>1. s[k] \in Bits /\ t[k] \in Bits
    BY <1>0, <1>1
  <2>2. ASSUME s[k] = t[k] PROVE FALSE
    <3>1. \A i \in 1..k : s[i] = t[i]
      BY <1>1, <1>2, <2>2
    <3>2. s \in [1..k -> Bits] /\ t \in [1..k -> Bits]
      BY <1>0, <1>1
    <3>3. s = t
      BY <3>1, <3>2
    <3> QED BY <1>1, <3>3
  <2> QED BY <2>1, <2>2
<1> HIDE DEF p, k
<1>5. p \in Shards
  BY <1>0, <1>1, <1>2, ShardsAreSequences DEF k
<1>6. ASSUME NEW a \in AccountIds
      PROVE  ContainsAccount(p, a) <=> ContainsAccount(s, a) \/ ContainsAccount(t, a)
  <2>0. a \in Seq(Bits) /\ Len(a) = Depth /\ k \in 1..Depth
    BY <1>0, <1>1, AccountsAreSequences DEF k
  <2>1. a[k] \in Bits
    BY <2>0
  <2>2. ContainsAccount(p, a) <=> \A i \in 1..(k - 1) : p[i] = a[i]
    <3>1. ContainsAccount(p, a) <=> Len(p) <= Len(a) /\ \A i \in 1..Len(p) : p[i] = a[i]
      BY <1>2, <2>0, ContainsBitwise
    <3>2. Len(p) = k - 1 /\ Len(p) <= Len(a)
      BY <1>0, <1>2, <2>0
    <3> QED BY <3>1, <3>2
  <2>3. ContainsAccount(s, a) <=> \A i \in 1..k : s[i] = a[i]
    BY <1>0, <2>0, ContainsBitwise DEF k
  <2>4. ContainsAccount(t, a) <=> \A i \in 1..k : t[i] = a[i]
    BY <1>0, <1>1, <2>0, ContainsBitwise
  <2>5. s[k] = a[k] \/ t[k] = a[k]
    BY <1>3, <2>1 DEF Bits
  <2> QED BY <1>1, <1>2, <2>2, <2>3, <2>4, <2>5
<1> QED BY <1>5, <1>6 DEF p

LEMMA MergeInv ==
    ASSUME PartitionInv, NEW s \in DOMAIN shards, NEW t \in DOMAIN shards, Merge(s, t)
    PROVE  PartitionInv'
<1> DEFINE p == Front(s)
<1>1. s \in Shards /\ t \in Shards /\ Siblings(s, t)
  BY DEF PartitionInv, Merge
<1>2. DOMAIN shards' = (DOMAIN shards \ {s, t}) \cup {p}
  BY DEF Merge, Replace
<1>3. p \in Shards /\ \A a \in AccountIds : ContainsAccount(p, a) <=> ContainsAccount(s, a) \/ ContainsAccount(t, a)
  BY <1>1, ParentContains
<1> HIDE DEF p
<1>4. ASSUME NEW a \in AccountIds PROVE HasOneOwner(DOMAIN shards', a)
  <2>1. (\E u \in {s, t} : ContainsAccount(u, a)) => HasOneOwner({p}, a)
    BY <1>3 DEF HasOneOwner
  <2>2. (\A u \in {s, t} : ~ContainsAccount(u, a)) => \A u \in {p} : ~ContainsAccount(u, a)
    BY <1>3
  <2>3. HasOneOwner(DOMAIN shards, a)
    BY DEF PartitionInv
  <2>4. HasOneOwner((DOMAIN shards \ {s, t}) \cup {p}, a)
    <3>1. {s, t} \subseteq DOMAIN shards
      OBVIOUS
    <3> QED BY <2>1, <2>2, <2>3, <3>1, ReplaceKeepsOwners, Zenon
  <2> QED BY <1>2, <2>4
<1> QED BY <1>2, <1>3, <1>4 DEF PartitionInv

LEMMA ShardStep == PartitionInv /\ [ShardNext]_shardVars => PartitionInv'
<1> SUFFICES ASSUME PartitionInv, [ShardNext]_shardVars PROVE PartitionInv'
  OBVIOUS
<1>1. ASSUME NEW s \in DOMAIN shards, Split(s) PROVE PartitionInv'
  BY <1>1, SplitInv
<1>2. ASSUME NEW s \in DOMAIN shards, NEW t \in DOMAIN shards, Merge(s, t) PROVE PartitionInv'
  BY <1>2, MergeInv
<1>3. CASE DOMAIN shards' = DOMAIN shards
  BY <1>3 DEF PartitionInv
<1>4. ASSUME NEW s \in DOMAIN shards, NEW a \in Owners, CreateAccount(s, a)
      PROVE  DOMAIN shards' = DOMAIN shards
  BY <1>4 DEF CreateAccount
<1>5. ASSUME NEW s \in DOMAIN shards, NEW m \in Pending, Arrive(s, m)
      PROVE  DOMAIN shards' = DOMAIN shards
  BY <1>5 DEF Arrive
<1>6. ASSUME NEW sample, CommitBlock(sample) PROVE DOMAIN shards' = DOMAIN shards
  BY <1>6 DEF CommitBlock
<1>7. ASSUME RotateAssignment PROVE DOMAIN shards' = DOMAIN shards
  BY <1>7 DEF RotateAssignment
<1>8. ASSUME NEW s, NEW kind, Prepare(s, kind) \/ Lapse(s) PROVE DOMAIN shards' = DOMAIN shards
  BY <1>8 DEF Prepare, Lapse
<1>9. ASSUME UNCHANGED shardVars PROVE DOMAIN shards' = DOMAIN shards
  BY <1>9 DEF shardVars
<1> QED BY <1>1, <1>2, <1>3, <1>4, <1>5, <1>6, <1>7, <1>8, <1>9 DEF ShardNext

-----------------------------------------------------------------------------
(* The sort *)

\* r holds what q has at these places, each once.
Selects(r, q, places) ==
    /\ DOMAIN r = 1 .. Len(r) /\ Len(r) \in Nat
    /\ \A p \in DOMAIN r : \E i \in places : r[p] = q[i]
    /\ \A i \in places : \E p \in DOMAIN r : r[p] = q[i]
    /\ (\A i, j \in places : q[i] = q[j] => i = j) => \A p, o \in DOMAIN r : r[p] = r[o] => p = o

LEMMA SortedSelects ==
    ASSUME NEW q \in Seq(Pending), NEW places \in SUBSET DOMAIN q
    PROVE  Selects(Sorted(q, places), q, places) /\ Sorted(q, places) \in Seq(Pending)
<1> DEFINE R == {x \in places \X places : GoesBefore(q, x[1], x[2])}
           n == Cardinality(places)
           at(p) == CHOOSE i \in places : Cardinality({j \in places : GoesBefore(q, j, i)}) = p - 1
           r == [p \in 1 .. n |-> q[at(p)]]
<1>0. DOMAIN q = 1 .. Len(q) /\ Len(q) \in Nat
  OBVIOUS
<1>1. \A i \in places : i \in Nat /\ q[i] \in Pending /\ q[i].lt \in Nat /\ q[i].id \in Nat
  <2>1. \A i \in DOMAIN q : i \in Nat /\ q[i] \in Pending
    BY <1>0
  <2> QED BY <2>1, ShardAssumption
<1>2. IsFiniteSet(places) /\ n \in Nat
  <2>1. IsFiniteSet(1 .. Len(q))
    BY <1>0, FS_Interval
  <2>2. places \in SUBSET (1 .. Len(q))
    BY <1>0
  <2>3. IsFiniteSet(places)
    BY <2>1, <2>2, FS_Subset
  <2> QED BY <2>3, FS_CardinalityType
<1>3. \A i, j \in places : <<j, i>> \in R <=> GoesBefore(q, j, i)
  OBVIOUS
<1>4. StrictlyOrders(R, places)
  <2> HIDE DEF R
  <2>1. \A i \in places : ~GoesBefore(q, i, i)
    BY <1>1 DEF GoesBefore
  <2>2. \A i, j, k \in places : GoesBefore(q, i, j) /\ GoesBefore(q, j, k) => GoesBefore(q, i, k)
    BY <1>1 DEF GoesBefore
  <2>3. \A i, j \in places : i = j \/ GoesBefore(q, i, j) \/ GoesBefore(q, j, i)
    BY <1>1 DEF GoesBefore
  <2> QED BY <1>3, <2>1, <2>2, <2>3 DEF StrictlyOrders
<1>5. \A i \in places : Before(i, places, R) = {j \in places : GoesBefore(q, j, i)}
  <2> HIDE DEF R
  <2> QED BY <1>3 DEF Before
<1> HIDE DEF R
<1>6. /\ \A i \in places : Cardinality(Before(i, places, R)) \in 0 .. n - 1
      /\ \A i, j \in places : Cardinality(Before(i, places, R)) = Cardinality(Before(j, places, R)) => i = j
      /\ \A k \in 0 .. n - 1 : \E i \in places : Cardinality(Before(i, places, R)) = k
  BY <1>2, <1>4, EveryPlaceTaken
<1>7. \A p \in 1 .. n : at(p) \in places /\ Cardinality(Before(at(p), places, R)) = p - 1
  <2> TAKE p \in 1 .. n
  <2>1. p - 1 \in 0 .. n - 1
    BY <1>2
  <2>2. \E i \in places : Cardinality({j \in places : GoesBefore(q, j, i)}) = p - 1
    BY <1>5, <1>6, <2>1
  <2>3. at(p) \in places /\ Cardinality({j \in places : GoesBefore(q, j, at(p))}) = p - 1
    BY <2>2
  <2> QED BY <1>5, <2>3
<1>8. Sorted(q, places) = r
  BY DEF Sorted
<1> HIDE DEF at
<1>9. DOMAIN r = 1 .. n /\ \A p \in 1 .. n : r[p] = q[at(p)]
  OBVIOUS
<1>10. r \in [1 .. n -> Pending]
  BY <1>1, <1>7
<1> HIDE DEF r, n
<1>11. r \in Seq(Pending) /\ Len(r) = n
  BY <1>2, <1>10
<1>12. \A p \in DOMAIN r : \E i \in places : r[p] = q[i]
  BY <1>7, <1>9
<1>13. \A i \in places : \E p \in DOMAIN r : r[p] = q[i]
  <2> TAKE i \in places
  <2>1. Cardinality(Before(i, places, R)) \in 0 .. n - 1
    BY <1>6
  <2> DEFINE p == Cardinality(Before(i, places, R)) + 1
  <2>2. p \in 1 .. n /\ p - 1 = Cardinality(Before(i, places, R))
    BY <1>2, <2>1
  <2> HIDE DEF p
  <2>3. at(p) = i
    BY <1>6, <1>7, <2>2
  <2> QED BY <1>9, <2>2, <2>3
<1>14. ASSUME \A i, j \in places : q[i] = q[j] => i = j
       PROVE  \A p, o \in DOMAIN r : r[p] = r[o] => p = o
  <2> SUFFICES ASSUME NEW p \in 1 .. n, NEW o \in 1 .. n, r[p] = r[o] PROVE p = o
    BY <1>9
  <2>1. at(p) = at(o)
    BY <1>7, <1>9, <1>14
  <2>2. p - 1 = o - 1
    BY <1>7, <2>1
  <2> QED BY <1>2, <2>2
<1> QED BY <1>2, <1>8, <1>9, <1>11, <1>12, <1>13, <1>14 DEF Selects

-----------------------------------------------------------------------------
(* What a shard holds: its accounts and messages of all there are. *)

ShardStates == [accounts : SUBSET Owners, pending : Seq(Pending)]

Holds(s, state, accounts, messages) ==
    /\ state.accounts = {a \in accounts : ContainsAccount(s, a)}
    /\ \A i \in DOMAIN state.pending :
           state.pending[i] \in messages /\ ContainsAccount(s, state.pending[i].dest)
    /\ \A m \in messages : ContainsAccount(s, m.dest) => \E i \in DOMAIN state.pending : state.pending[i] = m
    /\ \A i, j \in DOMAIN state.pending : state.pending[i] = state.pending[j] => i = j

DataInv ==
    /\ shards \in [DOMAIN shards -> ShardStates]
    /\ created \subseteq Owners /\ arrived \subseteq Pending
    /\ \A s \in DOMAIN shards : Holds(s, shards[s], created, arrived)

LEMMA OneOwnerOnly ==
    ASSUME PartitionInv, NEW a \in AccountIds, NEW s \in DOMAIN shards, NEW t \in DOMAIN shards,
           ContainsAccount(s, a), ContainsAccount(t, a)
    PROVE  s = t
  BY DEF PartitionInv, HasOneOwner

LEMMA CreateData ==
    ASSUME PartitionInv, DataInv, NEW s \in DOMAIN shards, NEW a \in Owners, CreateAccount(s, a)
    PROVE  DataInv'
<1> DEFINE state == [shards[s] EXCEPT !.accounts = @ \cup {a}]
<1>0. /\ shards' = [shards EXCEPT ![s] = state] /\ created' = created \cup {a} /\ arrived' = arrived
      /\ ContainsAccount(s, a) /\ a \in AccountIds
  BY ShardAssumption DEF CreateAccount
<1>1. shards[s] \in ShardStates
  BY DEF DataInv
<1>2. state \in ShardStates /\ state.accounts = shards[s].accounts \cup {a} /\ state.pending = shards[s].pending
  BY <1>1 DEF ShardStates
<1> HIDE DEF state
<1>3. Holds(s, state, created', arrived)
  <2>1. Holds(s, shards[s], created, arrived)
    BY DEF DataInv
  <2> QED BY <1>0, <1>2, <2>1 DEF Holds
<1>4. ASSUME NEW t \in DOMAIN shards, t # s PROVE Holds(t, shards[t], created', arrived)
  <2>1. ~ContainsAccount(t, a)
    BY <1>0, <1>4, OneOwnerOnly
  <2>2. Holds(t, shards[t], created, arrived)
    BY DEF DataInv
  <2> QED BY <1>0, <2>1, <2>2 DEF Holds
<1>5. /\ shards' \in [DOMAIN shards -> ShardStates] /\ DOMAIN shards' = DOMAIN shards
      /\ shards'[s] = state /\ \A t \in DOMAIN shards : t # s => shards'[t] = shards[t]
  BY <1>0, <1>2 DEF DataInv
<1>6. \A t \in DOMAIN shards' : Holds(t, shards'[t], created', arrived')
  BY <1>0, <1>3, <1>4, <1>5
<1> QED BY <1>0, <1>5, <1>6 DEF DataInv

LEMMA ArriveData ==
    ASSUME PartitionInv, DataInv, NEW s \in DOMAIN shards, NEW m \in Pending, Arrive(s, m)
    PROVE  DataInv'
<1> DEFINE q == shards[s].pending
           longer == Append(q, m)
           state == [shards[s] EXCEPT !.pending = longer]
<1>0. /\ shards' = [shards EXCEPT ![s] = state] /\ created' = created /\ arrived' = arrived \cup {m}
      /\ ContainsAccount(s, m.dest) /\ m \notin arrived /\ m.dest \in AccountIds
  BY ShardAssumption DEF Arrive
<1>1. shards[s] \in ShardStates
  BY DEF DataInv
<1>2. q \in Seq(Pending) /\ Len(q) \in Nat /\ DOMAIN q = 1 .. Len(q)
  BY <1>1 DEF ShardStates
<1>3. /\ longer \in Seq(Pending) /\ DOMAIN longer = 1 .. Len(q) + 1
      /\ longer[Len(q) + 1] = m /\ \A i \in 1 .. Len(q) : longer[i] = q[i]
  BY <1>2
<1> HIDE DEF longer
<1>4. state \in ShardStates /\ state.accounts = shards[s].accounts /\ state.pending = longer
  BY <1>1, <1>3 DEF ShardStates
<1> HIDE DEF state
<1>5. Holds(s, state, created, arrived')
  <2>1. Holds(s, shards[s], created, arrived)
    BY DEF DataInv
  <2>2. /\ \A i \in 1 .. Len(q) : q[i] \in arrived /\ ContainsAccount(s, q[i].dest)
        /\ \A o \in arrived : ContainsAccount(s, o.dest) => \E i \in 1 .. Len(q) : q[i] = o
        /\ \A i, j \in 1 .. Len(q) : q[i] = q[j] => i = j
    BY <1>2, <2>1 DEF Holds
  <2> HIDE DEF q
  <2>3. \A i \in 1 .. Len(q) + 1 : i \in 1 .. Len(q) \/ i = Len(q) + 1
    BY <1>2
  <2>4. \A i \in 1 .. Len(q) : i \in 1 .. Len(q) + 1
    BY <1>2
  <2>5. Len(q) + 1 \in 1 .. Len(q) + 1
    BY <1>2
  <2>6. state.accounts = {a \in created : ContainsAccount(s, a)}
    BY <1>4, <2>1 DEF Holds
  <2>7. \A i \in 1 .. Len(q) + 1 : longer[i] \in arrived' /\ ContainsAccount(s, longer[i].dest)
    BY <1>0, <1>3, <2>2, <2>3
  <2>8. \A o \in arrived' : ContainsAccount(s, o.dest) => \E i \in 1 .. Len(q) + 1 : longer[i] = o
    BY <1>0, <1>3, <2>2, <2>4, <2>5
  <2>9. \A i, j \in 1 .. Len(q) + 1 : longer[i] = longer[j] => i = j
    BY <1>0, <1>3, <2>2, <2>3
  <2> QED BY <1>3, <1>4, <2>6, <2>7, <2>8, <2>9 DEF Holds
<1>6. ASSUME NEW t \in DOMAIN shards, t # s PROVE Holds(t, shards[t], created, arrived')
  <2>1. ~ContainsAccount(t, m.dest)
    BY <1>0, <1>6, OneOwnerOnly
  <2>2. Holds(t, shards[t], created, arrived)
    BY DEF DataInv
  <2> QED BY <1>0, <2>1, <2>2 DEF Holds
<1>7. /\ shards' \in [DOMAIN shards -> ShardStates] /\ DOMAIN shards' = DOMAIN shards
      /\ shards'[s] = state /\ \A t \in DOMAIN shards : t # s => shards'[t] = shards[t]
  BY <1>0, <1>4 DEF DataInv
<1>8. \A t \in DOMAIN shards' : Holds(t, shards'[t], created', arrived')
  BY <1>0, <1>5, <1>6, <1>7
<1> QED BY <1>0, <1>7, <1>8 DEF DataInv

(* A replacement keeps what is held, when every new shard holds its part. *)
LEMMA ReplaceData ==
    ASSUME DataInv, NEW old, NEW new, Replace(old, new),
           \A c \in DOMAIN new : new[c] \in ShardStates /\ Holds(c, new[c], created, arrived)
    PROVE  DataInv'
<1> DEFINE now == (DOMAIN shards \ old) \cup DOMAIN new
<1>1. /\ shards' = [s \in now |-> IF s \in DOMAIN new THEN new[s] ELSE shards[s]]
      /\ created' = created /\ arrived' = arrived
  BY DEF Replace
<1>2. DOMAIN shards' = now /\ \A s \in now : shards'[s] = IF s \in DOMAIN new THEN new[s] ELSE shards[s]
  BY <1>1
<1>3. \A s \in now : shards'[s] \in ShardStates /\ Holds(s, shards'[s], created, arrived)
  BY <1>2 DEF DataInv
<1>4. shards' \in [now -> ShardStates]
  BY <1>1, <1>3
<1> HIDE DEF now
<1> QED BY <1>1, <1>2, <1>3, <1>4 DEF DataInv

LEMMA SplitData ==
    ASSUME PartitionInv, DataInv, NEW s \in DOMAIN shards, Split(s)
    PROVE  DataInv'
<1> DEFINE q == shards[s].pending
           new == SplitState(s)
<1>0. /\ s \in Seq(Bits) /\ Len(s) < Depth /\ Len(s) \in Nat
  BY ShardsAreSequences, ShardAssumption, DepthAssumption DEF PartitionInv, Split
<1>1. Replace({s}, new) /\ DOMAIN new = Children(s)
  BY DEF Split, SplitState
<1>2. /\ shards[s] \in ShardStates /\ Holds(s, shards[s], created, arrived)
      /\ created \subseteq AccountIds /\ arrived \subseteq Pending /\ created \subseteq Owners
  BY ShardAssumption DEF DataInv
<1>3. q \in Seq(Pending)
  BY <1>2 DEF ShardStates
<1>4. ASSUME NEW c \in Children(s) PROVE new[c] \in ShardStates /\ Holds(c, new[c], created, arrived)
  <2> DEFINE places == {i \in DOMAIN q : ContainsAccount(c, q[i].dest)}
             r == Sorted(q, places)
  <2>1. new[c] = [accounts |-> {a \in shards[s].accounts : ContainsAccount(c, a)}, pending |-> r]
    BY DEF SplitState
  <2>2. \A a \in AccountIds : ContainsAccount(c, a) => ContainsAccount(s, a)
    <3>1. PICK b \in Bits : c = Append(s, b)
      BY <1>4 DEF Children, Bits
    <3> QED BY <1>0, <3>1, ChildContains
  <2>3. Selects(r, q, places) /\ r \in Seq(Pending)
    BY <1>3, SortedSelects
  <2>4. \A i \in places : i \in DOMAIN q /\ ContainsAccount(c, q[i].dest)
    OBVIOUS
  <2>5. \A i \in DOMAIN q : ContainsAccount(c, q[i].dest) => i \in places
    OBVIOUS
  <2>6. /\ \A i \in DOMAIN q : q[i] \in arrived /\ ContainsAccount(s, q[i].dest)
        /\ \A m \in arrived : ContainsAccount(s, m.dest) => \E i \in DOMAIN q : q[i] = m
        /\ \A i, j \in DOMAIN q : q[i] = q[j] => i = j
        /\ shards[s].accounts = {a \in created : ContainsAccount(s, a)}
    BY <1>2 DEF Holds
  <2> HIDE DEF r, places, q
  <2>7. new[c] \in ShardStates
    <3>1. {a \in shards[s].accounts : ContainsAccount(c, a)} \in SUBSET Owners
      BY <1>2, <2>6
    <3> QED BY <2>1, <2>3, <3>1 DEF ShardStates
  <2>8. new[c].accounts = {a \in created : ContainsAccount(c, a)} /\ new[c].pending = r
    BY <1>2, <2>1, <2>2, <2>6
  <2>9. \A p \in DOMAIN r : r[p] \in arrived /\ ContainsAccount(c, r[p].dest)
    BY <2>3, <2>4, <2>6 DEF Selects
  <2>10. \A m \in arrived : ContainsAccount(c, m.dest) => \E p \in DOMAIN r : r[p] = m
    <3> SUFFICES ASSUME NEW m \in arrived, ContainsAccount(c, m.dest) PROVE \E p \in DOMAIN r : r[p] = m
      OBVIOUS
    <3>1. m.dest \in AccountIds
      BY <1>2, ShardAssumption
    <3>2. PICK i \in DOMAIN q : q[i] = m
      BY <2>2, <2>6, <3>1
    <3>3. i \in places
      BY <2>5, <3>2
    <3> QED BY <2>3, <3>2, <3>3 DEF Selects
  <2>11. \A p, o \in DOMAIN r : r[p] = r[o] => p = o
    BY <2>3, <2>4, <2>6 DEF Selects
  <2> QED BY <2>7, <2>8, <2>9, <2>10, <2>11 DEF Holds
<1> HIDE DEF new
<1> QED BY <1>1, <1>4, ReplaceData

(* Two sequences one after the other. *)
LEMMA Concatenated ==
    ASSUME NEW V, NEW q \in Seq(V), NEW u \in Seq(V)
    PROVE  /\ q \o u \in Seq(V) /\ DOMAIN (q \o u) = 1 .. Len(q) + Len(u)
           /\ \A i \in 1 .. Len(q) : (q \o u)[i] = q[i]
           /\ \A i \in 1 .. Len(u) : (q \o u)[Len(q) + i] = u[i]
<1>1. Len(q) \in Nat /\ Len(u) \in Nat
  OBVIOUS
<1>2. q \o u \in Seq(V) /\ Len(q \o u) = Len(q) + Len(u)
  OBVIOUS
<1>3. DOMAIN (q \o u) = 1 .. Len(q) + Len(u)
  BY <1>2
<1>4. \A i \in 1 .. Len(q) : (q \o u)[i] = q[i]
  BY <1>1
<1>5. ASSUME NEW i \in 1 .. Len(u) PROVE (q \o u)[Len(q) + i] = u[i]
  <2>1. Len(q) + i \in Nat /\ Len(q) + i > Len(q) /\ Len(q) + i <= Len(q) + Len(u) /\ Len(q) + i - Len(q) = i
    BY <1>1
  <2> QED BY <1>1, <2>1
<1> QED BY <1>2, <1>3, <1>4, <1>5

LEMMA MergeData ==
    ASSUME PartitionInv, DataInv, NEW s \in DOMAIN shards, NEW t \in DOMAIN shards, Merge(s, t)
    PROVE  DataInv'
<1> DEFINE p == Front(s)
           q == shards[s].pending
           u == shards[t].pending
           both == q \o u
           r == Sorted(both, DOMAIN both)
           state == MergeState(s, t)
           new == [c \in {Front(s)} |-> state]
<1>0. s \in Shards /\ t \in Shards /\ Siblings(s, t) /\ s # t
  BY DEF PartitionInv, Merge, Siblings
<1>1. Replace({s, t}, new)
  BY DEF Merge
<1>2. \A a \in AccountIds : ContainsAccount(p, a) <=> ContainsAccount(s, a) \/ ContainsAccount(t, a)
  BY <1>0, ParentContains
<1>3. /\ shards[s] \in ShardStates /\ Holds(s, shards[s], created, arrived)
      /\ shards[t] \in ShardStates /\ Holds(t, shards[t], created, arrived)
      /\ created \subseteq AccountIds /\ arrived \subseteq Pending /\ created \subseteq Owners
      /\ \A m \in arrived : m.dest \in AccountIds
  BY ShardAssumption DEF DataInv
<1>4. q \in Seq(Pending) /\ u \in Seq(Pending) /\ Len(q) \in Nat /\ Len(u) \in Nat
      /\ DOMAIN q = 1 .. Len(q) /\ DOMAIN u = 1 .. Len(u)
  BY <1>3 DEF ShardStates
<1>5. /\ both \in Seq(Pending) /\ DOMAIN both = 1 .. Len(q) + Len(u)
      /\ \A i \in 1 .. Len(q) : both[i] = q[i]
      /\ \A i \in 1 .. Len(u) : both[Len(q) + i] = u[i]
  <2> HIDE DEF q, u
  <2> QED BY <1>4, Concatenated
<1>6. \A i \in DOMAIN both : i \in 1 .. Len(q) \/ (i - Len(q) \in 1 .. Len(u) /\ i = Len(q) + (i - Len(q)))
  <2> HIDE DEF q, u, both
  <2> TAKE i \in DOMAIN both
  <2>1. i \in 1 .. Len(q) + Len(u)
    BY <1>5
  <2> QED BY <1>4, <2>1
<1>7. /\ \A i \in DOMAIN q : q[i] \in arrived /\ ContainsAccount(s, q[i].dest)
      /\ \A m \in arrived : ContainsAccount(s, m.dest) => \E i \in DOMAIN q : q[i] = m
      /\ \A i, j \in DOMAIN q : q[i] = q[j] => i = j
      /\ shards[s].accounts = {a \in created : ContainsAccount(s, a)}
  BY <1>3 DEF Holds
<1>8. /\ \A i \in DOMAIN u : u[i] \in arrived /\ ContainsAccount(t, u[i].dest)
      /\ \A m \in arrived : ContainsAccount(t, m.dest) => \E i \in DOMAIN u : u[i] = m
      /\ \A i, j \in DOMAIN u : u[i] = u[j] => i = j
      /\ shards[t].accounts = {a \in created : ContainsAccount(t, a)}
  BY <1>3 DEF Holds
<1>9. state = [accounts |-> shards[s].accounts \cup shards[t].accounts, pending |-> r]
  BY DEF MergeState
<1>10. Selects(r, both, DOMAIN both) /\ r \in Seq(Pending)
  <2> HIDE DEF both
  <2> QED BY <1>5, SortedSelects
<1> HIDE DEF both, q, u, r, p
<1>11. \A i \in DOMAIN both : both[i] \in arrived /\ ContainsAccount(p, both[i].dest)
  <2> TAKE i \in DOMAIN both
  <2>1. CASE i \in 1 .. Len(q)
    BY <1>2, <1>3, <1>4, <1>5, <1>7, <2>1
  <2>2. CASE i - Len(q) \in 1 .. Len(u) /\ i = Len(q) + (i - Len(q))
    <3>1. both[i] = u[i - Len(q)]
      BY <1>5, <2>2
    <3> QED BY <1>2, <1>3, <1>4, <1>8, <2>2, <3>1
  <2> QED BY <1>6, <2>1, <2>2
<1>12. \A m \in arrived : ContainsAccount(p, m.dest) => \E i \in DOMAIN both : both[i] = m
  <2> SUFFICES ASSUME NEW m \in arrived, ContainsAccount(p, m.dest) PROVE \E i \in DOMAIN both : both[i] = m
    OBVIOUS
  <2>1. ContainsAccount(s, m.dest) \/ ContainsAccount(t, m.dest)
    BY <1>2, <1>3
  <2>2. CASE ContainsAccount(s, m.dest)
    <3>1. PICK i \in 1 .. Len(q) : q[i] = m
      BY <1>4, <1>7, <2>2
    <3>2. i \in DOMAIN both /\ both[i] = m
      BY <1>4, <1>5, <3>1
    <3> QED BY <3>2
  <2>3. CASE ContainsAccount(t, m.dest)
    <3>1. PICK i \in 1 .. Len(u) : u[i] = m
      BY <1>4, <1>8, <2>3
    <3>2. Len(q) + i \in DOMAIN both /\ both[Len(q) + i] = m
      BY <1>4, <1>5, <3>1
    <3> QED BY <3>2
  <2> QED BY <2>1, <2>2, <2>3
<1>13. \A i, j \in DOMAIN both : both[i] = both[j] => i = j
  <2>1. ASSUME NEW i \in 1 .. Len(q), NEW j \in 1 .. Len(u) PROVE q[i] # u[j]
    <3>1. ContainsAccount(s, q[i].dest) /\ ContainsAccount(t, u[j].dest) /\ q[i].dest \in AccountIds
      BY <1>3, <1>4, <1>7, <1>8
    <3> QED BY <1>0, <3>1, OneOwnerOnly
  <2> SUFFICES ASSUME NEW i \in DOMAIN both, NEW j \in DOMAIN both, both[i] = both[j] PROVE i = j
    OBVIOUS
  <2> DEFINE x == i - Len(q)
             y == j - Len(q)
  <2>2. i \in 1 .. Len(q) \/ (x \in 1 .. Len(u) /\ i = Len(q) + x)
    BY <1>6
  <2>3. j \in 1 .. Len(q) \/ (y \in 1 .. Len(u) /\ j = Len(q) + y)
    BY <1>6
  <2> HIDE DEF x, y
  <2>4. CASE i \in 1 .. Len(q) /\ j \in 1 .. Len(q)
    BY <1>4, <1>5, <1>7, <2>4
  <2>5. CASE i \in 1 .. Len(q) /\ y \in 1 .. Len(u) /\ j = Len(q) + y
    BY <1>5, <2>1, <2>5
  <2>6. CASE x \in 1 .. Len(u) /\ i = Len(q) + x /\ j \in 1 .. Len(q)
    BY <1>5, <2>1, <2>6
  <2>7. CASE x \in 1 .. Len(u) /\ i = Len(q) + x /\ y \in 1 .. Len(u) /\ j = Len(q) + y
    <3>1. both[Len(q) + x] = u[x] /\ both[Len(q) + y] = u[y]
      BY <1>5, <2>7
    <3>2. u[x] = u[y]
      BY <2>7, <3>1
    <3>3. x = y
      BY <1>4, <1>8, <2>7, <3>2
    <3> QED BY <2>7, <3>3
  <2> QED BY <2>2, <2>3, <2>4, <2>5, <2>6, <2>7
<1>14. Holds(p, state, created, arrived) /\ state \in ShardStates
  <2>1. state.accounts = {a \in created : ContainsAccount(p, a)} /\ state.pending = r
    BY <1>2, <1>3, <1>7, <1>8, <1>9
  <2>2. \A o \in DOMAIN r : r[o] \in arrived /\ ContainsAccount(p, r[o].dest)
    BY <1>10, <1>11 DEF Selects
  <2>3. \A m \in arrived : ContainsAccount(p, m.dest) => \E o \in DOMAIN r : r[o] = m
    <3> SUFFICES ASSUME NEW m \in arrived, ContainsAccount(p, m.dest) PROVE \E o \in DOMAIN r : r[o] = m
      OBVIOUS
    <3>1. PICK i \in DOMAIN both : both[i] = m
      BY <1>12
    <3> QED BY <1>10, <3>1 DEF Selects
  <2>4. \A o, k \in DOMAIN r : r[o] = r[k] => o = k
    BY <1>10, <1>13 DEF Selects
  <2>5. state \in ShardStates
    <3>1. shards[s].accounts \cup shards[t].accounts \in SUBSET Owners
      BY <1>3, <1>7, <1>8
    <3> QED BY <1>9, <1>10, <3>1 DEF ShardStates
  <2> HIDE DEF state
  <2> QED BY <2>1, <2>2, <2>3, <2>4, <2>5 DEF Holds
<1>15. \A c \in DOMAIN new : new[c] \in ShardStates /\ Holds(c, new[c], created, arrived)
  <2> HIDE DEF state
  <2> QED BY <1>14 DEF p
<1> HIDE DEF new
<1> QED BY <1>1, <1>15, ReplaceData

(* The rest of the type invariant: load samples and announcements.          *)
WindowsInv ==
    /\ height \in Nat /\ epoch \in Nat
    /\ load \in [DOMAIN shards -> Seq({"high", "low"})]
    /\ prepares \in [DOMAIN shards -> SUBSET [kind : {"Split", "Merge"}, height : 0..height, epoch : 0..epoch]]
    /\ \A s \in DOMAIN shards : Len(load[s]) <= MergeWindow

LEMMA ReplaceWindows ==
    ASSUME WindowsInv, NEW old, NEW new, Replace(old, new)
    PROVE  WindowsInv'
<1> DEFINE now == (DOMAIN shards \ old) \cup DOMAIN new
           Announced == SUBSET [kind : {"Split", "Merge"}, height : 0..height, epoch : 0..epoch]
<1>1. /\ DOMAIN shards' = now /\ height' = height /\ epoch' = epoch
      /\ load' = [s \in now |-> IF s \in DOMAIN new THEN <<>> ELSE load[s]]
      /\ prepares' = [s \in now |-> IF s \in DOMAIN new THEN {} ELSE prepares[s]]
  BY DEF Replace
<1>2. \A s \in DOMAIN shards : load[s] \in Seq({"high", "low"}) /\ Len(load[s]) <= MergeWindow /\ prepares[s] \in Announced
  BY DEF WindowsInv
<1>3. <<>> \in Seq({"high", "low"}) /\ Len(<<>>) <= MergeWindow /\ {} \in Announced
  BY WindowAssumption
<1> HIDE DEF Announced
<1>4. \A s \in now : /\ load'[s] \in Seq({"high", "low"}) /\ Len(load'[s]) <= MergeWindow
                      /\ prepares'[s] \in Announced
  BY <1>1, <1>2, <1>3
<1>5. load' \in [now -> Seq({"high", "low"})] /\ prepares' \in [now -> Announced]
  BY <1>1, <1>4
<1> HIDE DEF now
<1> QED BY <1>1, <1>4, <1>5 DEF WindowsInv, Announced

LEMMA WindowsStep == WindowsInv /\ [ShardNext]_shardVars => WindowsInv'
<1> DEFINE Announced == [kind : {"Split", "Merge"}, height : 0..height, epoch : 0..epoch]
           Samples == Seq({"high", "low"})
<1> SUFFICES ASSUME WindowsInv, [ShardNext]_shardVars PROVE WindowsInv'
  OBVIOUS
<1>1. ASSUME NEW s \in DOMAIN shards, Split(s) PROVE WindowsInv'
  BY <1>1, ReplaceWindows DEF Split
<1>2. ASSUME NEW s \in DOMAIN shards, NEW t \in DOMAIN shards, Merge(s, t) PROVE WindowsInv'
  BY <1>2, ReplaceWindows DEF Merge
<1>3. ASSUME DOMAIN shards' = DOMAIN shards, UNCHANGED <<load, prepares, height, epoch>> PROVE WindowsInv'
  BY <1>3 DEF WindowsInv
<1>4. ASSUME NEW s \in DOMAIN shards, NEW a \in Owners, CreateAccount(s, a)
      PROVE  WindowsInv'
  BY <1>3, <1>4 DEF CreateAccount
<1>5. ASSUME NEW s \in DOMAIN shards, NEW m \in Pending, Arrive(s, m)
      PROVE  WindowsInv'
  BY <1>3, <1>5 DEF Arrive
<1>6. ASSUME NEW sample \in [DOMAIN shards -> {"high", "low"}], CommitBlock(sample) PROVE WindowsInv'
  <2>1. /\ height' = height + 1 /\ epoch' = epoch /\ shards' = shards /\ prepares' = prepares
        /\ load' = [s \in DOMAIN shards |-> Latest(Append(load[s], sample[s]), MergeWindow)]
    BY <1>6 DEF CommitBlock
  <2>2. \A s \in DOMAIN shards :
            /\ Latest(Append(load[s], sample[s]), MergeWindow) \in Samples
            /\ Len(Latest(Append(load[s], sample[s]), MergeWindow)) <= MergeWindow
    <3> TAKE s \in DOMAIN shards
    <3> DEFINE l == Append(load[s], sample[s])
    <3>1. load[s] \in Samples /\ Len(load[s]) <= MergeWindow /\ sample[s] \in {"high", "low"}
      BY DEF WindowsInv
    <3>2. l \in Samples /\ Len(l) = Len(load[s]) + 1 /\ Len(load[s]) \in Nat
      BY <3>1
    <3> HIDE DEF l
    <3>3. Latest(l, MergeWindow) \in Samples /\ Len(Latest(l, MergeWindow)) <= MergeWindow
      <4>1. CASE Len(l) <= MergeWindow
        BY <3>2, <4>1 DEF Latest
      <4>2. CASE ~(Len(l) <= MergeWindow)
        <5>1. l # <<>>
          BY <3>2
        <5>2. Tail(l) \in Samples /\ Len(Tail(l)) = Len(l) - 1
          BY <3>2, <5>1
        <5> QED BY <3>1, <3>2, <4>2, <5>2, WindowAssumption DEF Latest
      <4> QED BY <4>1, <4>2
    <3> QED BY <3>3 DEF l
  <2>3. load' \in [DOMAIN shards -> Samples]
    BY <2>1, <2>2
  <2>4. prepares' \in [DOMAIN shards -> SUBSET [kind : {"Split", "Merge"}, height : 0..height', epoch : 0..epoch']]
    <3>1. Announced \subseteq [kind : {"Split", "Merge"}, height : 0..height', epoch : 0..epoch']
      <4>1. 0..height \subseteq 0..height'
        BY <2>1 DEF WindowsInv
      <4> QED BY <2>1, <4>1
    <3>2. prepares \in [DOMAIN shards -> SUBSET Announced]
      BY DEF WindowsInv
    <3> HIDE DEF Announced
    <3> QED BY <2>1, <3>1, <3>2
  <2>5. \A s \in DOMAIN shards : Len(load'[s]) <= MergeWindow
    BY <2>1, <2>2
  <2> QED BY <2>1, <2>3, <2>4, <2>5 DEF WindowsInv
<1>7. ASSUME RotateAssignment PROVE WindowsInv'
  <2>1. epoch' = epoch + 1 /\ height' = height /\ UNCHANGED <<shards, load, prepares>>
    BY <1>7 DEF RotateAssignment
  <2>2. prepares' \in [DOMAIN shards -> SUBSET [kind : {"Split", "Merge"}, height : 0..height', epoch : 0..epoch']]
    <3>1. Announced \subseteq [kind : {"Split", "Merge"}, height : 0..height', epoch : 0..epoch']
      <4>1. 0..epoch \subseteq 0..epoch'
        BY <2>1 DEF WindowsInv
      <4> QED BY <2>1, <4>1
    <3>2. prepares \in [DOMAIN shards -> SUBSET Announced]
      BY DEF WindowsInv
    <3> HIDE DEF Announced
    <3> QED BY <2>1, <3>1, <3>2
  <2> QED BY <2>1, <2>2 DEF WindowsInv
<1>8. ASSUME NEW s \in DOMAIN shards, NEW kind \in {"Split", "Merge"}, Prepare(s, kind) PROVE WindowsInv'
  <2> DEFINE p == {[kind |-> kind, height |-> height, epoch |-> epoch]}
  <2>1. prepares' = [prepares EXCEPT ![s] = p] /\ UNCHANGED <<shards, load, height, epoch>>
    BY <1>8 DEF Prepare
  <2>2. p \in SUBSET Announced
    <3>1. height \in 0..height /\ epoch \in 0..epoch
      BY DEF WindowsInv
    <3> QED BY <3>1
  <2> HIDE DEF p
  <2>3. prepares' \in [DOMAIN shards -> SUBSET Announced]
    BY <2>1, <2>2 DEF WindowsInv
  <2> QED BY <2>1, <2>3 DEF WindowsInv
<1>9. ASSUME NEW s \in DOMAIN shards, Lapse(s) PROVE WindowsInv'
  <2>1. prepares' = [prepares EXCEPT ![s] = {}] /\ UNCHANGED <<shards, load, height, epoch>>
    BY <1>9 DEF Lapse
  <2>2. prepares' \in [DOMAIN shards -> SUBSET Announced]
    BY <2>1 DEF WindowsInv
  <2> QED BY <2>1, <2>2 DEF WindowsInv
<1>10. CASE UNCHANGED shardVars
  BY <1>3, <1>10 DEF shardVars
<1> QED BY <1>1, <1>2, <1>4, <1>5, <1>6, <1>7, <1>8, <1>9, <1>10 DEF ShardNext

LEMMA DataStep == PartitionInv /\ DataInv /\ [ShardNext]_shardVars => DataInv'
<1> SUFFICES ASSUME PartitionInv, DataInv, [ShardNext]_shardVars PROVE DataInv'
  OBVIOUS
<1>1. ASSUME NEW s \in DOMAIN shards, Split(s) PROVE DataInv'
  BY <1>1, SplitData
<1>2. ASSUME NEW s \in DOMAIN shards, NEW t \in DOMAIN shards, Merge(s, t) PROVE DataInv'
  BY <1>2, MergeData
<1>3. ASSUME UNCHANGED <<shards, created, arrived>> PROVE DataInv'
  BY <1>3 DEF DataInv
<1>4. ASSUME NEW s \in DOMAIN shards, NEW a \in Owners, CreateAccount(s, a) PROVE DataInv'
  BY <1>4, CreateData
<1>5. ASSUME NEW s \in DOMAIN shards, NEW m \in Pending, Arrive(s, m) PROVE DataInv'
  BY <1>5, ArriveData
<1>6. ASSUME NEW sample, CommitBlock(sample) PROVE DataInv'
  BY <1>3, <1>6 DEF CommitBlock
<1>7. ASSUME RotateAssignment PROVE DataInv'
  BY <1>3, <1>7 DEF RotateAssignment
<1>8. ASSUME NEW s, NEW kind, Prepare(s, kind) \/ Lapse(s) PROVE DataInv'
  BY <1>3, <1>8 DEF Prepare, Lapse
<1>9. CASE UNCHANGED shardVars
  BY <1>3, <1>9 DEF shardVars
<1> QED BY <1>1, <1>2, <1>4, <1>5, <1>6, <1>7, <1>8, <1>9 DEF ShardNext

LEMMA DataInvImplies == PartitionInv /\ DataInv => NothingLost
<1> SUFFICES ASSUME PartitionInv, DataInv PROVE NothingLost
  OBVIOUS
<1>0. /\ created \subseteq AccountIds /\ \A m \in arrived : m.dest \in AccountIds
      /\ \A s \in DOMAIN shards : Holds(s, shards[s], created, arrived)
  BY ShardAssumption DEF DataInv
<1>1. \A a \in created : {s \in DOMAIN shards : a \in shards[s].accounts} = {s \in DOMAIN shards : ContainsAccount(s, a)}
  BY <1>0 DEF Holds
<1>2. \A s \in DOMAIN shards : OwnershipValid(s)
  BY <1>0 DEF Holds, OwnershipValid, Ids
<1>3. ASSUME NEW m \in arrived
      PROVE  \E s \in DOMAIN shards : \E i \in DOMAIN shards[s].pending :
                 \A t \in DOMAIN shards : \A j \in DOMAIN shards[t].pending :
                     shards[t].pending[j] = m <=> t = s /\ j = i
  <2>1. PICK s \in DOMAIN shards : \A t \in DOMAIN shards : ContainsAccount(t, m.dest) <=> t = s
    BY <1>0 DEF PartitionInv, HasOneOwner
  <2>2. PICK i \in DOMAIN shards[s].pending : shards[s].pending[i] = m
    BY <1>0, <2>1 DEF Holds
  <2>3. ASSUME NEW t \in DOMAIN shards, NEW j \in DOMAIN shards[t].pending
        PROVE  shards[t].pending[j] = m <=> t = s /\ j = i
    <3>1. ASSUME shards[t].pending[j] = m PROVE t = s /\ j = i
      <4>1. t = s
        BY <1>0, <2>1, <3>1 DEF Holds
      <4> QED BY <1>0, <2>2, <3>1, <4>1 DEF Holds
    <3> QED BY <2>2, <3>1
  <2> QED BY <2>3
<1> QED BY <1>1, <1>2, <1>3 DEF NothingLost

LEMMA PartitionIsSound == PartitionInv => ShardsPartition
  BY OneOwnerCounts DEF PartitionInv, ShardsPartition

LEMMA ShardTypes == PartitionInv /\ DataInv /\ WindowsInv => ShardTypeOK
  BY DEF PartitionInv, DataInv, WindowsInv, ShardTypeOK, ShardStates

LEMMA ShardsStart == ShardInit => PartitionInv /\ DataInv /\ WindowsInv
<1> SUFFICES ASSUME ShardInit PROVE PartitionInv /\ DataInv /\ WindowsInv
  OBVIOUS
<1>1. /\ shards = [s \in Genesis |-> [accounts |-> {}, pending |-> <<>>]]
      /\ load = [s \in Genesis |-> <<>>] /\ prepares = [s \in Genesis |-> {}]
      /\ height = 0 /\ epoch = 0 /\ arrived = {} /\ created = {}
  BY DEF ShardInit
<1>2. PartitionInv
  BY <1>1, ShardAssumption, GenesisAssumption DEF PartitionInv, HasOneOwner
<1>3. DataInv
  <2>1. [accounts |-> {}, pending |-> <<>>] \in ShardStates
    BY DEF ShardStates
  <2>2. \A s \in Genesis : Holds(s, [accounts |-> {}, pending |-> <<>>], {}, {})
    BY DEF Holds
  <2> QED BY <1>1, <2>1, <2>2 DEF DataInv
<1>4. WindowsInv
  BY <1>1, WindowAssumption DEF WindowsInv
<1> QED BY <1>2, <1>3, <1>4

(* The shards stay prefixes, every account keeps exactly one of them, and   *)
(* each shard holds what it contains of all that was created or arrived.    *)
THEOREM ShardInductive == ShardSpec => [](PartitionInv /\ DataInv /\ WindowsInv)
<1>1. PartitionInv /\ DataInv /\ WindowsInv /\ [ShardNext]_shardVars => (PartitionInv /\ DataInv /\ WindowsInv)'
  BY ShardStep, DataStep, WindowsStep
<1> QED BY <1>1, ShardsStart, PTL DEF ShardSpec

(* ShardTypeOK: shards stay prefixes of at most MaxPrefix bits, load windows *)
(* within their length, announcements of the past only.                     *)
THEOREM ShardTypeCorrect == ShardSpec => []ShardTypeOK
  BY ShardInductive, ShardTypes, PTL

(* split_shard_state and merge_shard_states, in whatever order announcements *)
(* reach their block: no account is left without a shard or given two.      *)
THEOREM PartitionHolds == ShardSpec => []ShardsPartition
  BY ShardInductive, PartitionIsSound, PTL

(* NothingLost: through any sequence of splits and merges each account      *)
(* created and each message that arrived is in exactly one shard, the one   *)
(* that contains it, and once, whatever order the queues were in.           *)
THEOREM NothingIsLost == ShardSpec => []NothingLost
  BY ShardInductive, DataInvImplies, PTL

-----------------------------------------------------------------------------
(***************************************************************************)
(* Routes.  The k-th hop changes the k-th of the differing bits: a bit's   *)
(* rank among them tells when it is changed.                               *)
(***************************************************************************)

(* The number of elements of d up to i. *)
Rank(d, i) == Cardinality({j \in d : j <= i})

(* The elements of a finite set of integers take the ranks 1, 2, ... in turn. *)
LEMMA Ranks ==
    ASSUME NEW d, d \subseteq Int, IsFiniteSet(d)
    PROVE  /\ Cardinality(d) \in Nat
           /\ \A i \in d : Rank(d, i) \in 1 .. Cardinality(d)
           /\ \A i, j \in d : Rank(d, i) = Rank(d, j) => i = j
           /\ \A i, j \in d : i < j => Rank(d, i) < Rank(d, j)
           /\ \A k \in 1 .. Cardinality(d) : \E i \in d : Rank(d, i) = k
<1> DEFINE R == {p \in d \X d : p[1] < p[2]}
           place(i) == Cardinality(Before(i, d, R))
<1>1. \A i, j \in d : <<i, j>> \in R <=> i < j
  OBVIOUS
<1>2. StrictlyOrders(R, d)
  <2> HIDE DEF R
  <2> QED BY <1>1 DEF StrictlyOrders
<1> HIDE DEF R
<1>3. /\ \A i \in d : place(i) \in 0 .. Cardinality(d) - 1
      /\ \A i, j \in d : place(i) = place(j) => i = j
      /\ \A k \in 0 .. Cardinality(d) - 1 : \E i \in d : place(i) = k
  BY <1>2, EveryPlaceTaken
<1>4. ASSUME NEW i \in d PROVE Rank(d, i) = place(i) + 1
  <2>1. Before(i, d, R) \subseteq d /\ i \notin Before(i, d, R)
    BY <1>1 DEF Before
  <2>2. IsFiniteSet(Before(i, d, R))
    BY <2>1, FS_Subset
  <2>3. {j \in d : j <= i} = Before(i, d, R) \cup {i}
    <3>1. \A j \in d : j <= i <=> (j < i \/ j = i)
      OBVIOUS
    <3>2. \A j \in d : j <= i <=> (j \in Before(i, d, R) \/ j = i)
      BY <1>1, <3>1 DEF Before
    <3> QED BY <2>1, <3>2
  <2> QED BY <2>1, <2>2, <2>3, FS_AddElement DEF Rank
<1>5. Cardinality(d) \in Nat
  BY FS_CardinalityType
<1> HIDE DEF place
<1>6. \A i \in d : Rank(d, i) \in 1 .. Cardinality(d)
  BY <1>3, <1>4, <1>5
<1>7. \A i, j \in d : Rank(d, i) = Rank(d, j) => i = j
  <2> SUFFICES ASSUME NEW i \in d, NEW j \in d, Rank(d, i) = Rank(d, j) PROVE i = j
    OBVIOUS
  <2>1. place(i) + 1 = place(j) + 1
    BY <1>4
  <2>2. place(i) \in Int /\ place(j) \in Int
    BY <1>3, <1>5
  <2>3. place(i) = place(j)
    BY <2>1, <2>2
  <2> QED BY <1>3, <2>3
<1>8. ASSUME NEW i \in d, NEW j \in d, i < j PROVE Rank(d, i) < Rank(d, j)
  <2> DEFINE A == {x \in d : x <= i}
             B == {x \in d : x <= j}
  <2>0. i \in Int /\ j \in Int /\ \A x \in d : x \in Int
    OBVIOUS
  <2>1. A \subseteq B /\ B \subseteq d
    <3>1. \A x \in d : x <= i => x <= j
      BY <1>8, <2>0
    <3> QED BY <3>1
  <2>2. IsFiniteSet(B)
    BY <2>1, FS_Subset
  <2>3. Cardinality(A) <= Cardinality(B)
    <3> HIDE DEF A, B
    <3> QED BY <2>1, <2>2, FS_Subset
  <2>4. Rank(d, i) <= Rank(d, j)
    BY <2>3 DEF Rank
  <2> QED BY <1>5, <1>6, <1>7, <1>8, <2>4
<1>9. ASSUME NEW k \in 1 .. Cardinality(d) PROVE \E i \in d : Rank(d, i) = k
  <2>1. k - 1 \in 0 .. Cardinality(d) - 1
    BY <1>5
  <2>2. PICK i \in d : place(i) = k - 1
    BY <1>3, <2>1
  <2>3. Rank(d, i) = k
    BY <1>4, <2>2
  <2> QED BY <2>3
<1> QED BY <1>5, <1>6, <1>7, <1>8, <1>9

(* Two shards of one workchain and one depth. *)
Comparable(s, t) ==
    /\ s \in RouteShards /\ t \in RouteShards
    /\ s.workchain = t.workchain /\ Len(s.prefix) = Len(t.prefix)

LEMMA PrefixBits ==
    ASSUME NEW s, NEW t, Comparable(s, t)
    PROVE  \E n \in Nat : s.prefix \in [1 .. n -> {0, 1}] /\ t.prefix \in [1 .. n -> {0, 1}]
                          /\ Len(s.prefix) = n
<1>1. PICK n \in 0 .. MaxRoutePrefix : s.prefix \in [1 .. n -> {0, 1}]
  BY DEF Comparable, RouteShards
<1>2. PICK m \in 0 .. MaxRoutePrefix : t.prefix \in [1 .. m -> {0, 1}]
  BY DEF Comparable, RouteShards
<1>3. n \in Nat /\ m \in Nat
  BY RouterAssumption
<1>4. Len(s.prefix) = n
  BY <1>1, <1>3
<1>5. Len(t.prefix) = m
  BY <1>2, <1>3
<1> QED BY <1>1, <1>2, <1>3, <1>4, <1>5 DEF Comparable

LEMMA DifferingRanks ==
    ASSUME NEW s, NEW t, Comparable(s, t)
    PROVE  Differing(s, t) \subseteq Int /\ IsFiniteSet(Differing(s, t))
<1>1. PICK n \in Nat : s.prefix \in [1 .. n -> {0, 1}]
  BY PrefixBits
<1>2. Differing(s, t) \subseteq 1 .. n
  BY <1>1 DEF Differing
<1>3. IsFiniteSet(1 .. n)
  BY FS_Interval
<1> QED BY <1>2, <1>3, FS_Subset

(* What AfterFlips changes. *)
LEMMA Flipped ==
    ASSUME NEW s, NEW t, Comparable(s, t), NEW k \in Int
    PROVE  /\ AfterFlips(s, t, k) \in [workchain : {0, 1}, prefix : [DOMAIN s.prefix -> {0, 1}]]
           /\ AfterFlips(s, t, k).workchain = s.workchain
           /\ \A i \in DOMAIN s.prefix :
                  AfterFlips(s, t, k).prefix[i] =
                      IF i \in Differing(s, t) /\ Rank(Differing(s, t), i) <= k THEN t.prefix[i] ELSE s.prefix[i]
<1>1. PICK n \in Nat : s.prefix \in [1 .. n -> {0, 1}] /\ t.prefix \in [1 .. n -> {0, 1}]
  BY PrefixBits
<1> DEFINE new == [i \in DOMAIN s.prefix |->
                      IF i \in Differing(s, t) /\ Rank(Differing(s, t), i) <= k THEN t.prefix[i] ELSE s.prefix[i]]
<1>2. new \in [DOMAIN s.prefix -> {0, 1}]
  BY <1>1
<1>3. AfterFlips(s, t, k) = [s EXCEPT !.prefix = new]
  BY DEF AfterFlips, Rank
<1>4. s \in [workchain : {0, 1}, prefix : UNION {[1..m -> {0, 1}] : m \in 0..MaxRoutePrefix}]
  BY DEF Comparable, RouteShards
<1>5. AfterFlips(s, t, k) = [workchain |-> s.workchain, prefix |-> new]
  <2> HIDE DEF new
  <2> QED BY <1>3, <1>4
<1>6. s.workchain \in {0, 1}
  BY <1>4
<1>7. \A i \in DOMAIN s.prefix : new[i] = IF i \in Differing(s, t) /\ Rank(Differing(s, t), i) <= k THEN t.prefix[i] ELSE s.prefix[i]
  OBVIOUS
<1> HIDE DEF new
<1> QED BY <1>2, <1>5, <1>6, <1>7

(* The way begins at the source and ends at the destination. *)
LEMMA FlipEnds ==
    ASSUME NEW s, NEW t, Comparable(s, t)
    PROVE  /\ AfterFlips(s, t, 0) = s
           /\ AfterFlips(s, t, Cardinality(Differing(s, t))) = t
<1> DEFINE d == Differing(s, t)
           c == Cardinality(d)
<1>1. PICK n \in Nat : s.prefix \in [1 .. n -> {0, 1}] /\ t.prefix \in [1 .. n -> {0, 1}]
  BY PrefixBits
<1>2. c \in Nat /\ \A i \in d : Rank(d, i) \in 1 .. c
  BY DifferingRanks, Ranks
<1>3. \A i \in DOMAIN s.prefix : i \notin d => s.prefix[i] = t.prefix[i]
  BY DEF Differing
<1>4. s \in [workchain : {0, 1}, prefix : [1 .. n -> {0, 1}]] /\ t \in [workchain : {0, 1}, prefix : [1 .. n -> {0, 1}]]
      /\ s.workchain = t.workchain
  BY <1>1 DEF Comparable, RouteShards
<1> HIDE DEF d, c
<1>5. AfterFlips(s, t, 0) = s
  <2> DEFINE a == AfterFlips(s, t, 0)
  <2>1. /\ a \in [workchain : {0, 1}, prefix : [DOMAIN s.prefix -> {0, 1}]]
        /\ a.workchain = s.workchain
        /\ \A i \in DOMAIN s.prefix : a.prefix[i] = IF i \in d /\ Rank(d, i) <= 0 THEN t.prefix[i] ELSE s.prefix[i]
    BY Flipped DEF d
  <2> HIDE DEF a
  <2>2. \A i \in 1 .. n : a.prefix[i] = s.prefix[i]
    BY <1>1, <1>2, <2>1
  <2>3. a.prefix = s.prefix
    BY <1>1, <2>1, <2>2
  <2>4. a = s
    BY <1>4, <2>1, <2>3
  <2> QED BY <2>4 DEF a
<1>6. AfterFlips(s, t, c) = t
  <2> DEFINE a == AfterFlips(s, t, c)
  <2>1. /\ a \in [workchain : {0, 1}, prefix : [DOMAIN s.prefix -> {0, 1}]]
        /\ a.workchain = s.workchain
        /\ \A i \in DOMAIN s.prefix : a.prefix[i] = IF i \in d /\ Rank(d, i) <= c THEN t.prefix[i] ELSE s.prefix[i]
    BY <1>2, Flipped DEF d
  <2> HIDE DEF a
  <2>2. \A i \in 1 .. n : a.prefix[i] = t.prefix[i]
    BY <1>1, <1>2, <1>3, <2>1
  <2>3. a.prefix = t.prefix
    BY <1>1, <2>1, <2>2
  <2>4. a = t
    BY <1>4, <2>1, <2>3
  <2> QED BY <2>4 DEF a
<1> QED BY <1>5, <1>6 DEF c, d

(* The k-th hop changes the k-th most significant of the differing bits, and only that. *)
LEMMA HopFlips ==
    ASSUME NEW s, NEW t, Comparable(s, t), NEW k \in 1 .. Cardinality(Differing(s, t)),
           NEW x \in Differing(s, t), Rank(Differing(s, t), x) = k
    PROVE  Differing(AfterFlips(s, t, k - 1), AfterFlips(s, t, k)) = {x}
<1> DEFINE d == Differing(s, t)
           a == AfterFlips(s, t, k - 1)
           b == AfterFlips(s, t, k)
<1>1. Cardinality(d) \in Nat /\ \A i \in d : Rank(d, i) \in 1 .. Cardinality(d)
  BY DifferingRanks, Ranks
<1>2. \A i, j \in d : Rank(d, i) = Rank(d, j) => i = j
  BY DifferingRanks, Ranks
<1>3. k \in Int /\ k - 1 \in Int
  BY <1>1
<1>4. /\ DOMAIN a.prefix = DOMAIN s.prefix
      /\ \A i \in DOMAIN s.prefix : a.prefix[i] = IF i \in d /\ Rank(d, i) <= k - 1 THEN t.prefix[i] ELSE s.prefix[i]
  BY <1>3, Flipped
<1>5. /\ DOMAIN b.prefix = DOMAIN s.prefix
      /\ \A i \in DOMAIN s.prefix : b.prefix[i] = IF i \in d /\ Rank(d, i) <= k THEN t.prefix[i] ELSE s.prefix[i]
  BY <1>3, Flipped
<1>6. d \subseteq DOMAIN s.prefix /\ \A i \in d : s.prefix[i] # t.prefix[i]
  BY DEF Differing
<1>7. Differing(a, b) = {i \in DOMAIN a.prefix : a.prefix[i] # b.prefix[i]}
  BY DEF Differing
<1>8. x \in d /\ Rank(d, x) = k
  OBVIOUS
<1> HIDE DEF a, b, d
<1>9. a.prefix[x] # b.prefix[x]
  BY <1>3, <1>4, <1>5, <1>6, <1>8
<1>10. ASSUME NEW i \in DOMAIN s.prefix, i # x PROVE a.prefix[i] = b.prefix[i]
  <2>1. CASE i \notin d
    BY <1>4, <1>5, <2>1
  <2>2. CASE i \in d
    <3>1. Rank(d, i) \in Int /\ Rank(d, i) # k
      BY <1>1, <1>2, <1>8, <1>10, <2>2
    <3>2. Rank(d, i) <= k - 1 <=> Rank(d, i) <= k
      BY <1>3, <3>1
    <3> QED BY <1>4, <1>5, <3>2
  <2> QED BY <2>1, <2>2
<1>11. Differing(a, b) = {x}
  BY <1>4, <1>6, <1>7, <1>8, <1>9, <1>10
<1> QED BY <1>11 DEF a, b

-----------------------------------------------------------------------------
(* The properties of a route from s to t that RouteIsCanonical asks for. *)
Canonical(hops, s, t) ==
    /\ RouteValid(hops, s, t)
    /\ Len(hops) = Cardinality(Differing(s, t))
    /\ \A i, j \in DOMAIN hops : i < j =>
           \A a \in Differing(hops[i].from, hops[i].to), b \in Differing(hops[j].from, hops[j].to) : a < b

LEMMA HopsAreCanonical ==
    ASSUME NEW s, NEW t, Comparable(s, t)
    PROVE  Canonical(Hops(s, t), s, t) /\ Len(Hops(s, t)) \in Nat
<1> DEFINE d == Differing(s, t)
           c == Cardinality(d)
           h == Hops(s, t)
<1>1. /\ c \in Nat
      /\ \A i \in d : Rank(d, i) \in 1 .. c
      /\ \A i, j \in d : i < j => Rank(d, i) < Rank(d, j)
      /\ \A k \in 1 .. c : \E i \in d : Rank(d, i) = k
  BY DifferingRanks, Ranks
<1>2. d \subseteq Int
  BY DifferingRanks
<1>3. /\ DOMAIN h = 1 .. c
      /\ \A k \in 1 .. c : h[k].from = AfterFlips(s, t, k - 1) /\ h[k].to = AfterFlips(s, t, k)
  BY DEF Hops
<1>4. Len(h) = c /\ (h = <<>> <=> c = 0)
  <2> DEFINE S == {h[k] : k \in 1 .. c}
  <2>1. h \in [1 .. c -> S]
    BY <1>3 DEF Hops
  <2> HIDE DEF S, h, c
  <2>2. Len(h) = c
    BY <1>1, <2>1
  <2>3. h \in Seq(S)
    BY <1>1, <2>1, SeqDef
  <2> QED BY <2>2, <2>3
<1>5. \A k \in 1 .. c : \A x \in d : Rank(d, x) = k => Differing(h[k].from, h[k].to) = {x}
  BY <1>3, HopFlips
<1>6. AfterFlips(s, t, 0) = s /\ AfterFlips(s, t, c) = t
  BY FlipEnds
<1>7. ASSUME NEW k \in 1 .. c PROVE are_neighbors(h[k].from, h[k].to)
  <2>1. PICK x \in d : Rank(d, x) = k
    BY <1>1
  <2>2. Cardinality(Differing(h[k].from, h[k].to)) = 1
    BY <1>5, <2>1, FS_Singleton
  <2>3. k \in Int /\ k - 1 \in Int
    BY <1>1
  <2>4. /\ h[k].from \in [workchain : {0, 1}, prefix : [DOMAIN s.prefix -> {0, 1}]]
        /\ h[k].to \in [workchain : {0, 1}, prefix : [DOMAIN s.prefix -> {0, 1}]]
        /\ h[k].from.workchain = s.workchain /\ h[k].to.workchain = s.workchain
    BY <1>3, <2>3, Flipped
  <2>5. PICK n \in Nat : s.prefix \in [1 .. n -> {0, 1}]
    BY PrefixBits
  <2> HIDE DEF h
  <2>6. Len(h[k].from.prefix) = n
    BY <2>4, <2>5
  <2>7. Len(h[k].to.prefix) = n
    BY <2>4, <2>5
  <2> QED BY <2>2, <2>4, <2>6, <2>7 DEF are_neighbors
<1> HIDE DEF h
<1>8. \A k \in 1 .. c : h[k].from = IF k = 1 THEN s ELSE h[k - 1].to
  <2> TAKE k \in 1 .. c
  <2>1. CASE k = 1
    BY <1>3, <1>6, <2>1
  <2>2. CASE k # 1
    <3>1. k - 1 \in 1 .. c
      BY <1>1, <2>2
    <3> QED BY <1>3, <2>2, <3>1
  <2> QED BY <2>1, <2>2
<1>9. t = IF h = <<>> THEN s ELSE h[Len(h)].to
  <2>1. CASE c = 0
    BY <1>4, <1>6, <2>1
  <2>2. CASE c # 0
    <3>1. c \in 1 .. c
      BY <1>1, <2>2
    <3> QED BY <1>3, <1>4, <1>6, <2>2, <3>1
  <2> QED BY <2>1, <2>2
<1>10. RouteValid(h, s, t)
  BY <1>3, <1>7, <1>8, <1>9 DEF RouteValid
<1>11. ASSUME NEW i \in 1 .. c, NEW j \in 1 .. c, i < j,
              NEW a \in Differing(h[i].from, h[i].to), NEW b \in Differing(h[j].from, h[j].to)
       PROVE  a < b
  <2>1. PICK x \in d : Rank(d, x) = i
    BY <1>1
  <2>2. PICK y \in d : Rank(d, y) = j
    BY <1>1
  <2>3. a = x /\ b = y
    BY <1>5, <2>1, <2>2
  <2>4. x \in Int /\ y \in Int /\ i \in Int /\ j \in Int
    BY <1>2
  <2>5. ~(y < x) /\ x # y
    <3>1. y < x => j < i
      BY <1>1, <2>1, <2>2
    <3> QED BY <1>11, <2>1, <2>2, <2>4, <3>1
  <2> QED BY <2>3, <2>4, <2>5
<1> HIDE DEF d
<1>12. \A i, j \in DOMAIN h : i < j =>
           \A a \in Differing(h[i].from, h[i].to), b \in Differing(h[j].from, h[j].to) : a < b
  BY <1>3, <1>11
<1> QED BY <1>1, <1>4, <1>10, <1>12 DEF Canonical, d, h

-----------------------------------------------------------------------------
(* A route that is accepted is long enough. *)

(* Where a route is after its first k hops. *)
ShardAfter(hops, s, k) == IF k = 0 THEN s ELSE hops[k].to

(* One hop changes one bit: the set of the bits changed so far grows by at  *)
(* most one.                                                                *)
LEMMA OneBitMore ==
    ASSUME NEW s, NEW b, NEW c, Comparable(s, b), Comparable(b, c), are_neighbors(b, c),
           NEW k \in Nat, Cardinality(Differing(s, b)) <= k
    PROVE  Comparable(s, c) /\ Cardinality(Differing(s, c)) <= k + 1
<1>1. Comparable(s, c)
  BY DEF Comparable
<1>2. PICK n \in Nat : s.prefix \in [1 .. n -> {0, 1}] /\ b.prefix \in [1 .. n -> {0, 1}] /\ Len(s.prefix) = n
  BY PrefixBits
<1>3. PICK m \in Nat : b.prefix \in [1 .. m -> {0, 1}] /\ c.prefix \in [1 .. m -> {0, 1}]
  BY PrefixBits
<1>4. DOMAIN b.prefix = DOMAIN s.prefix
  BY <1>2
<1> DEFINE U == Differing(s, b)
           V == Differing(b, c)
           W == Differing(s, c)
<1>5. W \subseteq U \cup V
  BY <1>4 DEF Differing
<1>6. IsFiniteSet(U) /\ IsFiniteSet(V) /\ IsFiniteSet(W)
  BY <1>1, DifferingRanks
<1>7. Cardinality(V) = 1
  BY DEF are_neighbors
<1> HIDE DEF U, V, W
<1>8. /\ IsFiniteSet(U \cup V)
      /\ Cardinality(U \cup V) = Cardinality(U) + Cardinality(V) - Cardinality(U \cap V)
  BY <1>6, FS_Union
<1>9. Cardinality(W) <= Cardinality(U \cup V)
  BY <1>5, <1>8, FS_Subset
<1>10. U \cap V \subseteq U
  OBVIOUS
<1>11. IsFiniteSet(U \cap V)
  BY <1>6, <1>10, FS_Subset
<1>12. /\ Cardinality(U) \in Nat /\ Cardinality(U \cap V) \in Nat
       /\ Cardinality(W) \in Nat /\ Cardinality(U \cup V) \in Nat
  BY <1>6, <1>8, <1>11, FS_CardinalityType
<1>13. Cardinality(U) <= k
  BY DEF U
<1>14. Cardinality(W) <= k + 1
  BY <1>7, <1>8, <1>9, <1>12, <1>13
<1> QED BY <1>1, <1>14 DEF W

(* A route that validate_hypercube_route lets through has a hop for every    *)
(* bit in which source and destination differ.                              *)
LEMMA RoutesAreLongEnough ==
    ASSUME NEW s, NEW t, Comparable(s, t),
           NEW hops \in Seq([from : RouteShards, to : RouteShards]), RouteValid(hops, s, t)
    PROVE  Cardinality(Differing(s, t)) <= Len(hops)
<1> DEFINE at(k) == ShardAfter(hops, s, k)
           G == {k \in 0 .. Len(hops) : Comparable(s, at(k)) /\ Cardinality(Differing(s, at(k))) <= k}
<1>1. Len(hops) \in Nat /\ DOMAIN hops = 1 .. Len(hops)
  OBVIOUS
<1>2. 0 \in G
  <2>1. at(0) = s
    BY DEF ShardAfter
  <2>2. Comparable(s, s)
    BY DEF Comparable
  <2>3. Differing(s, s) = {}
    BY DEF Differing
  <2>4. Cardinality(Differing(s, s)) = 0
    BY <2>3, FS_EmptySet
  <2> HIDE DEF at
  <2> QED BY <1>1, <2>1, <2>2, <2>4
<1>3. ASSUME NEW i \in 1 .. Len(hops), i - 1 \in G PROVE i \in G
  <2>1. i \in DOMAIN hops /\ i - 1 \in Nat /\ i \in 0 .. Len(hops)
    BY <1>1
  <2>2. hops[i].from = at(i - 1) /\ hops[i].to = at(i)
    BY <2>1 DEF RouteValid, ShardAfter
  <2>3. are_neighbors(at(i - 1), at(i))
    BY <2>1, <2>2 DEF RouteValid
  <2>4. at(i - 1) \in RouteShards /\ at(i) \in RouteShards
    <3>1. hops[i] \in [from : RouteShards, to : RouteShards]
      BY ElementOfSeq
    <3> QED BY <2>2, <3>1
  <2>5. Comparable(at(i - 1), at(i))
    BY <2>3, <2>4 DEF Comparable, are_neighbors
  <2>6. Comparable(s, at(i - 1)) /\ Cardinality(Differing(s, at(i - 1))) <= i - 1
    BY <1>3
  <2> HIDE DEF at
  <2>7. Comparable(s, at(i)) /\ Cardinality(Differing(s, at(i))) <= (i - 1) + 1
    BY <2>1, <2>3, <2>5, <2>6, OneBitMore
  <2>8. (i - 1) + 1 = i
    BY <2>1
  <2> QED BY <2>1, <2>7, <2>8
<1>4. \A i \in 0 .. Len(hops) : i \in G
  <2> HIDE DEF G
  <2> QED BY <1>1, <1>2, <1>3, IntervalInduction
<1>5. Len(hops) \in G
  BY <1>1, <1>4
<1>6. at(Len(hops)) = t
  <2>1. hops = <<>> <=> Len(hops) = 0
    BY EmptySeq
  <2> QED BY <2>1 DEF RouteValid, ShardAfter
<1> HIDE DEF at
<1> QED BY <1>5, <1>6

-----------------------------------------------------------------------------
(* A plan is none, or that of the request it was made for. *)
RouterInv == request \in Requests /\ (plan = Refused \/ plan = plan_hypercube_route(request))

(* What a plan can be. *)
LEMMA PlanIs ==
    ASSUME NEW r \in Requests
    PROVE  \/ plan_hypercube_route(r) = Refused
           \/ /\ Comparable(r.source, r.destination)
              /\ plan_hypercube_route(r).ok = TRUE
              /\ plan_hypercube_route(r).hops = Hops(r.source, r.destination)
              /\ plan_hypercube_route(r).fee = r.fee * Len(Hops(r.source, r.destination))
              /\ plan_hypercube_route(r).fee <= MaxFee
              /\ plan_hypercube_route(r).remaining = r.amount - plan_hypercube_route(r).fee
<1> DEFINE fee == r.fee * Len(Hops(r.source, r.destination))
           Accepts == /\ r.type = "Internal" /\ r.inShards
                      /\ r.source.workchain = r.destination.workchain
                      /\ Len(r.source.prefix) = Len(r.destination.prefix)
                      /\ fee <= MaxFee /\ fee <= r.amount
<1>1. plan_hypercube_route(r) =
        IF Accepts
        THEN [hops |-> Hops(r.source, r.destination), fee |-> fee, remaining |-> r.amount - fee, ok |-> TRUE]
        ELSE Refused
  BY DEF plan_hypercube_route
<1>2. CASE Accepts
  <2>1. plan_hypercube_route(r) =
          [hops |-> Hops(r.source, r.destination), fee |-> fee, remaining |-> r.amount - fee, ok |-> TRUE]
    BY <1>1, <1>2
  <2>2. Comparable(r.source, r.destination)
    BY <1>2 DEF Comparable, Requests
  <2>3. fee <= MaxFee
    BY <1>2
  <2> HIDE DEF fee
  <2>4. /\ plan_hypercube_route(r).ok = TRUE
        /\ plan_hypercube_route(r).hops = Hops(r.source, r.destination)
        /\ plan_hypercube_route(r).fee = fee
        /\ plan_hypercube_route(r).remaining = r.amount - fee
    BY <2>1
  <2> QED BY <2>2, <2>3, <2>4 DEF fee
<1>3. CASE ~Accepts
  <2> HIDE DEF Accepts
  <2> QED BY <1>1, <1>3
<1> QED BY <1>2, <1>3

LEMMA RouterStarts == RouterInit => RouterInv
  BY DEF RouterInit, RouterInv

LEMMA RouterStep == RouterInv /\ [RouterNext]_routerVars => RouterInv'
  BY DEF RouterInv, RouterNext, Route, routerVars

LEMMA RouterInvImplies == RouterInv => RouterTypeOK /\ RouteIsCanonical
<1> SUFFICES ASSUME RouterInv PROVE RouterTypeOK /\ RouteIsCanonical
  OBVIOUS
<1>0. request \in Requests
  BY DEF RouterInv
<1>1. /\ request \in Requests /\ request.fee \in Nat /\ request.amount \in Nat
      /\ 0 \in 0 .. MaxFee /\ MaxFee \in Nat
  <2>1. request.fee \in HopFees /\ request.amount \in Amounts
    BY <1>0 DEF Requests
  <2>2. request.fee \in Nat
    BY <2>1, RouterAssumption
  <2>3. request.amount \in Nat
    BY <2>1, RouterAssumption
  <2>4. MaxFee \in Nat /\ 0 \in 0 .. MaxFee
    BY RouterAssumption
  <2> QED BY <1>0, <2>2, <2>3, <2>4
<1>2. CASE plan = Refused
  BY <1>1, <1>2 DEF Refused, RouterTypeOK, RouteIsCanonical
<1>3. CASE plan # Refused
  <2> DEFINE s == request.source
             t == request.destination
  <2>1. plan = plan_hypercube_route(request)
    BY <1>3 DEF RouterInv
  <2>2. /\ Comparable(s, t)
        /\ plan.ok = TRUE
        /\ plan.hops = Hops(s, t)
        /\ plan.fee = request.fee * Len(Hops(s, t))
        /\ plan.fee <= MaxFee
        /\ plan.remaining = request.amount - plan.fee
    BY <1>1, <1>3, <2>1, PlanIs
  <2> HIDE DEF s, t
  <2>3. Canonical(Hops(s, t), s, t) /\ Len(Hops(s, t)) \in Nat
    BY <2>2, HopsAreCanonical
  <2>4. plan.fee \in Nat
    BY <1>1, <2>2, <2>3
  <2>5. plan.fee + plan.remaining = request.amount
    BY <1>1, <2>2, <2>4
  <2>6. Len(Hops(s, t)) > 1 => ~RouteValid(<<[from |-> s, to |-> t]>>, s, t)
    <3>1. Len(Hops(s, t)) = Cardinality(Differing(s, t))
      BY <2>3 DEF Canonical
    <3>2. 1 \in DOMAIN <<[from |-> s, to |-> t]>> /\ <<[from |-> s, to |-> t]>>[1].from = s
          /\ <<[from |-> s, to |-> t]>>[1].to = t
      OBVIOUS
    <3>3. RouteValid(<<[from |-> s, to |-> t]>>, s, t) => are_neighbors(s, t)
      BY <3>2 DEF RouteValid
    <3> QED BY <2>3, <3>1, <3>3 DEF are_neighbors
  <2>7. RouterTypeOK
    <3>1. plan.fee \in 0 .. MaxFee
      BY <1>1, <2>2, <2>4
    <3>2. plan.ok \in BOOLEAN
      BY <2>2, Zenon
    <3> QED BY <1>1, <3>1, <3>2 DEF RouterTypeOK
  <2>8. RouteIsCanonical
    BY <2>2, <2>3, <2>5, <2>6 DEF Canonical, RouteIsCanonical, s, t
  <2> QED BY <2>7, <2>8
<1> QED BY <1>2, <1>3

(* RouterInv holds throughout. *)
THEOREM RouterInductive == RouterSpec => []RouterInv
  BY RouterStarts, RouterStep, PTL DEF RouterSpec

(* A fee plan_hypercube_route answers with is never negative nor above u128. *)
THEOREM RouterTypeCorrect == RouterSpec => []RouterTypeOK
  BY RouterInductive, RouterInvImplies, PTL

(* plan_hypercube_route, for prefixes of every length: the route passes     *)
(* validate_hypercube_route, has one hop for each differing bit, changes    *)
(* them from the most significant down, and fee and remaining value are the *)
(* amount.                                                                  *)
THEOREM RoutesAreCanonical == RouterSpec => []RouteIsCanonical
  BY RouterInductive, RouterInvImplies, PTL

(* plan_hypercube_route plans a shortest route: no route that               *)
(* validate_hypercube_route lets through has fewer hops.                    *)
NoRouteIsShorter ==
    plan.ok =>
        \A hops \in Seq([from : RouteShards, to : RouteShards]) :
            RouteValid(hops, request.source, request.destination) => Len(plan.hops) <= Len(hops)

(* However many hops somebody supplies, the planned route, and so its fee,  *)
(* is the least validate_hypercube_route accepts, for prefixes of every     *)
(* length.                                                                  *)
THEOREM RoutesAreShortest == RouterSpec => []NoRouteIsShorter
<1>1. RouterInv => NoRouteIsShorter
  <2> SUFFICES ASSUME RouterInv, plan.ok,
                      NEW hops \in Seq([from : RouteShards, to : RouteShards]),
                      RouteValid(hops, request.source, request.destination)
               PROVE  Len(plan.hops) <= Len(hops)
    BY DEF NoRouteIsShorter
  <2>1. request \in Requests /\ plan = plan_hypercube_route(request) /\ plan # Refused
    BY DEF RouterInv, Refused
  <2>2. /\ Comparable(request.source, request.destination)
        /\ plan.hops = Hops(request.source, request.destination)
    BY <2>1, PlanIs
  <2>3. Len(plan.hops) = Cardinality(Differing(request.source, request.destination))
    BY <2>2, HopsAreCanonical DEF Canonical
  <2> QED BY <2>2, <2>3, RoutesAreLongEnough
<1> QED BY <1>1, RouterInductive, PTL

-----------------------------------------------------------------------------
(***************************************************************************)
(* Stakes.  The floor shares of a reward fall short of it by at most one   *)
(* unit for each validator, so the remainder is handed out to the last unit;*)
(* the place of a candidate in the election tells how its stake compares   *)
(* with the least elected one.                                             *)
(***************************************************************************)

(* Products of natural numbers, for the provers. *)
LEMMA Cancel ==
    ASSUME NEW t \in Nat, t # 0, NEW a \in Int, NEW b \in Int, t * a <= t * b
    PROVE  a <= b
<1> SUFFICES ASSUME a > b PROVE FALSE
  OBVIOUS
<1> DEFINE x == a - b - 1
<1>1. x \in Nat /\ a = b + 1 + x
  OBVIOUS
<1>2. t * x \in Nat
  BY <1>1
<1>3. t * a = t * b + t + t * x
  BY <1>1
<1> QED BY <1>2, <1>3

LEMMA Larger ==
    ASSUME NEW a \in Nat, NEW b \in Nat, a <= b, NEW t \in Nat
    PROVE  a * t <= b * t
<1> DEFINE x == b - a
<1>1. x \in Nat /\ b = a + x
  OBVIOUS
<1>2. x * t \in Nat
  BY <1>1
<1>3. b * t = a * t + x * t
  BY <1>1
<1>4. a * t \in Int /\ b * t \in Int
  OBVIOUS
<1> HIDE DEF x
<1> QED BY <1>2, <1>3, <1>4

LEMMA Divided ==
    ASSUME NEW a \in Nat, NEW t \in Nat, t # 0
    PROVE  /\ a \div t \in Nat
           /\ t * (a \div t) <= a
           /\ a < t * (a \div t) + t
<1>1. a \div t \in Int /\ a = t * (a \div t) + (a % t) /\ a % t \in 0 .. t - 1
  OBVIOUS
<1>2. a \div t >= 0
  OBVIOUS
<1> QED BY <1>1, <1>2

FloorShares(stake, n, reward) == [i \in 1 .. n |-> Share(reward, stake[i], SumTo(stake, n))]

(* The shares of a reward, rounded down, fall short of it by less than one
   unit for each validator. *)
LEMMA SharesFit ==
    ASSUME NEW n \in Nat, n # 0, NEW stake \in [1 .. n -> Nat \ {0}], NEW reward \in Nat
    PROVE  /\ SumTo(stake, n) \in Nat \ {0}
           /\ FloorShares(stake, n, reward) \in [1 .. n -> Nat]
           /\ SumTo(FloorShares(stake, n, reward), n) \in Int
           /\ reward - SumTo(FloorShares(stake, n, reward), n) \in 0 .. n
<1> DEFINE T == SumTo(stake, n)
           share == FloorShares(stake, n, reward)
<1>0. share = [i \in 1 .. n |-> Share(reward, stake[i], SumTo(stake, n))]
  BY DEF FloorShares
<1> HIDE DEF share
<1>1. stake \in [1 .. n -> Int]
  OBVIOUS
<1>2. PICK s : PartialSums(s, stake, n)
  BY <1>1, PartialSumsExist
<1>3. s \in [0 .. n -> Int] /\ s[0] = 0 /\ \A i \in 1 .. n : s[i] = s[i - 1] + stake[i]
  BY <1>2 DEF PartialSums
<1>4. T = s[n]
  BY <1>1, <1>2, SumToIsPartial
<1>5. \A i \in 0 .. n : s[i] \in Nat
  <2> DEFINE G == {i \in 0 .. n : s[i] \in Nat}
  <2>1. 0 \in G
    BY <1>3
  <2>2. \A i \in 1 .. n : i - 1 \in G => i \in G
    BY <1>3
  <2>3. \A i \in 0 .. n : i \in G
    <3> HIDE DEF G
    <3> QED BY <2>1, <2>2, IntervalInduction
  <2> QED BY <2>3
<1>6. T \in Nat \ {0}
  <2>1. n \in 1 .. n /\ n - 1 \in 0 .. n
    OBVIOUS
  <2>2. s[n] = s[n - 1] + stake[n] /\ s[n - 1] \in Nat /\ stake[n] \in Nat \ {0}
    BY <1>3, <1>5, <2>1
  <2> QED BY <1>4, <2>2
<1> HIDE DEF T
<1>7. \A i \in 1 .. n : /\ share[i] \in Nat
                        /\ T * share[i] <= reward * stake[i]
                        /\ reward * stake[i] <= T * share[i] + T
  <2> TAKE i \in 1 .. n
  <2>1. share[i] = (reward * stake[i]) \div T
    BY <1>0 DEF Share, T
  <2> DEFINE a == reward * stake[i]
  <2>2. a \in Nat
    OBVIOUS
  <2> HIDE DEF a
  <2> DEFINE q == a \div T
  <2>3. q \in Nat /\ T * q <= a /\ a < T * q + T
    BY <1>6, <2>2, Divided
  <2>4. share[i] = q
    BY <2>1 DEF a
  <2> HIDE DEF q
  <2>5. T * q \in Int /\ T \in Int
    BY <1>6, <2>3
  <2>6. q \in Nat /\ T * q <= a /\ a <= T * q + T
    BY <2>2, <2>3, <2>5
  <2>7. share[i] \in Nat /\ T * share[i] <= a /\ a <= T * share[i] + T
    BY <2>4, <2>6, Zenon
  <2> QED BY <2>7 DEF a
<1>8. share \in [1 .. n -> Nat] /\ share \in [1 .. n -> Int]
  BY <1>0, <1>7
<1>9. PICK a : PartialSums(a, share, n)
  BY <1>8, PartialSumsExist
<1>10. a \in [0 .. n -> Int] /\ a[0] = 0 /\ \A i \in 1 .. n : a[i] = a[i - 1] + share[i]
  BY <1>9 DEF PartialSums
<1>11. SumTo(share, n) = a[n]
  BY <1>8, <1>9, SumToIsPartial
<1>12. \A i \in 0 .. n : T * a[i] <= reward * s[i] /\ reward * s[i] <= T * (a[i] + i)
  <2> DEFINE G == {i \in 0 .. n : T * a[i] <= reward * s[i] /\ reward * s[i] <= T * (a[i] + i)}
  <2>1. 0 \in G
    BY <1>3, <1>6, <1>10
  <2>2. ASSUME NEW i \in 1 .. n, i - 1 \in G PROVE i \in G
    <3> DEFINE a0 == a[i - 1]
               s0 == s[i - 1]
               x == share[i]
               y == stake[i]
    <3>1. i - 1 \in 0 .. n /\ i \in 0 .. n /\ i \in Int
      OBVIOUS
    <3>2. a0 \in Int /\ s0 \in Int /\ x \in Int /\ y \in Int /\ a[i] = a0 + x /\ s[i] = s0 + y
      <4>1. a0 \in Int /\ s0 \in Int
        BY <1>3, <1>10, <3>1
      <4>2. x \in Int
        BY <1>7
      <4>3. y \in Int
        OBVIOUS
      <4>4. a[i] = a0 + x /\ s[i] = s0 + y
        BY <1>3, <1>10, Zenon
      <4> QED BY <4>1, <4>2, <4>3, <4>4
    <3>3. T * a0 <= reward * s0 /\ reward * s0 <= T * (a0 + (i - 1))
      BY <2>2
    <3>4. T * x <= reward * y /\ reward * y <= T * x + T
      BY <1>7
    <3> HIDE DEF a0, s0, x, y
    <3>5. T * (a0 + x) = T * a0 + T * x /\ reward * (s0 + y) = reward * s0 + reward * y
      BY <1>6, <3>2
    <3>6. T * (a0 + x + i) = T * (a0 + (i - 1)) + T * x + T
      BY <1>6, <3>1, <3>2
    <3>7. /\ T * a0 \in Int /\ T * x \in Int /\ reward * s0 \in Int /\ reward * y \in Int
          /\ T * (a0 + (i - 1)) \in Int
      BY <1>6, <3>1, <3>2
    <3>8. T * (a0 + x) <= reward * (s0 + y)
      BY <3>3, <3>4, <3>5, <3>7
    <3>9. reward * (s0 + y) <= T * (a0 + x + i)
      <4> DEFINE u == reward * s0
                 v == reward * y
                 w == T * (a0 + (i - 1))
                 z == T * x
      <4>1. u \in Int /\ v \in Int /\ w \in Int /\ z \in Int /\ T \in Int
        BY <1>6, <3>7
      <4>2. u <= w /\ v <= z + T
        BY <3>3, <3>4
      <4>3. reward * (s0 + y) = u + v /\ T * (a0 + x + i) = w + z + T
        BY <3>5, <3>6
      <4> HIDE DEF u, v, w, z
      <4> QED BY <4>1, <4>2, <4>3
    <3> QED BY <3>1, <3>2, <3>8, <3>9
  <2>3. \A i \in 0 .. n : i \in G
    <3> HIDE DEF G
    <3> QED BY <2>1, <2>2, IntervalInduction
  <2> QED BY <2>3
<1>13. reward - a[n] \in 0 .. n
  <2>1. n \in 0 .. n /\ a[n] \in Int
    BY <1>10
  <2>2. T * a[n] <= reward * T /\ reward * T <= T * (a[n] + n)
    BY <1>4, <1>12, <2>1
  <2>3. reward * T = T * reward
    BY <1>6
  <2>4. a[n] <= reward
    BY <1>6, <2>1, <2>2, <2>3, Cancel
  <2>5. reward <= a[n] + n
    <3> DEFINE b == a[n] + n
    <3>1. b \in Int /\ T * reward <= T * b
      BY <2>1, <2>2, <2>3
    <3> HIDE DEF b
    <3>2. reward <= b
      BY <1>6, <3>1, Cancel
    <3> QED BY <3>2 DEF b
  <2> QED BY <2>1, <2>4, <2>5
<1>14. SumTo(share, n) \in Int /\ reward - SumTo(share, n) \in 0 .. n
  BY <1>10, <1>11, <1>13
<1> QED BY <1>6, <1>8, <1>14 DEF T, share

(* The rewards add up to what is distributed. *)
LEMMA DistributedExactly ==
    ASSUME NEW n \in Nat, n # 0, NEW stake \in [1 .. n -> Nat \ {0}], NEW reward \in Nat
    PROVE  /\ Distribute(stake, n, reward) \in [1 .. n -> Nat]
           /\ SumTo(Distribute(stake, n, reward), n) = reward
<1> DEFINE share == FloorShares(stake, n, reward)
           left == reward - SumTo(share, n)
           d == [i \in 1 .. n |-> share[i] + IF i <= left THEN 1 ELSE 0]
<1>1. Distribute(stake, n, reward) = d
  BY DEF Distribute, FloorShares
<1>2. share \in [1 .. n -> Nat] /\ SumTo(share, n) \in Int /\ left \in 0 .. n
  BY SharesFit
<1>3. SumTo(share, n) + left = reward
  <2> HIDE DEF share
  <2> QED BY <1>2
<1> HIDE DEF share, left
<1>4. \A i \in 1 .. n : d[i] \in Nat /\ (i <= left => d[i] = share[i] + 1) /\ (~(i <= left) => d[i] = share[i])
  BY <1>2
<1>5. d \in [1 .. n -> Nat] /\ d \in [1 .. n -> Int] /\ share \in [1 .. n -> Int]
  <2>1. \A i \in 1 .. n : d[i] \in Int
    BY <1>4
  <2> QED BY <1>2, <1>4, <2>1
<1>6. PICK a : PartialSums(a, share, n)
  BY <1>5, PartialSumsExist
<1>7. a \in [0 .. n -> Int] /\ a[0] = 0 /\ \A i \in 1 .. n : a[i] = a[i - 1] + share[i]
  BY <1>6 DEF PartialSums
<1> HIDE DEF d
<1>8. PICK b : PartialSums(b, d, n)
  BY <1>5, PartialSumsExist
<1>9. b \in [0 .. n -> Int] /\ b[0] = 0 /\ \A i \in 1 .. n : b[i] = b[i - 1] + d[i]
  BY <1>8 DEF PartialSums
<1>10. SumTo(share, n) = a[n] /\ SumTo(d, n) = b[n]
  BY <1>5, <1>6, <1>8, SumToIsPartial
<1>11. \A i \in 0 .. n : b[i] = a[i] + IF i <= left THEN i ELSE left
  <2> DEFINE G == {i \in 0 .. n : b[i] = a[i] + IF i <= left THEN i ELSE left}
  <2>1. 0 \in G
    BY <1>2, <1>7, <1>9
  <2>2. ASSUME NEW i \in 1 .. n, i - 1 \in G PROVE i \in G
    <3>1. i - 1 \in 0 .. n /\ i \in 0 .. n
      OBVIOUS
    <3>2. a[i - 1] \in Int /\ share[i] \in Int /\ a[i] = a[i - 1] + share[i] /\ b[i] = b[i - 1] + d[i]
      BY <1>5, <1>7, <1>9, <3>1
    <3>3. b[i - 1] = a[i - 1] + IF i - 1 <= left THEN i - 1 ELSE left
      BY <2>2
    <3>4. CASE i <= left
      <4>1. (IF i - 1 <= left THEN i - 1 ELSE left) = i - 1 /\ d[i] = share[i] + 1
        BY <1>2, <1>4, <3>4
      <4> DEFINE a0 == a[i - 1]
                 x == share[i]
                 b0 == b[i - 1]
                 y == d[i]
      <4>2. b0 = a0 + (i - 1) /\ y = x + 1
        BY <3>3, <4>1
      <4>4. b[i] = b0 + y /\ a[i] = a0 + x /\ a0 \in Int /\ x \in Int /\ i \in Int
        BY <3>1, <3>2
      <4> HIDE DEF a0, x, b0, y
      <4>3. b[i] = a[i] + i
        BY <4>2, <4>4
      <4> QED BY <3>1, <3>4, <4>3
    <3>5. CASE ~(i <= left)
      <4>1. (IF i - 1 <= left THEN i - 1 ELSE left) = left
        BY <1>2, <3>5
      <4> DEFINE a0 == a[i - 1]
                 x == share[i]
      <4>2. b[i - 1] = a0 + left /\ d[i] = x
        BY <1>4, <3>3, <3>5, <4>1
      <4>3. b[i] = (a0 + left) + x /\ a[i] = a0 + x /\ a0 \in Int /\ x \in Int /\ left \in Int
        BY <1>2, <3>2, <4>2
      <4> HIDE DEF a0, x
      <4>4. b[i] = a[i] + left
        BY <4>3
      <4> QED BY <3>1, <3>5, <4>4
    <3> QED BY <3>4, <3>5
  <2>3. \A i \in 0 .. n : i \in G
    <3> HIDE DEF G
    <3> QED BY <2>1, <2>2, IntervalInduction
  <2> QED BY <2>3
<1>12. b[n] = a[n] + left
  <2>1. n \in 0 .. n
    OBVIOUS
  <2>2. b[n] = a[n] + IF n <= left THEN n ELSE left
    BY <1>11, <2>1
  <2> QED BY <1>2, <1>7, <2>2
<1> QED BY <1>1, <1>3, <1>5, <1>10, <1>12

-----------------------------------------------------------------------------
Amount == 0 .. (U64 - 1)

StakeEntries == [proposed : Amount, elected : BOOLEAN, locked : Amount, refunded : Amount, debited : Amount]

(* What StakesAddUp says of the entry e of candidate k. *)
EntrySound(k, e, submitted, min) ==
    /\ e.proposed = e.locked + e.refunded + e.debited
    /\ ~e.elected => e.refunded = e.proposed /\ e.proposed <= min
    /\ e.elected => e.proposed >= min
    /\ e.elected /\ MaxLoadFactor * min < 100 * U64 =>
           \E i \in DOMAIN submitted :
               /\ submitted[i].key = k
               /\ e.locked + e.debited =
                    IF e.proposed * 100 <= submitted[i].factor * min
                    THEN e.proposed ELSE (submitted[i].factor * min) \div 100

StakesInv ==
    /\ candidates \in Seq(Offers)
    /\ ledger \in [DOMAIN ledger -> StakeEntries]
    /\ DOMAIN ledger \subseteq {o.key : o \in Offers}
    /\ IsFiniteSet(DOMAIN ledger)
    /\ slashes \in 0 .. MaxSlashes
    /\ minimum \in Amount
    /\ \A k \in DOMAIN ledger : EntrySound(k, ledger[k], candidates, minimum)

RewardsInv ==
    /\ minted \in Nat
    /\ rewards \in Seq([validator : DOMAIN ledger, amount : Nat])
    /\ RewardsAddUp

StakingInv == StakesInv /\ RewardsInv

LEMMA UnitAssumption == U64 \in Nat /\ U64 # 0 /\ 0 \in Amount /\ Amount \subseteq Nat
BY StakingAssumption DEF Amount

LEMMA StakingStarts == StakingInit => StakingInv
<1> SUFFICES ASSUME StakingInit PROVE StakingInv
  OBVIOUS
<1>1. candidates = <<>> /\ ledger = NONE /\ slashes = 0 /\ minimum = 0
      /\ minted = 0 /\ rewards = <<>> /\ fees = [total |-> 0, burned |-> 0, paid |-> 0]
  BY DEF StakingInit
<1>2. DOMAIN ledger = {} /\ ledger \in [{} -> StakeEntries]
  BY <1>1 DEF NONE
<1>3. StakesInv
  BY <1>1, <1>2, UnitAssumption, StakingAssumption, FS_EmptySet DEF StakesInv
<1>4. SumTo([i \in 1 .. Len(rewards) |-> rewards[i].amount], Len(rewards)) = 0
  <2> DEFINE f == [i \in 1 .. Len(rewards) |-> rewards[i].amount]
  <2>1. Len(rewards) = 0
    BY <1>1
  <2>2. f \in [1 .. 0 -> Int]
    BY <2>1
  <2> HIDE DEF f
  <2>3. SumTo(f, 0) = 0
    BY <2>2, SumToZero
  <2> QED BY <2>1, <2>3 DEF f
<1>5. RewardsInv
  <2>1. rewards \in Seq([validator : DOMAIN ledger, amount : Nat])
    BY <1>1
  <2>2. fees.total = fees.burned + fees.paid
    BY <1>1
  <2> QED BY <1>1, <1>4, <2>1, <2>2 DEF RewardsInv, RewardsAddUp
<1> QED BY <1>3, <1>5 DEF StakingInv

LEMMA SubmitStep ==
    ASSUME StakingInv, NEW o \in Offers, Submit(o)
    PROVE  StakingInv'
<1>1. /\ candidates' = Append(candidates, o) /\ ledger = NONE
      /\ UNCHANGED <<ledger, slashes, minimum, minted, rewards, fees>>
  BY DEF Submit
<1>2. DOMAIN ledger = {} /\ DOMAIN ledger' = {}
  BY <1>1 DEF NONE
<1>3. candidates' \in Seq(Offers)
  BY <1>1 DEF StakingInv, StakesInv
<1>4. StakesInv'
  BY <1>1, <1>2, <1>3 DEF StakingInv, StakesInv
<1>5. RewardsInv'
  BY <1>1 DEF StakingInv, RewardsInv, RewardsAddUp
<1> QED BY <1>4, <1>5 DEF StakingInv

LEMMA SlashStep ==
    ASSUME StakingInv, NEW k \in Elected, NEW r \in DOMAIN BasisPoints, Slash(k, r)
    PROVE  StakingInv'
<1> DEFINE e == ledger[k]
           debit == (e.locked * BasisPoints[r]) \div 10000
           f == ledger'[k]
<1>1. /\ slashes < MaxSlashes /\ slashes' = slashes + 1
      /\ ledger' = [ledger EXCEPT ![k].locked = @ - debit, ![k].debited = @ + debit]
      /\ UNCHANGED <<candidates, minimum, minted, rewards, fees>>
  BY DEF Slash
<1>2. k \in DOMAIN ledger /\ ledger \in [DOMAIN ledger -> StakeEntries]
  BY DEF Elected, StakingInv, StakesInv
<1>3. /\ e.proposed \in Nat /\ e.proposed <= U64 - 1 /\ e.elected \in BOOLEAN /\ e.locked \in Nat
      /\ e.refunded \in Nat /\ e.debited \in Nat /\ U64 \in Nat
  <2>1. e \in StakeEntries
    BY <1>2
  <2>2. e.proposed \in Amount /\ e.locked \in Amount /\ e.refunded \in Amount /\ e.debited \in Amount
    BY <2>1 DEF StakeEntries
  <2>3. e.elected \in BOOLEAN
    BY <2>1 DEF StakeEntries
  <2> HIDE DEF e
  <2>4. e.proposed <= U64 - 1
    BY <2>2, UnitAssumption DEF Amount
  <2> QED BY <2>2, <2>3, <2>4, UnitAssumption
<1>4. debit \in Nat /\ debit <= e.locked
  <2> HIDE DEF e
  <2>1. r = "DoubleSigning" \/ r = "PersistentOffline"
    BY DEF BasisPoints
  <2>2. CASE r = "DoubleSigning"
    <3>1. debit = (e.locked * 10000) \div 10000
      BY <2>2 DEF BasisPoints
    <3> QED BY <1>3, <3>1
  <2>3. CASE r = "PersistentOffline"
    <3>1. debit = (e.locked * 1000) \div 10000
      BY <2>3 DEF BasisPoints
    <3> QED BY <1>3, <3>1
  <2> QED BY <2>1, <2>2, <2>3
<1>5. EntrySound(k, e, candidates, minimum)
  BY <1>2 DEF StakingInv, StakesInv
<1>6. e.proposed = e.locked + e.refunded + e.debited
  BY <1>5 DEF EntrySound
<1>7. /\ DOMAIN ledger' = DOMAIN ledger
      /\ \A j \in DOMAIN ledger : j # k => ledger'[j] = ledger[j]
      /\ f = [proposed |-> e.proposed, elected |-> e.elected, locked |-> e.locked - debit,
              refunded |-> e.refunded, debited |-> e.debited + debit]
  <2> HIDE DEF debit
  <2>1. e = [proposed |-> e.proposed, elected |-> e.elected, locked |-> e.locked,
             refunded |-> e.refunded, debited |-> e.debited]
    BY <1>2 DEF StakeEntries
  <2> QED BY <1>1, <1>2, <2>1
<1> HIDE DEF e, debit, f
<1>8. f \in StakeEntries
  <2>1. e.proposed \in Amount /\ e.locked - debit \in Amount /\ e.refunded \in Amount /\ e.debited + debit \in Amount
    BY <1>3, <1>4, <1>6 DEF Amount
  <2> QED BY <1>3, <1>7, <2>1 DEF StakeEntries
<1>9. EntrySound(k, f, candidates, minimum)
  <2>1. /\ f.proposed = e.proposed /\ f.elected = e.elected /\ f.refunded = e.refunded
        /\ f.locked = e.locked - debit /\ f.debited = e.debited + debit
    BY <1>7
  <2>2. f.locked + f.debited = e.locked + e.debited
    BY <1>3, <1>4, <2>1
  <2>3. f.proposed = f.locked + f.refunded + f.debited
    BY <1>3, <1>4, <1>6, <2>1
  <2> QED BY <1>5, <2>1, <2>2, <2>3 DEF EntrySound
<1>10. ledger' \in [DOMAIN ledger' -> StakeEntries]
  <2>1. \A j \in DOMAIN ledger : ledger'[j] \in StakeEntries
    BY <1>2, <1>7, <1>8 DEF f
  <2>2. ledger' = [j \in DOMAIN ledger |-> ledger'[j]]
    BY <1>1, <1>2
  <2> QED BY <1>7, <2>1, <2>2
<1>11. StakesInv'
  <2>1. \A j \in DOMAIN ledger' : EntrySound(j, ledger'[j], candidates', minimum')
    BY <1>1, <1>7, <1>9 DEF StakingInv, StakesInv, f
  <2>2. slashes' \in 0 .. MaxSlashes
    BY <1>1, StakingAssumption DEF StakingInv, StakesInv
  <2> QED BY <1>1, <1>7, <1>10, <2>1, <2>2 DEF StakingInv, StakesInv
<1>12. RewardsInv'
  BY <1>1, <1>7 DEF StakingInv, RewardsInv, RewardsAddUp
<1> QED BY <1>11, <1>12 DEF StakingInv

LEMMA FeeStep ==
    ASSUME StakingInv, NEW fee \in Fees, CollectFee(fee)
    PROVE  StakingInv'
<1> DEFINE burned == (fee * FEE_BURN_RATIO_PERCENT) \div 100
<1>1. /\ fees' = [total |-> fee, burned |-> burned, paid |-> fee - burned]
      /\ UNCHANGED <<candidates, ledger, slashes, minimum, minted, rewards>>
  BY DEF CollectFee
<1>2. fee \in Nat /\ burned \in Int
  BY StakingAssumption DEF FEE_BURN_RATIO_PERCENT
<1>3. fees'.total = fees'.burned + fees'.paid
  <2> HIDE DEF burned
  <2> QED BY <1>1, <1>2
<1>4. StakesInv'
  BY <1>1 DEF StakingInv, StakesInv
<1>5. RewardsInv'
  BY <1>1, <1>3 DEF StakingInv, RewardsInv, RewardsAddUp
<1> QED BY <1>4, <1>5 DEF StakingInv

-----------------------------------------------------------------------------
(* The election: those selected are the ones with the largest stakes, and the
   last of them has the least. *)
LEMMA Selected ==
    ASSUME candidates \in Seq(Offers), CandidatesValid, SelectedCount # 0
    PROVE  /\ LastSelected \in DOMAIN candidates
           /\ SelectedCount \in Int /\ \A i \in DOMAIN candidates : Place(i) \in Int
           /\ \A i \in DOMAIN candidates :
                  /\ Place(i) < SelectedCount => candidates[i].stake >= candidates[LastSelected].stake
                  /\ ~(Place(i) < SelectedCount) => candidates[i].stake <= candidates[LastSelected].stake
<1> DEFINE n == Len(candidates)
           S == DOMAIN candidates
           R == {p \in S \X S : Precedes(candidates[p[1]], candidates[p[2]])}
<1>1. S = 1 .. n /\ n \in Nat /\ IsFiniteSet(S) /\ Cardinality(S) = n
  <2>1. S = 1 .. n /\ n \in Nat
    OBVIOUS
  <2> HIDE DEF S, n
  <2> QED BY <2>1, FS_Interval
<1>2. \A i \in S : candidates[i].key \in Nat /\ candidates[i].stake \in Nat
  <2> TAKE i \in S
  <2>1. candidates[i] \in Offers
    OBVIOUS
  <2>2. candidates[i] \in [key : Nat, stake : Amount, factor : Nat]
    BY <2>1, StakingAssumption DEF Amount
  <2>3. candidates[i].key \in Nat /\ candidates[i].stake \in Amount
    BY <2>2
  <2> QED BY <2>3, UnitAssumption
<1>3. \A i, j \in S : <<i, j>> \in R <=> Precedes(candidates[i], candidates[j])
  OBVIOUS
<1>4. \A i, j \in S : candidates[i].key = candidates[j].key => i = j
  BY DEF CandidatesValid
<1> HIDE DEF S, R
<1>5. StrictlyOrders(R, S)
  <2>1. \A x \in S : <<x, x>> \notin R
    BY <1>2, <1>3 DEF Precedes
  <2>2. ASSUME NEW x \in S, NEW y \in S, NEW z \in S, <<x, y>> \in R, <<y, z>> \in R PROVE <<x, z>> \in R
    <3> DEFINE a == candidates[x]
               b == candidates[y]
               c == candidates[z]
    <3>1. a.key \in Nat /\ a.stake \in Nat /\ b.key \in Nat /\ b.stake \in Nat /\ c.key \in Nat /\ c.stake \in Nat
      BY <1>2
    <3>2. Precedes(a, b) /\ Precedes(b, c)
      BY <1>3, <2>2
    <3> HIDE DEF a, b, c
    <3>3. Precedes(a, c)
      BY <3>1, <3>2 DEF Precedes
    <3> QED BY <1>3, <3>3 DEF a, c
  <2>3. ASSUME NEW x \in S, NEW y \in S, x # y PROVE <<x, y>> \in R \/ <<y, x>> \in R
    <3> DEFINE a == candidates[x]
               b == candidates[y]
    <3>1. a.key \in Nat /\ a.stake \in Nat /\ b.key \in Nat /\ b.stake \in Nat /\ a.key # b.key
      BY <1>2, <1>4, <2>3
    <3> HIDE DEF a, b
    <3>2. Precedes(a, b) \/ Precedes(b, a)
      BY <3>1 DEF Precedes
    <3> QED BY <1>3, <3>2 DEF a, b
  <2> QED BY <2>1, <2>2, <2>3 DEF StrictlyOrders
<1>6. /\ \A x \in S : Cardinality(Before(x, S, R)) \in 0 .. Cardinality(S) - 1
      /\ \A x, y \in S : Cardinality(Before(x, S, R)) = Cardinality(Before(y, S, R)) => x = y
      /\ \A x, y \in S : <<x, y>> \in R => Cardinality(Before(x, S, R)) < Cardinality(Before(y, S, R))
      /\ \A k \in 0 .. Cardinality(S) - 1 : \E x \in S : Cardinality(Before(x, S, R)) = k
  BY <1>1, <1>5, EveryPlaceTaken
<1>7. \A i \in S : Place(i) = Cardinality(Before(i, S, R))
  <2> TAKE i \in S
  <2>1. {j \in S : Precedes(candidates[j], candidates[i])} = Before(i, S, R)
    BY <1>3 DEF Before
  <2> QED BY <2>1 DEF Place, S
<1>8. SelectedCount \in 1 .. n
  BY <1>1, StakingAssumption DEF SelectedCount
<1> DEFINE l == LastSelected
<1>9. l \in S /\ Place(l) = SelectedCount - 1
  <2>1. SelectedCount - 1 \in 0 .. Cardinality(S) - 1
    BY <1>1, <1>8
  <2>2. \E i \in S : Place(i) = SelectedCount - 1
    BY <1>6, <1>7, <2>1
  <2> QED BY <2>2 DEF LastSelected, S
<1> HIDE DEF l, n
<1>10. \A i \in S : Place(i) \in Int
  BY <1>1, <1>6, <1>7
<1>11. \A i, j \in S : Place(i) < Place(j) => <<i, j>> \in R
  <2> SUFFICES ASSUME NEW i \in S, NEW j \in S, Place(i) < Place(j) PROVE <<i, j>> \in R
    OBVIOUS
  <2>1. i # j
    BY <1>10
  <2>2. ~(<<j, i>> \in R)
    BY <1>6, <1>7, <1>10
  <2> QED BY <1>5, <2>1, <2>2 DEF StrictlyOrders
<1>12. \A i, j \in S : <<i, j>> \in R => candidates[i].stake >= candidates[j].stake
  BY <1>2, <1>3 DEF Precedes
<1>13. \A i \in S : /\ Place(i) < SelectedCount => candidates[i].stake >= candidates[l].stake
                    /\ ~(Place(i) < SelectedCount) => candidates[i].stake <= candidates[l].stake
  <2> TAKE i \in S
  <2>1. CASE Place(i) < SelectedCount
    <3>1. Place(i) < Place(l) \/ Place(i) = Place(l)
      BY <1>8, <1>9, <1>10, <2>1
    <3>2. CASE Place(i) < Place(l)
      BY <1>9, <1>11, <1>12, <2>1, <3>2
    <3>3. CASE Place(i) = Place(l)
      <4>1. i = l
        BY <1>6, <1>7, <1>9, <3>3
      <4> QED BY <1>2, <2>1, <4>1
    <3> QED BY <3>1, <3>2, <3>3
  <2>2. CASE ~(Place(i) < SelectedCount)
    <3>1. Place(l) < Place(i)
      BY <1>8, <1>9, <1>10, <2>2
    <3> QED BY <1>2, <1>9, <1>11, <1>12, <2>2, <3>1
  <2> QED BY <2>1, <2>2
<1>14. S = DOMAIN candidates /\ l = LastSelected
  BY DEF l, S
<1>15. SelectedCount \in Int /\ \A i \in S : Place(i) \in Int
  BY <1>1, <1>8, <1>10
<1>16. \A i \in DOMAIN candidates : Place(i) < SelectedCount => candidates[i].stake >= candidates[LastSelected].stake
  BY <1>2, <1>9, <1>13, <1>14, <1>15
<1>17. \A i \in DOMAIN candidates : ~(Place(i) < SelectedCount) => candidates[i].stake <= candidates[LastSelected].stake
  BY <1>2, <1>9, <1>13, <1>14, <1>15
<1> QED BY <1>9, <1>14, <1>15, <1>16, <1>17

(* What a selected candidate locks. *)
LEMMA ActualStake ==
    ASSUME NEW stake \in Amount, NEW factor \in Nat, NEW min \in Amount
    PROVE  /\ calculate_actual_stake(stake, factor, min) \in 0 .. stake
           /\ factor <= MaxLoadFactor /\ MaxLoadFactor * min < 100 * U64 =>
                  calculate_actual_stake(stake, factor, min) =
                      IF stake * 100 <= factor * min THEN stake ELSE (factor * min) \div 100
<1> DEFINE p == factor * min
           q == p \div 100
           cap == q % U64
           locked == IF stake < cap THEN stake ELSE cap
<1>1. calculate_actual_stake(stake, factor, min) = locked
  BY DEF calculate_actual_stake
<1>2. min \in Nat /\ stake \in Nat /\ U64 \in Nat /\ U64 # 0 /\ MaxLoadFactor \in Nat
  BY UnitAssumption, StakingAssumption
<1>3. p \in Nat
  BY <1>2
<1> HIDE DEF p
<1>4. q \in Nat /\ 100 * q <= p /\ p < 100 * q + 100
  BY <1>3
<1>5. cap \in Nat /\ cap < U64
  <2> HIDE DEF q
  <2> QED BY <1>2, <1>4
<1>6. locked \in 0 .. stake
  <2> HIDE DEF cap
  <2> QED BY <1>2, <1>5
<1>7. ASSUME factor <= MaxLoadFactor, MaxLoadFactor * min < 100 * U64
      PROVE  locked = IF stake * 100 <= p THEN stake ELSE q
  <2>1. p <= MaxLoadFactor * min
    BY <1>2, <1>7, Larger DEF p
  <2>2. p < 100 * U64
    <3> DEFINE m == MaxLoadFactor * min
    <3>1. m \in Int /\ p <= m /\ m < 100 * U64
      BY <1>2, <1>7, <2>1
    <3> HIDE DEF m
    <3> QED BY <1>2, <1>3, <3>1
  <2> HIDE DEF q
  <2>3. q < U64
    BY <1>2, <1>3, <1>4, <2>2
  <2>4. cap = q
    BY <1>2, <1>4, <2>3
  <2> HIDE DEF cap
  <2>5. stake * 100 <= p <=> stake <= q
    BY <1>2, <1>3, <1>4
  <2> QED BY <1>2, <1>4, <2>4, <2>5
<1> QED BY <1>1, <1>6, <1>7 DEF p, q

LEMMA ElectionStep ==
    ASSUME StakingInv, RunElection
    PROVE  StakingInv'
<1> DEFINE K == {candidates[i].key : i \in DOMAIN candidates}
           min == candidates[LastSelected].stake
           Of(k) == CHOOSE j \in DOMAIN candidates : candidates[j].key = k
           locked(i) == IF Place(i) < SelectedCount
                        THEN calculate_actual_stake(candidates[i].stake, candidates[i].factor, min) ELSE 0
           entry(i) == [proposed |-> candidates[i].stake, elected |-> Place(i) < SelectedCount,
                        locked |-> locked(i), refunded |-> candidates[i].stake - locked(i), debited |-> 0]
<1>1. /\ ledger = NONE /\ CandidatesValid /\ SelectedCount # 0
      /\ minimum' = min /\ UNCHANGED <<candidates, slashes, minted, rewards, fees>>
  BY DEF RunElection
<1>2. ledger' = [k \in K |-> entry(Of(k))]
  BY <1>1 DEF RunElection
<1>3. candidates \in Seq(Offers)
  BY DEF StakingInv, StakesInv
<1>4. /\ LastSelected \in DOMAIN candidates
      /\ SelectedCount \in Int /\ \A i \in DOMAIN candidates : Place(i) \in Int
      /\ \A i \in DOMAIN candidates :
             /\ Place(i) < SelectedCount => candidates[i].stake >= min
             /\ ~(Place(i) < SelectedCount) => candidates[i].stake <= min
  BY <1>1, <1>3, Selected
<1>5. \A i \in DOMAIN candidates : /\ candidates[i] \in Offers /\ candidates[i].stake \in Amount
                                    /\ candidates[i].factor \in Nat /\ candidates[i].factor <= MaxLoadFactor
  <2> TAKE i \in DOMAIN candidates
  <2>1. candidates[i] \in Offers
    BY <1>3
  <2>2. candidates[i] \in [key : Nat, stake : Amount, factor : Nat]
    BY <2>1, StakingAssumption DEF Amount
  <2>3. candidates[i].factor \in MIN_LOAD_FACTOR_SCALED .. MaxLoadFactor
    BY <1>1 DEF CandidatesValid
  <2>4. candidates[i].factor <= MaxLoadFactor
    BY <2>3, StakingAssumption DEF MIN_LOAD_FACTOR_SCALED
  <2> QED BY <2>1, <2>2, <2>4
<1>6. min \in Amount
  BY <1>4, <1>5
<1> HIDE DEF min
<1>7. \A k \in K : Of(k) \in DOMAIN candidates /\ candidates[Of(k)].key = k
  OBVIOUS
<1>8. ASSUME NEW i \in DOMAIN candidates
      PROVE  entry(i) \in StakeEntries /\ EntrySound(candidates[i].key, entry(i), candidates, min)
  <2> DEFINE stake == candidates[i].stake
             factor == candidates[i].factor
             e == entry(i)
             x == locked(i)
  <2>1. /\ e.proposed = stake /\ e.elected = (Place(i) < SelectedCount) /\ e.locked = x
        /\ e.refunded = stake - x /\ e.debited = 0
    OBVIOUS
  <2>2. stake \in Amount /\ stake \in Nat /\ factor \in Nat /\ factor <= MaxLoadFactor /\ min \in Nat
    BY <1>5, <1>6, UnitAssumption
  <2>3. /\ calculate_actual_stake(stake, factor, min) \in 0 .. stake
        /\ factor <= MaxLoadFactor /\ MaxLoadFactor * min < 100 * U64 =>
               calculate_actual_stake(stake, factor, min) =
                   IF stake * 100 <= factor * min THEN stake ELSE (factor * min) \div 100
    <3> HIDE DEF stake, factor
    <3> QED BY <1>6, <2>2, ActualStake
  <2>4. /\ Place(i) < SelectedCount => x = calculate_actual_stake(stake, factor, min)
        /\ ~(Place(i) < SelectedCount) => x = 0
    OBVIOUS
  <2>5. /\ Place(i) < SelectedCount => stake >= min
        /\ ~(Place(i) < SelectedCount) => stake <= min
    BY <1>4
  <2>6. stake = candidates[i].stake /\ factor = candidates[i].factor
    OBVIOUS
  <2>7. e = [proposed |-> stake, elected |-> Place(i) < SelectedCount, locked |-> x, refunded |-> stake - x, debited |-> 0]
    OBVIOUS
  <2> HIDE DEF x, e, stake, factor
  <2>8. x \in 0 .. stake
    BY <2>2, <2>3, <2>4
  <2>9. x \in Amount /\ stake - x \in Amount /\ 0 \in Amount
    BY <2>2, <2>8, UnitAssumption DEF Amount
  <2>10. e \in StakeEntries
    <3>1. (Place(i) < SelectedCount) \in BOOLEAN
      BY <1>4
    <3> QED BY <2>2, <2>7, <2>9, <3>1 DEF StakeEntries
  <2>11. e.proposed = e.locked + e.refunded + e.debited
    BY <2>1, <2>2, <2>8
  <2>12. ~e.elected => e.refunded = e.proposed /\ e.proposed <= min
    <3> SUFFICES ASSUME ~e.elected PROVE e.refunded = e.proposed /\ e.proposed <= min
      OBVIOUS
    <3>1. ~(Place(i) < SelectedCount)
      BY <2>1
    <3>2. x = 0 /\ stake <= min
      BY <2>4, <2>5, <3>1
    <3> QED BY <2>1, <2>2, <3>2
  <2>13. e.elected => e.proposed >= min
    BY <2>1, <2>5
  <2>14. ASSUME e.elected, MaxLoadFactor * min < 100 * U64
         PROVE  e.locked + e.debited = IF e.proposed * 100 <= candidates[i].factor * min
                                       THEN e.proposed ELSE (candidates[i].factor * min) \div 100
    <3>1. x = calculate_actual_stake(stake, factor, min)
      BY <2>1, <2>4, <2>14
    <3>2. x = IF stake * 100 <= factor * min THEN stake ELSE (factor * min) \div 100
      BY <2>2, <2>3, <2>14, <3>1
    <3>3. e.locked + e.debited = x
      BY <2>1, <2>8
    <3> QED BY <2>1, <2>6, <3>2, <3>3
  <2>15. EntrySound(candidates[i].key, e, candidates, min)
    BY <2>11, <2>12, <2>13, <2>14 DEF EntrySound
  <2> QED BY <2>10, <2>15 DEF e
<1> HIDE DEF entry, Of
<1>9. DOMAIN ledger' = K /\ \A k \in K : ledger'[k] \in StakeEntries /\ EntrySound(k, ledger'[k], candidates, min)
  <2>1. DOMAIN ledger' = K /\ \A k \in K : ledger'[k] = entry(Of(k))
    <3> HIDE DEF K
    <3> QED BY <1>2
  <2> HIDE DEF K
  <2> QED BY <1>7, <1>8, <2>1
<1>10. ledger' \in [DOMAIN ledger' -> StakeEntries]
  <2> HIDE DEF K
  <2> QED BY <1>2, <1>9
<1>11. IsFiniteSet(K) /\ K \subseteq {o.key : o \in Offers}
  <2> DEFINE n == Len(candidates)
             D == DOMAIN candidates
             f == [i \in D |-> candidates[i].key]
  <2>1. D = 1 .. n /\ n \in Nat
    BY <1>3
  <2>2. IsFiniteSet(D)
    <3> HIDE DEF D, n
    <3> QED BY <2>1, FS_Interval
  <2>3. K = {f[i] : i \in D}
    OBVIOUS
  <2>4. f \in Surjection(D, K)
    BY DEF Surjection
  <2>5. IsFiniteSet(K)
    <3> HIDE DEF D, K, f
    <3> QED BY <2>2, <2>4, FS_Surjection
  <2> QED BY <1>5, <2>5
<1> HIDE DEF K
<1>12. StakesInv'
  <2>1. \A k \in DOMAIN ledger' : EntrySound(k, ledger'[k], candidates', minimum')
    BY <1>1, <1>9
  <2>2. IsFiniteSet(DOMAIN ledger') /\ DOMAIN ledger' \subseteq {o.key : o \in Offers}
    BY <1>9, <1>11
  <2> QED BY <1>1, <1>3, <1>6, <1>10, <2>1, <2>2 DEF StakingInv, StakesInv
<1>13. RewardsInv'
  <2> DEFINE A == [validator : DOMAIN ledger, amount : Nat]
             B == [validator : DOMAIN ledger', amount : Nat]
  <2>1. DOMAIN ledger = {}
    BY <1>1 DEF NONE
  <2>2. A \subseteq B
    BY <2>1
  <2>3. rewards \in Seq(A)
    BY DEF StakingInv, RewardsInv
  <2> HIDE DEF A, B
  <2>4. rewards \in Seq(B)
    BY <2>2, <2>3
  <2>5. rewards' \in Seq([validator : DOMAIN ledger', amount : Nat])
    BY <1>1, <2>4 DEF B
  <2> QED BY <1>1, <2>5 DEF StakingInv, RewardsInv, RewardsAddUp
<1> QED BY <1>12, <1>13 DEF StakingInv

-----------------------------------------------------------------------------
(* Every performing validator has its place in the order of the ids. *)
LEMMA OrderedIds ==
    ASSUME StakesInv, NEW validators \in SUBSET DOMAIN ledger, validators # {}
    PROVE  /\ Cardinality(validators) \in Nat /\ Cardinality(validators) # 0
           /\ \A i \in 1 .. Cardinality(validators) : InIdOrder(validators)[i] \in validators
<1> DEFINE S == validators
           n == Cardinality(S)
           Rec(k) == [key |-> k, stake |-> ledger[k].proposed]
           R == {p \in S \X S : Precedes(Rec(p[1]), Rec(p[2]))}
<1>1. IsFiniteSet(S) /\ n \in Nat /\ n # 0
  <2>1. IsFiniteSet(DOMAIN ledger)
    BY DEF StakesInv
  <2>2. IsFiniteSet(S)
    BY <2>1, FS_Subset
  <2> QED BY <2>2, FS_CardinalityType, FS_EmptySet
<1>2. \A k \in S : k \in Nat /\ ledger[k].proposed \in Nat
  <2> TAKE k \in S
  <2>1. ledger[k] \in StakeEntries /\ k \in {o.key : o \in Offers}
    BY DEF StakesInv
  <2>2. ledger[k].proposed \in Amount
    BY <2>1 DEF StakeEntries
  <2>3. PICK o \in Offers : k = o.key
    BY <2>1
  <2>4. o.key \in Nat
    BY StakingAssumption
  <2> QED BY <2>2, <2>3, <2>4, UnitAssumption
<1>3. \A j, k \in S : <<j, k>> \in R <=>
          ledger[j].proposed > ledger[k].proposed \/ (ledger[j].proposed = ledger[k].proposed /\ j < k)
  BY DEF Precedes
<1> HIDE DEF R
<1>4. StrictlyOrders(R, S)
  <2>1. \A x \in S : <<x, x>> \notin R
    BY <1>2, <1>3
  <2>2. ASSUME NEW x \in S, NEW y \in S, NEW z \in S, <<x, y>> \in R, <<y, z>> \in R PROVE <<x, z>> \in R
    <3> DEFINE a == ledger[x].proposed
               b == ledger[y].proposed
               c == ledger[z].proposed
    <3>1. x \in Nat /\ y \in Nat /\ z \in Nat /\ a \in Nat /\ b \in Nat /\ c \in Nat
      BY <1>2
    <3>2. (a > b \/ (a = b /\ x < y)) /\ (b > c \/ (b = c /\ y < z))
      BY <1>3, <2>2
    <3> HIDE DEF a, b, c
    <3>3. a > c \/ (a = c /\ x < z)
      BY <3>1, <3>2
    <3> QED BY <1>3, <3>3 DEF a, c
  <2>3. \A x, y \in S : x # y => <<x, y>> \in R \/ <<y, x>> \in R
    BY <1>2, <1>3
  <2> QED BY <2>1, <2>2, <2>3 DEF StrictlyOrders
<1>5. \A i \in 0 .. n - 1 : \E x \in S : Cardinality(Before(x, S, R)) = i
  BY <1>1, <1>4, EveryPlaceTaken
<1>6. \A k \in S : Ahead(k, S) = Before(k, S, R)
  <2> TAKE k \in S
  <2>1. \A j \in S : j \in Ahead(k, S) <=> <<j, k>> \in R
    BY <1>3 DEF Ahead, Precedes
  <2>2. Ahead(k, S) \subseteq S
    BY DEF Ahead
  <2> QED BY <2>1, <2>2 DEF Before
<1>7. ASSUME NEW i \in 1 .. n PROVE InIdOrder(S)[i] \in S
  <2>1. i - 1 \in 0 .. n - 1
    BY <1>1
  <2>2. \E k \in S : Cardinality(Ahead(k, S)) = i - 1
    BY <1>5, <1>6, <2>1
  <2>3. InIdOrder(S)[i] = CHOOSE k \in S : Cardinality(Ahead(k, S)) = i - 1
    BY DEF InIdOrder
  <2> QED BY <2>2, <2>3
<1> QED BY <1>1, <1>7

LEMMA RewardStep ==
    ASSUME StakingInv, NEW performing \in SUBSET Elected, NEW epochs \in EpochsPerYear,
           DistributeEpochRewards(performing, epochs)
    PROVE  StakingInv'
<1> DEFINE n == Cardinality(performing)
           order == InIdOrder(performing)
           stake == [i \in 1 .. n |-> ledger[order[i]].locked]
           amount == Distribute(stake, n, minted')
<1>1. /\ performing # {} /\ \A k \in performing : ledger[k].locked # 0
      /\ epochs # 0
      /\ minted' = EpochReward(SumTo(stake, n), epochs)
      /\ rewards' = [i \in 1 .. n |-> [validator |-> order[i], amount |-> amount[i]]]
      /\ UNCHANGED <<candidates, ledger, slashes, minimum, fees>>
  BY DEF DistributeEpochRewards
<1>2. performing \in SUBSET DOMAIN ledger /\ StakesInv
  BY DEF Elected, StakingInv
<1>3. n \in Nat /\ n # 0 /\ \A i \in 1 .. n : order[i] \in performing
  BY <1>1, <1>2, OrderedIds
<1>4. stake \in [1 .. n -> Nat \ {0}]
  <2>1. ASSUME NEW k \in performing PROVE ledger[k].locked \in Nat \ {0}
    <3>1. ledger[k] \in StakeEntries
      BY <1>2 DEF StakesInv
    <3>2. ledger[k].locked \in Amount
      BY <3>1 DEF StakeEntries
    <3> QED BY <1>1, <3>2, UnitAssumption
  <2> HIDE DEF order, n
  <2> QED BY <1>3, <2>1
<1> HIDE DEF stake, order, n
<1>5. minted' \in Nat
  <2>1. SumTo(stake, n) \in Nat
    BY <1>3, <1>4, SharesFit
  <2> DEFINE x == (SumTo(stake, n) * 175) \div 10000
  <2>2. x \in Nat
    BY <2>1
  <2>3. epochs \in Nat /\ epochs # 0
    BY <1>1, StakingAssumption
  <2>4. minted' = x \div epochs
    BY <1>1 DEF EpochReward, ANNUAL_INFLATION_RATE_BPS
  <2> HIDE DEF x
  <2> QED BY <2>2, <2>3, <2>4, Divided
<1>6. amount \in [1 .. n -> Nat] /\ SumTo(amount, n) = minted'
  BY <1>3, <1>4, <1>5, DistributedExactly
<1> HIDE DEF amount
<1>7. \A i \in 1 .. n : rewards'[i] \in [validator : DOMAIN ledger, amount : Nat] /\ rewards'[i].amount = amount[i]
  BY <1>1, <1>2, <1>3, <1>6
<1>8. rewards' \in [1 .. n -> [validator : DOMAIN ledger, amount : Nat]]
  BY <1>1, <1>7
<1>9. rewards' \in Seq([validator : DOMAIN ledger, amount : Nat]) /\ Len(rewards') = n
  <2> DEFINE B == [validator : DOMAIN ledger, amount : Nat]
  <2>1. rewards' \in [1 .. n -> B]
    BY <1>8
  <2> HIDE DEF B
  <2>2. rewards' \in Seq(B)
    BY <1>3, <2>1, SeqDef
  <2>3. Len(rewards') = n
    BY <1>3, <2>1
  <2> QED BY <2>2, <2>3 DEF B
<1>10. [i \in 1 .. Len(rewards') |-> rewards'[i].amount] = amount
  BY <1>6, <1>7, <1>9
<1>11. SumTo([i \in 1 .. Len(rewards') |-> rewards'[i].amount], Len(rewards')) = minted'
  BY <1>6, <1>9, <1>10
<1>12. fees'.total = fees'.burned + fees'.paid
  BY <1>1 DEF StakingInv, RewardsInv, RewardsAddUp
<1>13. RewardsInv'
  BY <1>1, <1>5, <1>9, <1>11, <1>12 DEF RewardsInv, RewardsAddUp
<1>14. StakesInv'
  BY <1>1, <1>2 DEF StakesInv
<1> QED BY <1>13, <1>14 DEF StakingInv

-----------------------------------------------------------------------------
LEMMA StakingStep == StakingInv /\ [StakingNext]_stakingVars => StakingInv'
<1> SUFFICES ASSUME StakingInv, [StakingNext]_stakingVars PROVE StakingInv'
  OBVIOUS
<1>1. ASSUME NEW o \in Offers, Submit(o) PROVE StakingInv'
  BY <1>1, SubmitStep
<1>2. ASSUME RunElection PROVE StakingInv'
  BY <1>2, ElectionStep
<1>3. ASSUME NEW k \in Elected, NEW r \in DOMAIN BasisPoints, Slash(k, r) PROVE StakingInv'
  BY <1>3, SlashStep
<1>4. ASSUME NEW p \in SUBSET Elected, NEW e \in EpochsPerYear, DistributeEpochRewards(p, e) PROVE StakingInv'
  BY <1>4, RewardStep
<1>5. ASSUME NEW f \in Fees, CollectFee(f) PROVE StakingInv'
  BY <1>5, FeeStep
<1>6. CASE UNCHANGED stakingVars
  BY <1>6 DEF stakingVars, StakingInv, StakesInv, RewardsInv, RewardsAddUp
<1> QED BY <1>1, <1>2, <1>3, <1>4, <1>5, <1>6 DEF StakingNext

LEMMA StakingInvImplies == StakingInv => StakingTypeOK /\ StakesAccounted
<1> SUFFICES ASSUME StakingInv PROVE StakingTypeOK /\ StakesAccounted
  OBVIOUS
<1>1. \A k \in DOMAIN ledger : {ledger[k].locked, ledger[k].refunded, ledger[k].debited} \subseteq 0 .. (U64 - 1)
  <2> TAKE k \in DOMAIN ledger
  <2>1. ledger[k] \in StakeEntries
    BY DEF StakingInv, StakesInv
  <2>2. ledger[k].locked \in Amount /\ ledger[k].refunded \in Amount /\ ledger[k].debited \in Amount
    BY <2>1 DEF StakeEntries
  <2> QED BY <2>2 DEF Amount
<1>2. StakingTypeOK
  BY <1>1 DEF StakingInv, StakesInv, RewardsInv, StakingTypeOK, Amount
<1>3. StakesAddUp
  BY DEF StakingInv, StakesInv, StakesAddUp, EntrySound
<1>4. RewardsAddUp
  BY DEF StakingInv, RewardsInv
<1> QED BY <1>2, <1>3, <1>4 DEF StakesAccounted

(* StakingInv holds through submissions, election, slashing and rewards. *)
THEOREM StakingInductive == StakingSpec => []StakingInv
  BY StakingStarts, StakingStep, PTL DEF StakingSpec

(* What run_election locks and refunds and slashing debits stays in 64 bits, *)
(* and no reward is negative.                                               *)
THEOREM StakingTypeCorrect == StakingSpec => []StakingTypeOK
  BY StakingInductive, StakingInvImplies, PTL

(* StakesAccounted, for every set of offers, cap, load factor and epoch     *)
(* length: run_election, apply_slash and distribute_epoch_rewards neither   *)
(* create nor lose a unit, and the elected are those with the most stake.   *)
THEOREM StakesAreAccounted == StakingSpec => []StakesAccounted
  BY StakingInductive, StakingInvImplies, PTL

-----------------------------------------------------------------------------
(* The composition: the component a behaviour is about moves, the others    *)
(* stand still.                                                             *)
LedgerInv ==
    /\ DeliveryInv /\ SyncInv /\ AccountInv
    /\ PartitionInv /\ DataInv /\ WindowsInv
    /\ RouterInv /\ StakingInv /\ VmInv
    /\ focus \in {"delivery", "sync", "account", "staking", "shards", "router", "vm"}

LEMMA LedgerStarts == LedgerInit => LedgerInv
  BY DeliveryStarts, SyncStarts, AccountInitInv, ShardsStart, RouterStarts, StakingStarts, VmInitInv,
     LedgerPartsAssumption DEF LedgerInit, LedgerInv

LEMMA LedgerSteps ==
    ASSUME [LedgerNext]_ledgerVars
    PROVE  /\ [DeliveryNext]_deliveryVars /\ [SyncNext]_index /\ [AccountNext]_accountVars
           /\ [StakingNext]_stakingVars /\ [ShardNext]_shardVars /\ [RouterNext]_routerVars
           /\ [VmNext]_vmVars /\ focus' = focus
  BY DEF LedgerNext, ledgerVars

LEMMA LedgerStep == LedgerInv /\ [LedgerNext]_ledgerVars => LedgerInv'
<1> SUFFICES ASSUME LedgerInv, [LedgerNext]_ledgerVars PROVE LedgerInv'
  OBVIOUS
<1>1. DeliveryInv' /\ SyncInv' /\ AccountInv'
  BY LedgerSteps, DeliveryStep, SyncStep, AccountStepInv DEF LedgerInv
<1>2. PartitionInv' /\ DataInv' /\ WindowsInv'
  BY LedgerSteps, ShardStep, DataStep, WindowsStep DEF LedgerInv
<1>3. RouterInv' /\ StakingInv' /\ VmInv'
  BY LedgerSteps, RouterStep, StakingStep, VmStepInv DEF LedgerInv
<1> QED BY <1>1, <1>2, <1>3, LedgerSteps DEF LedgerInv

(* The invariants hold together, whichever component a behaviour is about. *)
THEOREM LedgerInductive == LedgerSpec => []LedgerInv
  BY LedgerStarts, LedgerStep, PTL DEF LedgerSpec

(* LedgerTypeOK: messages, blocks, accounts, stakes, shards, routes and the *)
(* machine of a contract keep within their bounds.                          *)
THEOREM LedgerTypeCorrect == LedgerSpec => []LedgerTypeOK
<1>1. LedgerInv => LedgerTypeOK
  <2> SUFFICES ASSUME LedgerInv PROVE LedgerTypeOK
    OBVIOUS
  <2>1. DeliveryTypeOK /\ SyncTypeOK
    BY DEF LedgerInv, DeliveryInv, SyncInv
  <2>2. AccountTypeOK /\ StakingTypeOK /\ ShardTypeOK /\ RouterTypeOK /\ VmTypeOK
    BY AccountInvImplies, StakingInvImplies, ShardTypes, RouterInvImplies, VmInvImplies DEF LedgerInv
  <2>3. focus \in {"delivery", "sync", "account", "staking", "shards", "router", "vm"}
    BY DEF LedgerInv
  <2> QED BY <2>1, <2>2, <2>3 DEF LedgerTypeOK
<1> QED BY <1>1, LedgerInductive, PTL

(* Every safety property of the ledger that TLC checks of LedgerSpec holds  *)
(* of it for every value of the constants.                                  *)
THEOREM LedgerIsSafe ==
    LedgerSpec => /\ [](AtMostOnce /\ LaneOrder)
                  /\ [](IndexIsConnected /\ OneBlockPerProof)
                  /\ [](AccountHistorySound /\ StakesAccounted)
                  /\ [](ShardsPartition /\ NothingLost)
                  /\ [](RouteIsCanonical /\ SuccessMeansReturned)
<1>1. LedgerInv => AtMostOnce /\ LaneOrder /\ IndexIsConnected
  BY DEF LedgerInv, DeliveryInv, SyncInv
<1>2. LedgerInv => OneBlockPerProof
  BY OnePerProof DEF LedgerInv
<1>3. LedgerInv => AccountHistorySound /\ StakesAccounted
  BY AccountInvImplies, StakingInvImplies DEF LedgerInv
<1>4. LedgerInv => ShardsPartition /\ NothingLost
  BY PartitionIsSound, DataInvImplies DEF LedgerInv
<1>5. LedgerInv => RouteIsCanonical /\ SuccessMeansReturned
  BY RouterInvImplies, VmInvImplies DEF LedgerInv
<1> QED BY <1>1, <1>2, <1>3, <1>4, <1>5, LedgerInductive, PTL
=============================================================================
