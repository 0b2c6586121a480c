--------------------------- MODULE MessageDelivery ---------------------------
(***************************************************************************)
(* Messages between two shards: admission (admission.rs), the origin's     *)
(* output queue (output_queue.rs) and the destination's tracker of         *)
(* processed messages (processed.rs).                                      *)
(*                                                                         *)
(* A lane is the rank of its (source, destination) pair in the BTreeMap.   *)
(* Within a lane created_lt strictly increases from front to back, so a    *)
(* lane is the set of its messages and its front the one with the least    *)
(* created_lt.  A message's hash is the message.  Nothing under src/ moves *)
(* a message from one shard to the other: what is modelled is what the     *)
(* comments of the two types ask of their caller.  The destination works   *)
(* through a copy of the queue as the last masterchain reference shows it; *)
(* the origin removes what the destination processed; the destination      *)
(* prunes what the masterchain shows removed.                              *)
(***************************************************************************)
EXTENDS Integers, Sequences

CONSTANT Messages  \* the messages there are

ASSUME MessagesAssumption ==
    \A m \in Messages : /\ m.lane \in Nat /\ m.lt \in Nat
                        /\ m.currencies \in Seq(Nat)

VARIABLES
    queue,      \* the origin's OutputQueue
    ref,        \* that queue as the latest masterchain reference shows it
    view,       \* the destination's copy of ref, popped while it builds a block
    processed,  \* the destination's ProcessedMessageTracker
    sent,       \* messages enqueued or logged so far: an execution emits one once
    executed,   \* the messages the destination executed, in order
    before      \* pairs of a lane: the first joined the queue before the second

deliveryVars == <<queue, ref, view, processed, sent, executed, before>>

DeliveryInit ==
    /\ queue = {} /\ ref = {} /\ view = {} /\ processed = {}
    /\ sent = {} /\ executed = <<>> /\ before = {}

Executed == {executed[i] : i \in DOMAIN executed}

-----------------------------------------------------------------------------
(* Admission. *)

MAX_TENTATIVE_GAS == 10

AccountTypes == {"Uninitialized", "Active", "Frozen", "Destroyed"}

\* The outcomes of a tentative execution, around the gas limit.
Outcomes == [signatureValid : BOOLEAN, gas : {MAX_TENTATIVE_GAS, MAX_TENTATIVE_GAS + 1}]

CurrenciesSorted(ids) == \A i \in 1..(Len(ids) - 1) : ids[i] < ids[i + 1]

ShapeValid(m) ==
    /\ CurrenciesSorted(m.currencies)
    /\ m.kind = "ExternalInbound" => m.amount = 0 /\ m.currencies = <<>>

AdmitInternal(m, accountType) ==
    m.kind = "Internal" /\ ShapeValid(m) /\ accountType = "Active"

AdmitExternalInbound(m, outcome) ==
    /\ m.kind = "ExternalInbound" /\ ShapeValid(m)
    /\ outcome.signatureValid /\ outcome.gas <= MAX_TENTATIVE_GAS

AdmitExternalOutbound(m) == m.kind = "ExternalOutbound" /\ ShapeValid(m)

-----------------------------------------------------------------------------
(* The origin's queue. *)

InLane(q, lane) == {m \in q : m.lane = lane}

\* What joined the queue in this lane so far, whether or not it is still there.
Queued(lane) == {m \in InLane(sent, lane) : m.kind = "Internal"}

Enqueueable(q, m) == \A n \in InLane(q, m.lane) : n.lt < m.lt

\* (Slip: a message later in the lane overtakes, max_by_key.)
IsNextLatest(q, m) == m \in q /\ \A n \in q \ {m} : n.lt < m.lt \/ (n.lt = m.lt /\ n.lane > m.lane)

\* peek_next and pop_next: the least created_lt, the first lane on a tie.
IsNext(q, m) == m \in q /\ \A n \in q \ {m} : m.lt < n.lt \/ (m.lt = n.lt /\ m.lane < n.lane)

\* An execution on an active account emits a message; it is queued for delivery.
Enqueue(m, accountType) ==
    /\ AdmitInternal(m, accountType)
    /\ m \notin sent /\ Enqueueable(queue, m)
    /\ queue' = queue \cup {m}
    /\ sent' = sent \cup {m}
    /\ before' = before \cup {<<n, m>> : n \in Queued(m.lane)}
    /\ UNCHANGED <<ref, view, processed, executed>>

\* An outbound message is logged and goes nowhere.
LogOutbound(m) ==
    /\ AdmitExternalOutbound(m)
    /\ m \notin sent
    /\ sent' = sent \cup {m}
    /\ UNCHANGED <<queue, ref, view, processed, executed, before>>

\* The origin removes the head of its queue once the destination processed it.
RemoveNext ==
    \E m \in queue :
        /\ IsNext(queue, m) /\ m \in processed
        /\ queue' = queue \ {m}
        /\ UNCHANGED <<ref, view, processed, sent, executed, before>>

-----------------------------------------------------------------------------
(* The destination. *)

\* A masterchain block refers to the origin's state; the destination builds on it.
Refer ==
    /\ ref' = queue /\ view' = queue
    /\ UNCHANGED <<queue, processed, sent, executed, before>>

\* The destination starts another block from the same reference.
Reload ==
    /\ view' = ref
    /\ UNCHANGED <<queue, ref, processed, sent, executed, before>>

\* (Slip: a hash already recorded is not refused.)
AdmitAgain(m) == processed' = processed \cup {m} /\ executed' = Append(executed, m)

\* admit, and the execution it allows; a duplicate is refused.
Admit(m) ==
    IF m \in processed
    THEN UNCHANGED <<processed, executed>>
    ELSE processed' = processed \cup {m} /\ executed' = Append(executed, m)

\* pop_next on the copy.
Deliver ==
    \E m \in view :
        /\ IsNext(view, m)
        /\ view' = view \ {m}
        /\ Admit(m)
        /\ UNCHANGED <<queue, ref, sent, before>>

\* A client submits an external message, any number of times.
SubmitExternal(m, outcome) ==
    /\ AdmitExternalInbound(m, outcome)
    /\ Admit(m)
    /\ UNCHANGED <<queue, ref, view, sent, before>>

\* When the comment on prune lets a caller call it: the reference shows a message
\* that the origin had queued removed.  prune itself takes any hash.
RemovalConfirmed(m) == m.kind = "Internal" /\ m \notin ref

Prune(m) ==
    /\ m \in processed /\ RemovalConfirmed(m)
    /\ processed' = processed \ {m}
    /\ UNCHANGED <<queue, ref, view, sent, executed, before>>

DeliveryNext ==
    \/ \E m \in Messages, t \in AccountTypes : Enqueue(m, t)
    \/ \E m \in Messages : LogOutbound(m)
    \/ RemoveNext \/ Refer \/ Reload \/ Deliver
    \/ \E m \in Messages, o \in Outcomes : SubmitExternal(m, o)
    \/ \E m \in Messages : Prune(m)

DeliverySpec == DeliveryInit /\ [][DeliveryNext]_deliveryVars

-----------------------------------------------------------------------------
DeliveryTypeOK ==
    /\ queue \subseteq Messages /\ ref \subseteq Messages /\ view \subseteq Messages
    /\ processed \subseteq Messages /\ sent \subseteq Messages
    /\ executed \in Seq(Messages)
    /\ before \subseteq Messages \X Messages

(* However often a message is presented again - the same reference used for *)
(* two blocks, a late removal, a pruned tracker, a client that resubmits -  *)
(* ProcessedMessageTracker lets it be executed at most once.                *)
AtMostOnce == \A i, j \in DOMAIN executed : executed[i] = executed[j] => i = j

(* OutputQueue and the tracker together are a FIFO per pair: of two messages *)
(* of a lane the one that was enqueued first is executed first, and the     *)
(* second never without it - through stale references, repeated blocks,     *)
(* late removals and lanes that were pruned when they ran empty.            *)
LaneOrder ==
    \A j \in DOMAIN executed : \A p \in before :
        p[2] = executed[j] => \E i \in 1..(j - 1) : executed[i] = p[1]

-----------------------------------------------------------------------------
(* Why: the strengthening under which both are inductive. *)

\* What was executed is remembered for as long as the reference can show it.
Remembered ==
    /\ processed \subseteq Executed
    /\ \A m \in Executed : m \in processed \/ (m.kind = "Internal" /\ m \notin ref)
    /\ queue \cap Executed \subseteq ref
    /\ view \subseteq ref
    /\ ref \subseteq queue \cup processed

\* Nothing reaches a queue twice, and only internal messages reach one.
Provenance ==
    /\ queue \cup ref \cup {m \in Executed : m.kind = "Internal"} \subseteq sent
    /\ \A m \in queue \cup ref : m.kind = "Internal"
    /\ {m \in sent : m.kind = "Internal"} \subseteq queue \cup Executed

\* A queued message's predecessors are queued with it and have earlier times, or
\* were executed.
Predecessors ==
    \A p \in before :
        /\ p[1].lane = p[2].lane /\ p[2] \in sent /\ p[2].kind = "Internal"
        /\ p[1] \in Executed \/ p[1].lt < p[2].lt
        /\ \A q \in {queue, ref, view} : p[2] \in q => p[1] \in q \/ p[1] \in Executed
=============================================================================
