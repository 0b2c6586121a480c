--------------------------------- MODULE Dht ---------------------------------
(***************************************************************************)
(* DHT nodes (dht_daemon.rs): routing tables, records, and the lookups and *)
(* stores the clients among them run, call by call.                        *)
(*                                                                         *)
(* A call is handled at the peer in one step and its answer applied at the *)
(* caller in a later one: between the two, time passes and other calls     *)
(* change both nodes.  Requests and answers may be lost (DhtTransport then *)
(* returns an error).  Faulty peers answer whatever they like, contacts    *)
(* that nobody has the key of included: a routing table refuses those, but *)
(* a lookup takes them up and asks whoever answers at their address.       *)
(*                                                                         *)
(* An identity is its node id: Bits bits, the most significant one first.  *)
(* The lists a lookup keeps are sets here, because the code sorts them by  *)
(* distance, which determines them.  So there is one contact per id: one   *)
(* forged under the id of an existing node, tied with it, is left out.     *)
(***************************************************************************)
EXTENDS Integers, Sequences, FiniteSets, SequencesExt

CONSTANTS
    Ids,       \* node ids
    Faulty,    \* ids of peers that do not keep to the protocol
    Forged,    \* ids of contacts whose public key is not the one of their id
    Clients,   \* nodes that run lookups and stores
    Bits,      \* width of an id (256 in the code)
    K,         \* K_BUCKET_SIZE
    Alpha,     \* LOOKUP_ALPHA
    Keys,      \* record keys, bits like ids
    Records,   \* the records in circulation: key, expiry, genuine
    Bootstrap, \* the contacts each node is given at the start, in order
    MaxClock,  \* bound on the clock
    MaxOps     \* bound on client operations

Buckets  == 0 .. Bits - 1
Claimed  == Ids \cup Forged
NoKey    == <<>>
NoRecord == [key |-> NoKey, expiry |-> 0, genuine |-> FALSE]

ASSUME DhtAssumption ==
    /\ K \in Nat \ {0} /\ Alpha \in Nat \ {0} /\ Bits \in Nat
    /\ IsFiniteSet(Claimed) /\ Claimed \cup Keys \subseteq [Buckets -> {0, 1}]
    /\ Ids \cap Forged = {}
    /\ Clients \subseteq Ids \ Faulty
    /\ Records \subseteq [key : Keys, expiry : Nat, genuine : BOOLEAN]
    /\ Bootstrap \in [Ids -> Seq(Ids)]
    /\ MaxClock \in Nat /\ MaxOps \in Nat

VARIABLES
    clock,    \* unix_time_secs
    buckets,  \* per node: its routing table
    records,  \* per node: its records by key
    op,       \* per client: where its operation is
    answer,   \* per client: what find_value last returned, for which key, when
    opsLeft

dhtVars == <<clock, buckets, records, op, answer, opsLeft>>

-----------------------------------------------------------------------------
xor_distance(a, b) == [i \in Buckets |-> IF a[i] = b[i] THEN 0 ELSE 1]

\* The order of two distances, as numbers of Bits bits.
Below(d, e) == \E i \in Buckets : d[i] < e[i] /\ \A j \in 0 .. i - 1 : d[j] = e[j]

Closer(a, b, target) == Below(xor_distance(a, target), xor_distance(b, target))
CloserThan(x, S, target) == {y \in S : Closer(y, x, target)}

\* The first bit in which the ids differ, from the most significant one.
bucket_index(a, b) == CHOOSE i \in Buckets :
    a[i] # b[i] /\ \A j \in 0 .. i - 1 : a[j] = b[j]

\* S in the order of the distance to target, and the first n of it.
Sorted(S, target) == [i \in 1 .. Cardinality(S) |->
    CHOOSE x \in S : Cardinality(CloserThan(x, S, target)) = i - 1]
Closest(S, target, n) == {x \in S : Cardinality(CloserThan(x, S, target)) < n}

\* (Slip: a contact seen again is not moved, but added again.)
AddContactAgain(table, me, contact) ==
    IF contact = me \/ contact \in Forged THEN table
    ELSE LET i == bucket_index(me, contact)
             longer == Append(table[i], contact)
         IN [table EXCEPT ![i] = IF Len(longer) > K THEN Tail(longer) ELSE longer]

\* bucket without the contact, if it is there.
Without(bucket, contact) ==
    IF \E p \in DOMAIN bucket : bucket[p] = contact
    THEN RemoveAt(bucket, CHOOSE p \in DOMAIN bucket : bucket[p] = contact)
    ELSE bucket

\* The contact moves to the back of its bucket; the oldest goes if it is full.
\* The node itself, and a contact whose key does not hash to its id, are refused.
AddContact(table, me, contact) ==
    IF contact = me \/ contact \in Forged THEN table
    ELSE LET i == bucket_index(me, contact)
             longer == Append(Without(table[i], contact), contact)
         IN [table EXCEPT ![i] = IF Len(longer) > K THEN Tail(longer) ELSE longer]

AddContacts(table, me, contacts) ==
    LET after[j \in 0 .. Len(contacts)] ==
            IF j = 0 THEN table ELSE AddContact(after[j - 1], me, contacts[j])
    IN after[Len(contacts)]

Contacts(table) == UNION {Range(table[i]) : i \in Buckets}
ClosestContacts(table, target) == Closest(Contacts(table), target, K)

Live(recs) == [k \in Keys |-> IF recs[k].expiry > clock THEN recs[k] ELSE NoRecord]

\* (Slip: the expiry of a record is not looked at.)
ValidateRecordAnyAge(r, key) == r.key = key /\ r.genuine

\* validate_record; "genuine" is the owner's address and signature.
ValidateRecord(r, key) == r.key = key /\ r.expiry > clock /\ r.genuine

-----------------------------------------------------------------------------
NoReply == [type |-> "none"]
Failed  == [type |-> "failed"]
NodesReply(S) == [type |-> "nodes", nodes |-> S]
ValueReply(r) == [type |-> "value", record |-> r]
Stored  == [type |-> "stored"]

IdleOp == [kind |-> "idle", phase |-> "none", target |-> NoKey, record |-> NoRecord, known |-> {},
           queried |-> {}, round |-> {}, best |-> NoKey, reply |-> NoReply]

DhtInit ==
    /\ clock = 0
    /\ buckets = [n \in Ids |-> AddContacts([i \in Buckets |-> <<>>], n, Bootstrap[n])]
    /\ records = [n \in Ids |-> [k \in Keys |-> NoRecord]]
    /\ op = [n \in Clients |-> IdleOp]
    /\ answer = [n \in Clients |-> [record |-> NoRecord, key |-> NoKey, at |-> 0]]
    /\ opsLeft = MaxOps

ClockTick ==
    /\ clock < MaxClock
    /\ clock' = clock + 1
    /\ UNCHANGED <<buckets, records, op, answer, opsLeft>>

\* What handle_rpc at peer does and answers to a request of n.
FindNodeAt(peer, n) ==
    LET table == AddContact(buckets[peer], peer, n) IN
    [table |-> table, records |-> records[peer],
     reply |-> NodesReply(ClosestContacts(table, op[n].target))]

FindValueAt(peer, n) ==
    LET table == AddContact(buckets[peer], peer, n)
        live  == Live(records[peer])
    IN [table |-> table, records |-> live,
        reply |-> IF live[op[n].target] # NoRecord THEN ValueReply(live[op[n].target])
                  ELSE NodesReply(ClosestContacts(table, op[n].target))]

StoreAt(peer, n) ==
    LET r == op[n].record
        ok == ValidateRecord(r, r.key)
    IN [table |-> AddContact(buckets[peer], peer, n),
        records |-> IF ok THEN [records[peer] EXCEPT ![r.key] = r] ELSE records[peer],
        reply |-> IF ok THEN Stored ELSE Failed]

FaultyReplies(n) == {NodesReply(S) : S \in SUBSET Claimed} \cup {ValueReply(r) : r \in Records}

\* One transport call of client n: lost, answered (the answer perhaps lost), or
\* answered by a faulty peer or whoever is at a forged contact's address.
\* handled is what handle_rpc does at an honest one, next the client's operation
\* meanwhile.
Call(n, peer, handled, next) ==
    \/ op' = [op EXCEPT ![n] = [next EXCEPT !.reply = Failed]] /\ UNCHANGED <<buckets, records>>
    \/ /\ peer \notin Faulty \cup Forged
       /\ buckets' = [buckets EXCEPT ![peer] = handled.table]
       /\ records' = [records EXCEPT ![peer] = handled.records]
       /\ \E reply \in {handled.reply, Failed} : op' = [op EXCEPT ![n] = [next EXCEPT !.reply = reply]]
    \/ /\ peer \in Faulty \cup Forged
       /\ \E reply \in FaultyReplies(n) : op' = [op EXCEPT ![n] = [next EXCEPT !.reply = reply]]
       /\ UNCHANGED <<buckets, records>>

First(S, target) == CHOOSE x \in S : CloserThan(x, S, target) = {}
Best(S, target)  == IF S = {} THEN NoKey ELSE xor_distance(First(S, target), target)

-----------------------------------------------------------------------------
(* find_node *)

\* The start of a round, at the top of the loop: the closest peers that were
\* not asked yet.  Without any the lookup is over.
Round(o) == Closest(o.known \ o.queried, o.target, Alpha)

\* What follows the lookup in find_node, find_value and store.
AfterLookup(o) ==
    CASE o.kind = "find_node"  -> IdleOp
      [] o.kind = "find_value" -> [o EXCEPT !.phase = "fetch", !.round = o.known]
      [] o.kind = "store"      -> [o EXCEPT !.phase = "replicate",
                                            !.round = Closest(o.known, o.target, Alpha)]

EnterRound(o) ==
    IF Round(o) = {} THEN AfterLookup(o)
    ELSE [o EXCEPT !.round = Round(o), !.best = Best(o.known, o.target)]

StartLookup(n, o) ==
    op' = [op EXCEPT ![n] = EnterRound([o EXCEPT !.phase = "lookup",
                                                 !.known = ClosestContacts(buckets[n], o.target)])]

Starting(n) == op[n].kind = "idle" /\ opsLeft > 0 /\ opsLeft' = opsLeft - 1

FindNode(n, target) ==
    /\ Starting(n)
    /\ StartLookup(n, [IdleOp EXCEPT !.kind = "find_node", !.target = target])
    /\ UNCHANGED <<clock, buckets, records, answer>>

\* (Slip: the peer asked is not remembered.)
AskNodeForgetful(n) ==
    LET o == op[n]
        peer == First(o.round, o.target)
    IN
    /\ o.phase = "lookup" /\ o.reply = NoReply
    /\ Call(n, peer, FindNodeAt(peer, n), [o EXCEPT !.round = @ \ {peer}])
    /\ UNCHANGED <<clock, answer, opsLeft>>

AskNode(n) ==
    LET o == op[n]
        peer == First(o.round, o.target)
    IN
    /\ o.phase = "lookup" /\ o.reply = NoReply
    /\ Call(n, peer, FindNodeAt(peer, n), [o EXCEPT !.round = @ \ {peer}, !.queried = @ \cup {peer}])
    /\ UNCHANGED <<clock, answer, opsLeft>>

\* After the last answer of a round: sort, truncate, and stop if nothing closer
\* turned up and as many peers were asked as are known.
EndRound(o) ==
    LET known == Closest(o.known, o.target, K)
        rest  == [o EXCEPT !.known = known]
    IN IF o.round # {} THEN o
       ELSE IF Best(known, o.target) = o.best /\ Cardinality(o.queried) >= Cardinality(known)
       THEN AfterLookup(rest)
       ELSE EnterRound(rest)

\* Errors, and answers of another type, are ignored.
LearnNodes(n) ==
    LET o == op[n]
        learned == IF o.reply.type = "nodes" THEN o.reply.nodes ELSE {}
    IN
    /\ o.phase = "lookup" /\ o.reply # NoReply
    /\ buckets' = [buckets EXCEPT ![n] = AddContacts(@, n, Sorted(learned, o.target))]
    /\ op' = [op EXCEPT ![n] = EndRound([o EXCEPT !.known = @ \cup learned, !.reply = NoReply])]
    /\ UNCHANGED <<clock, records, answer, opsLeft>>

-----------------------------------------------------------------------------
(* find_value *)

Answer(n, r, key) == answer' = [answer EXCEPT ![n] = [record |-> r, key |-> key, at |-> clock]]

FindValue(n, key) ==
    /\ Starting(n)
    /\ LET live == Live(records[n]) IN
       /\ records' = [records EXCEPT ![n] = live]
       /\ IF live[key] # NoRecord
          THEN Answer(n, live[key], key) /\ UNCHANGED op
          ELSE /\ StartLookup(n, [IdleOp EXCEPT !.kind = "find_value", !.target = key])
               /\ UNCHANGED answer
    /\ UNCHANGED <<clock, buckets>>

AskValue(n) ==
    LET o == op[n]
        peer == First(o.round, o.target)
    IN
    /\ o.phase = "fetch" /\ o.reply = NoReply /\ o.round # {}
    /\ Call(n, peer, FindValueAt(peer, n), [o EXCEPT !.round = @ \ {peer}])
    /\ UNCHANGED <<clock, answer, opsLeft>>

\* A value ends the lookup: cached and returned, or an error if it is invalid.
TakeValue(n) ==
    LET o == op[n] IN
    /\ o.phase = "fetch" /\ o.reply # NoReply /\ o.reply.type = "value"
    /\ IF ValidateRecord(o.reply.record, o.target)
       THEN /\ records' = [records EXCEPT ![n][o.target] = o.reply.record]
            /\ Answer(n, o.reply.record, o.target)
       ELSE UNCHANGED <<records, answer>>
    /\ op' = [op EXCEPT ![n] = IdleOp]
    /\ UNCHANGED <<clock, buckets, opsLeft>>

\* Anything else: on to the next peer, or the answer None.
NoValue(n) ==
    LET o == op[n] IN
    /\ o.phase = "fetch"
    /\ o.reply.type \in {"nodes", "failed", "stored"} \/ (o.reply = NoReply /\ o.round = {})
    /\ IF o.round = {}
       THEN op' = [op EXCEPT ![n] = IdleOp] /\ Answer(n, NoRecord, o.target)
       ELSE op' = [op EXCEPT ![n].reply = NoReply] /\ UNCHANGED answer
    /\ UNCHANGED <<clock, buckets, records, opsLeft>>

-----------------------------------------------------------------------------
(* store *)

StoreRecord(n, r) ==
    /\ Starting(n)
    /\ ValidateRecord(r, r.key)
    /\ records' = [records EXCEPT ![n][r.key] = r]
    /\ StartLookup(n, [IdleOp EXCEPT !.kind = "store", !.target = r.key, !.record = r])
    /\ UNCHANGED <<clock, buckets, answer>>

Replicate(n) ==
    LET o == op[n]
        peer == First(o.round, o.target)
    IN
    /\ o.phase = "replicate" /\ o.reply = NoReply /\ o.round # {}
    /\ Call(n, peer, StoreAt(peer, n), [o EXCEPT !.round = @ \ {peer}])
    /\ UNCHANGED <<clock, answer, opsLeft>>

\* The first error ends the store; any answer, even a wrong one, goes on.
Replicated(n) ==
    LET o == op[n] IN
    /\ o.phase = "replicate"
    /\ o.reply # NoReply \/ o.round = {}
    /\ op' = [op EXCEPT ![n] = IF o.reply = Failed \/ o.round = {} THEN IdleOp
                               ELSE [o EXCEPT !.reply = NoReply]]
    /\ UNCHANGED <<clock, buckets, records, answer, opsLeft>>

\* Any node may ping another one: the sender becomes a contact.
Ping(n, peer) ==
    /\ n # peer /\ peer \notin Faulty /\ opsLeft > 0
    /\ opsLeft' = opsLeft - 1
    /\ buckets' = [buckets EXCEPT ![peer] = AddContact(@, peer, n)]
    /\ UNCHANGED <<clock, records, op, answer>>

ClientStep(n) ==
    \/ AskNode(n) \/ LearnNodes(n) \/ AskValue(n) \/ TakeValue(n) \/ NoValue(n)
    \/ Replicate(n) \/ Replicated(n)

DhtNext ==
    \/ ClockTick
    \/ \E n \in Clients :
          \/ \E target \in Ids : FindNode(n, target)
          \/ \E key \in Keys : FindValue(n, key)
          \/ \E r \in Records : StoreRecord(n, r)
          \/ ClientStep(n)
    \/ \E n \in Ids, peer \in Ids : Ping(n, peer)

DhtSpec == DhtInit /\ [][DhtNext]_dhtVars

-----------------------------------------------------------------------------
Replies ==
    {NoReply, Failed, Stored} \cup {NodesReply(S) : S \in SUBSET Claimed}
                              \cup {ValueReply(r) : r \in Records}
Operations ==
    [kind : {"idle", "find_node", "find_value", "store"},
     phase : {"none", "lookup", "fetch", "replicate"},
     target : Ids \cup Keys \cup {NoKey}, record : Records \cup {NoRecord},
     known : SUBSET Claimed, queried : SUBSET Claimed, round : SUBSET Claimed,
     best : [Buckets -> {0, 1}] \cup {NoKey}, reply : Replies]

DhtTypeOK ==
    /\ clock \in 0 .. MaxClock
    /\ buckets \in [Ids -> [Buckets -> Seq(Ids)]]
    /\ records \in [Ids -> [Keys -> Records \cup {NoRecord}]]
    /\ op \in [Clients -> Operations]
    /\ answer \in [Clients -> [record : Records \cup {NoRecord}, key : Keys \cup {NoKey},
                               at : 0 .. MaxClock]]
    /\ opsLeft \in 0 .. MaxOps

(* find_value never returns a record that has expired, is not signed by its
   owner or belongs to another key, although records expire between a peer's
   answer and its use and peers may answer anything. *)
NoStaleAnswer ==
    \A n \in Clients : answer[n].record # NoRecord =>
        /\ answer[n].record.expiry > answer[n].at
        /\ answer[n].record.genuine
        /\ answer[n].record.key = answer[n].key

(* However contacts are learned, a routing table keeps at most K contacts per
   distance, each once and in the bucket of its distance, and neither the node
   itself nor a contact without the key of its id, although lookups follow
   those: what closest_contacts and the eviction of the oldest rely on. *)
RoutingTableSound ==
    \A n \in Ids, i \in Buckets :
        LET b == buckets[n][i] IN
        /\ Len(b) <= K
        /\ \A j \in DOMAIN b : b[j] # n /\ b[j] \notin Forged /\ bucket_index(n, b[j]) = i
        /\ \A j, k \in DOMAIN b : j # k => b[j] # b[k]

(* Every lookup and store ends, whatever peers answer, contacts that do not
   exist included: each round asks peers that were not asked before, and there
   are finitely many ids. *)
OperationsEnd == \A n \in Clients : (op[n].kind # "idle") ~> (op[n].kind = "idle")
=============================================================================
