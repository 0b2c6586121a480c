---------------------------- MODULE ShardPipeline ----------------------------
(***************************************************************************)
(* Shard splits and merges (onx-sharding: lib.rs, pipeline.rs) with the    *)
(* shard identifiers of onx-data-structures/shard.rs.                      *)
(*                                                                         *)
(* A shard is the sequence of its prefix bits: the marker bit below the    *)
(* prefix only encodes its length.  An account is a sequence of Depth      *)
(* bits, at least as many as a prefix has.  Load is "high" (at least 75%   *)
(* of both limits), "low" (at most 20%) or neither; the windows of 256 and *)
(* 1024 samples, and the 8 blocks between announcement and commit, are     *)
(* scaled.  There is one workchain.                                        *)
(***************************************************************************)
EXTENDS Integers, Sequences, FiniteSets, SequencesExt

CONSTANTS
    Depth,        \* bits of an account id that are told apart
    MaxPrefix,    \* 60, scaled: the longest prefix
    Genesis,      \* the shards of the first masterchain block
    Pending,      \* messages: [id, dest, lt]; ids are in the order of the hashes
    Owners,       \* accounts that may be created
    SplitWindow, MergeWindow,  \* load samples a trigger looks at
    PrepareLead,  \* PREPARE_LEAD_BLOCKS
    MaxHeight, MaxEpoch        \* bounds: masterchain blocks, assignment rotations

Bits       == {0, 1}
AccountIds == [1..Depth -> Bits]
Shards     == UNION {[1..n -> Bits] : n \in 0..MaxPrefix}

ASSUME ShardAssumption ==
    /\ MaxPrefix \in 0..Depth /\ Genesis \subseteq Shards /\ Owners \subseteq AccountIds
    /\ \A m \in Pending : m.dest \in AccountIds /\ m.lt \in Nat /\ m.id \in Nat
ASSUME DepthAssumption == Depth \in Nat
ASSUME WindowAssumption == MergeWindow \in Nat /\ PrepareLead \in Nat /\ MaxHeight \in Nat /\ MaxEpoch \in Nat

VARIABLES
    shards,     \* the active shards: their accounts and pending messages
    load,       \* per shard: the latest load samples
    prepares,   \* per shard: outstanding announcements [kind, height, epoch]
    height,     \* masterchain height
    epoch,      \* assignment epoch
    arrived,    \* every message that arrived
    created     \* every account that was created

shardVars == <<shards, load, prepares, height, epoch, arrived, created>>

ShardInit ==
    /\ shards = [s \in Genesis |-> [accounts |-> {}, pending |-> <<>>]]
    /\ load = [s \in Genesis |-> <<>>] /\ prepares = [s \in Genesis |-> {}]
    /\ height = 0 /\ epoch = 0 /\ arrived = {} /\ created = {}

\* contains_account: the account starts with the prefix.
ContainsAccount(s, a) == IsPrefix(s, a)

ASSUME GenesisAssumption ==
    \A a \in AccountIds : \E s \in Genesis : \A t \in Genesis : ContainsAccount(t, a) <=> t = s

Children(s) == {Append(s, 0), Append(s, 1)}

Ids(messages) == {messages[i] : i \in DOMAIN messages}

\* By created_lt, then by hash; a sort that is stable.
GoesBefore(messages, j, i) ==
    \/ messages[j].lt < messages[i].lt
    \/ messages[j].lt = messages[i].lt /\ messages[j].id < messages[i].id
    \/ messages[j].lt = messages[i].lt /\ messages[j].id = messages[i].id /\ j < i

\* The messages at these places, in that order.
Sorted(messages, places) ==
    [p \in 1..Cardinality(places) |->
        messages[CHOOSE i \in places : Cardinality({j \in places : GoesBefore(messages, j, i)}) = p - 1]]

-----------------------------------------------------------------------------
(* Work on the shards between transitions. *)

CreateAccount(s, a) ==
    /\ ContainsAccount(s, a) /\ a \notin created
    /\ shards' = [shards EXCEPT ![s].accounts = @ \cup {a}]
    /\ created' = created \cup {a}
    /\ UNCHANGED <<load, prepares, height, epoch, arrived>>

\* Messages arrive in any order.
Arrive(s, m) ==
    /\ ContainsAccount(s, m.dest) /\ m \notin arrived
    /\ shards' = [shards EXCEPT ![s].pending = Append(@, m)]
    /\ arrived' = arrived \cup {m}
    /\ UNCHANGED <<load, prepares, height, epoch, created>>

Latest(samples, n) == IF Len(samples) <= n THEN samples ELSE Tail(samples)

\* A masterchain block commits a load sample of every shard.
CommitBlock(sample) ==
    /\ height < MaxHeight /\ height' = height + 1
    /\ load' = [s \in DOMAIN shards |-> Latest(Append(load[s], sample[s]), MergeWindow)]
    /\ UNCHANGED <<shards, prepares, epoch, arrived, created>>

RotateAssignment ==
    /\ epoch < MaxEpoch /\ epoch' = epoch + 1
    /\ UNCHANGED <<shards, load, prepares, height, arrived, created>>

-----------------------------------------------------------------------------
(* Announcing. *)

\* The last n samples, if there are as many, all at this level.
Window(s, n, level) ==
    Len(load[s]) >= n /\ \A i \in (Len(load[s]) - n + 1)..Len(load[s]) : load[s][i] = level

split_trigger_met(s) == Window(s, SplitWindow, "high")
merge_trigger_met(s) == Window(s, MergeWindow, "low")

Prepare(s, kind) ==
    /\ prepares[s] = {}
    /\ \/ kind = "Split" /\ split_trigger_met(s)
       \/ kind = "Merge" /\ merge_trigger_met(s)
    /\ prepares' = [prepares EXCEPT ![s] = {[kind |-> kind, height |-> height, epoch |-> epoch]}]
    /\ UNCHANGED <<shards, load, height, epoch, arrived, created>>

\* An announcement whose block has gone by is void.
Lapse(s) ==
    /\ \E p \in prepares[s] : height > p.height + PrepareLead
    /\ prepares' = [prepares EXCEPT ![s] = {}]
    /\ UNCHANGED <<shards, load, height, epoch, arrived, created>>

\* validate_transition_commit, for each shard that announced: exactly PrepareLead
\* blocks ago, and at most one rotation.
CommitValid(s, kind) ==
    \E p \in prepares[s] :
        /\ p.kind = kind /\ p.height + PrepareLead = height
        /\ epoch - p.epoch \in 0..1

-----------------------------------------------------------------------------
(* Committing. *)

\* The new shards in place of the old ones, with no load and no announcement yet.
Replace(old, new) ==
    LET now == (DOMAIN shards \ old) \cup DOMAIN new
    IN /\ shards' = [s \in now |-> IF s \in DOMAIN new THEN new[s] ELSE shards[s]]
       /\ load' = [s \in now |-> IF s \in DOMAIN new THEN <<>> ELSE load[s]]
       /\ prepares' = [s \in now |-> IF s \in DOMAIN new THEN {} ELSE prepares[s]]
       /\ UNCHANGED <<height, epoch, arrived, created>>

OwnershipValid(s) ==
    /\ \A a \in shards[s].accounts : ContainsAccount(s, a)
    /\ \A m \in Ids(shards[s].pending) : ContainsAccount(s, m.dest)

\* split_shard_state: each account and message goes to the child that contains it.
SplitState(s) ==
    LET queue == shards[s].pending
    IN [c \in Children(s) |->
           [accounts |-> {a \in shards[s].accounts : ContainsAccount(c, a)},
            pending  |-> Sorted(queue, {i \in DOMAIN queue : ContainsAccount(c, queue[i].dest)})]]

Split(s) ==
    /\ CommitValid(s, "Split")
    /\ OwnershipValid(s)
    /\ Len(s) < MaxPrefix
    /\ Replace({s}, SplitState(s))

\* (Slip: equal depth, any bit may differ.)
SiblingsByDepth(s, t) == Len(s) = Len(t) /\ s # t /\ Len(s) > 0

\* common_parent: equal depth, only the last bit differs.  The workchains are equal.
Siblings(s, t) == Len(s) = Len(t) /\ Len(s) > 0 /\ s # t /\ Front(s) = Front(t)

\* (Slip: the second queue is not taken over.)
MergeStateFirst(s, t) ==
    [accounts |-> shards[s].accounts \cup shards[t].accounts,
     pending  |-> Sorted(shards[s].pending, DOMAIN shards[s].pending)]

\* merge_shard_states
MergeState(s, t) ==
    LET queue == shards[s].pending \o shards[t].pending
    IN [accounts |-> shards[s].accounts \cup shards[t].accounts, pending |-> Sorted(queue, DOMAIN queue)]

Merge(s, t) ==
    /\ CommitValid(s, "Merge") /\ CommitValid(t, "Merge")
    /\ OwnershipValid(s) /\ OwnershipValid(t)
    /\ Siblings(s, t)
    /\ Replace({s, t}, [p \in {Front(s)} |-> MergeState(s, t)])

ShardNext ==
    \/ \E s \in DOMAIN shards, a \in Owners : CreateAccount(s, a)
    \/ \E s \in DOMAIN shards, m \in Pending : Arrive(s, m)
    \/ \E sample \in [DOMAIN shards -> {"high", "low"}] : CommitBlock(sample)
    \/ RotateAssignment
    \/ \E s \in DOMAIN shards, kind \in {"Split", "Merge"} : Prepare(s, kind)
    \/ \E s \in DOMAIN shards : Lapse(s)
    \/ \E s \in DOMAIN shards : Split(s)
    \/ \E s, t \in DOMAIN shards : Merge(s, t)

ShardSpec == ShardInit /\ [][ShardNext]_shardVars

-----------------------------------------------------------------------------
ShardTypeOK ==
    /\ DOMAIN shards \subseteq Shards
    /\ \A s \in DOMAIN shards : shards[s] \in [accounts : SUBSET Owners, pending : Seq(Pending)]
    /\ DOMAIN load = DOMAIN shards /\ DOMAIN prepares = DOMAIN shards
    /\ \A s \in DOMAIN shards :
           /\ load[s] \in Seq({"high", "low"}) /\ Len(load[s]) <= MergeWindow
           /\ prepares[s] \subseteq [kind : {"Split", "Merge"}, height : 0..height, epoch : 0..epoch]

(* Whatever splits and merges are committed, in whatever order, the active  *)
(* shards partition the accounts: each has exactly one shard.               *)
ShardsPartition == \A a \in AccountIds : Cardinality({s \in DOMAIN shards : ContainsAccount(s, a)}) = 1

(* Every account ever created and every message that arrived is in exactly  *)
(* one shard, the one that contains it, and once: a migration neither loses *)
(* nor doubles nor misplaces one.                                           *)
NothingLost ==
    /\ \A a \in created : {s \in DOMAIN shards : a \in shards[s].accounts} = {s \in DOMAIN shards : ContainsAccount(s, a)}
    /\ \A m \in arrived :
           \E s \in DOMAIN shards : \E i \in DOMAIN shards[s].pending :
               \A t \in DOMAIN shards : \A j \in DOMAIN shards[t].pending :
                   shards[t].pending[j] = m <=> t = s /\ j = i
    /\ \A s \in DOMAIN shards : OwnershipValid(s)
=============================================================================
