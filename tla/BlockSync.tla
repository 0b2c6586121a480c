------------------------------ MODULE BlockSync ------------------------------
(***************************************************************************)
(* Header synchronisation (sync.rs) with the structural rules it applies:  *)
(* successors (validity.rs), announcement flags (flags.rs), masterchain    *)
(* references and the shard configuration (masterchain.rs).                *)
(*                                                                         *)
(* A header is its hash.  A shard is the rank of its byte encoding.  Roots *)
(* recomputed from the downloaded messages agree with the header or not:   *)
(* one bit.  The shard configuration is not covered by a header's hash, so *)
(* a peer may offer the same masterchain header with different ones; an    *)
(* Option is the set of its at most one value.                             *)
(***************************************************************************)
EXTENDS Integers, Sequences

CONSTANTS
    Header,       \* the header with a given hash
    MasterShard,  \* the shard of the masterchain
    Anchors,      \* candidates a node trusts: genesis, a checkpoint
    Candidates,   \* downloaded candidates
    MaxBatch      \* the longest batch

Hashes   == DOMAIN Header
ZERO     == "zero"        \* Uint256::ZERO, the hash of nothing
NoProof  == "none"

ASSUME HeaderAssumption ==
    \A h \in Hashes : /\ Header[h].seq \in Nat /\ Header[h].shard \in Nat
                      /\ {Header[h].start, Header[h].end, Header[h].utime} \subseteq Nat
ASSUME BatchAssumption == MaxBatch \in Nat
ASSUME CandidateAssumption ==
    \A c \in Candidates \cup Anchors :
        /\ c.hash \in Hashes \ {ZERO}
        /\ \A e, f \in c.extra : e = f
        /\ c.extra \subseteq Seq([shard : Nat, hash : Hashes, seq : Nat])

VARIABLE index  \* blocks, with where each came from: trusted, or vouched for by proof

IsMaster(h) == Header[h].shard = MasterShard

-----------------------------------------------------------------------------
(* Flags: the announcements set, MERGE_RESULT, and a reserved bit. *)

FlagsValid(flags) == ~flags.reserved /\ \A a, b \in flags.announced : a = b

Commits(h) == Header[h].flags.announced \cap {"SPLIT_COMMIT", "MERGE_COMMIT"} # {}

IsMergeResult(h) == Header[h].flags.mergeResult

Parents(h) == {Header[h].prev} \cup (IF IsMergeResult(h) THEN {Header[h].prev2} ELSE {})

-----------------------------------------------------------------------------
(* Shard configuration. *)

\* (Slip: equal shards are let through.)
ExtraSortedLoosely(extra) ==
    \A i, j \in DOMAIN extra : i < j => extra[i].shard <= extra[j].shard

\* Strictly ascending, which the code checks of neighbouring entries.
ExtraSorted(extra) ==
    \A i, j \in DOMAIN extra : i < j => extra[i].shard < extra[j].shard

IsCanonical(extra, h) ==
    \E i \in DOMAIN extra :
        extra[i] = [shard |-> Header[h].shard, hash |-> h, seq |-> Header[h].seq]

-----------------------------------------------------------------------------
(* The checks of one candidate against the blocks staged so far. *)

Held(blocks) == {b.hash : b \in blocks}

\* validate_role_fields
RoleFieldsValid(c) ==
    IF IsMaster(c.hash)
    THEN c.extra # {} /\ (\A e \in c.extra : ExtraSorted(e)) /\ c.proof = NoProof
    ELSE c.extra = {} /\ c.proof # NoProof

\* (Slip: only the first parent's sequence number is looked at.)
SeqFollowsFirst(h) == Header[h].seq = Header[Header[h].prev].seq + 1

\* One more than the larger of the parents' sequence numbers.
SeqFollows(h) ==
    /\ \A p \in Parents(h) : Header[p].seq < Header[h].seq
    /\ \E p \in Parents(h) : Header[h].seq = Header[p].seq + 1

TimeFollows(h) ==
    /\ \A p \in Parents(h) : Header[p].utime <= Header[h].utime /\ Header[p].end <= Header[h].start
    /\ Header[h].start <= Header[h].end

\* validate_block_successor: the block itself ...
BodyFollows(c) ==
    /\ FlagsValid(Header[c.hash].flags)
    /\ SeqFollows(c.hash) /\ TimeFollows(c.hash)
    /\ c.rootsMatch

\* ... and no parent that announced the end of its shard.
SuccessorValid(c) == BodyFollows(c) /\ \A p \in Parents(c.hash) : ~Commits(p)

\* validate_master_ref
MasterRefValid(h, blocks) ==
    IF IsMaster(h) THEN Header[h].master = ZERO
    ELSE Header[h].master \in Held(blocks) /\ IsMaster(Header[h].master)

\* The block the proof names is held and its configuration names the candidate.
ProofValid(c, blocks) ==
    IsMaster(c.hash) \/ \E b \in blocks : b.hash = c.proof /\ \E e \in b.extra : IsCanonical(e, c.hash)

\* validate_candidate
CandidateValid(c, blocks) ==
    /\ RoleFieldsValid(c)
    /\ c.hash \notin Held(blocks)
    /\ Parents(c.hash) \subseteq Held(blocks)
    /\ SuccessorValid(c)
    /\ MasterRefValid(c.hash, blocks)
    /\ ProofValid(c, blocks)

Stored(c, trusted) == [hash |-> c.hash, extra |-> c.extra, proof |-> c.proof, trusted |-> trusted]

-----------------------------------------------------------------------------
SyncInit == index = {}

InsertTrusted(c) ==
    /\ RoleFieldsValid(c) /\ c.hash \notin Held(index)
    /\ index' = index \cup {Stored(c, TRUE)}

\* What is staged when the i-th candidate is checked.
Staged(batch, i) == index \cup {Stored(batch[j], FALSE) : j \in 1..(i - 1)}

\* One candidate that fails leaves the index as it was.
ImportBatch(batch) ==
    /\ \A i \in DOMAIN batch : CandidateValid(batch[i], Staged(batch, i))
    /\ index' = Staged(batch, Len(batch) + 1)

Reversed(batch) == [i \in DOMAIN batch |-> batch[Len(batch) + 1 - i]]

ImportReverseBatch(batch) == ImportBatch(Reversed(batch))

Batches == UNION {[1..n -> Candidates] : n \in 1..MaxBatch}

SyncNext ==
    \/ \E c \in Anchors : InsertTrusted(c)
    \/ \E batch \in Batches : ImportBatch(batch)
    \/ \E batch \in Batches : ImportReverseBatch(batch)

SyncSpec == SyncInit /\ [][SyncNext]_index

-----------------------------------------------------------------------------
SyncTypeOK ==
    \A b \in index : \E c \in Candidates \cup Anchors : b = Stored(c, b.trusted) /\ b.trusted \in BOOLEAN

(* In whatever order and direction batches arrive, every block that was not *)
(* trusted has all its parents in the index, its sequence number is one     *)
(* more than the largest of theirs, no parent ends after it starts, and a   *)
(* shard block has a masterchain block it refers to and one whose           *)
(* configuration names it.                                                  *)
IndexIsConnected ==
    \A b \in index : ~b.trusted =>
        /\ \A p \in Parents(b.hash) :
               /\ p \in Held(index)
               /\ Header[p].seq < Header[b.hash].seq /\ Header[p].end <= Header[b.hash].start
        /\ \E p \in Parents(b.hash) : Header[b.hash].seq = Header[p].seq + 1
        /\ ~IsMaster(b.hash) =>
               /\ \E m \in index : m.hash = Header[b.hash].master /\ IsMaster(m.hash)
               /\ \E m \in index : m.hash = b.proof /\ IsMaster(m.hash) /\ \E e \in m.extra : IsCanonical(e, b.hash)

(* Two competing blocks of a shard never enter on the word of the same      *)
(* masterchain block: the configuration held for it names one per shard.    *)
OneBlockPerProof ==
    \A b, c \in index :
        ~b.trusted /\ ~c.trusted /\ b.proof # NoProof /\ b.proof = c.proof
            /\ Header[b.hash].shard = Header[c.hash].shard => b = c

\* "the next blocks belong to its two children" (SPLIT_COMMIT), "the next block
\* belongs to the merged shard" (MERGE_COMMIT): a successor blocks.md allows.
OpensNewShard(h, p) == Header[h].shard # Header[p].shard

(* The chain goes on after a split or a merge (blocks.md 3.2 and 3.4): a     *)
(* block that meets every other rule and opens a new shard behind each      *)
(* parent that announced its last block can be imported.                    *)
ShardsContinue ==
    \A c \in Candidates :
        /\ RoleFieldsValid(c) /\ c.hash \notin Held(index)
        /\ Parents(c.hash) \subseteq Held(index)
        /\ BodyFollows(c) /\ MasterRefValid(c.hash, index) /\ ProofValid(c, index)
        /\ \A p \in Parents(c.hash) : Commits(p) => OpensNewShard(c.hash, p)
        => CandidateValid(c, index)

\* A block is stored once, a masterchain block with a sorted configuration.
IndexSound ==
    /\ \A b, c \in index : b.hash = c.hash => b = c
    /\ \A b \in index : RoleFieldsValid(b)
=============================================================================
