-------------------------- MODULE MCCommitJournal --------------------------
(***************************************************************************)
(* CommitJournal over one shard: two block commitments that write the      *)
(* shard's accounts and its root, as commit_block lays them out (every old *)
(* account removed, every new one put, the root last).                     *)
(***************************************************************************)
EXTENDS CommitJournal

Put(k, v)  == [key |-> k, val |-> v]
Delete(k)  == [key |-> k, val |-> Absent]

\* Block a leaves account x, block b accounts x and y.
BlockA == <<Delete("x"), Delete("y"), Put("x", "a"), Put("root", "a")>>
BlockB == <<Delete("x"), Put("x", "b"), Put("y", "b"), Put("root", "b")>>
\* put_cells on cells already stored commits an empty batch.
MCBatches == {BlockA, BlockB, <<>>}

Nothing == [k \in Paths |-> Absent]

(* "A write-ahead journal makes a block commitment all-or-nothing across them"
   (storage.rs lines 3-4): what recovery arrives at is the state of one block,
   accounts and root together. *)
FamiliesAgree ==
    journal = NoJournal /\ mode = "idle" =>
        files \in {Nothing, Overlay(Nothing, BlockA), Overlay(Nothing, BlockB)}
=============================================================================
