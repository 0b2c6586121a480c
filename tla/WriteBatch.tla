----------------------------- MODULE WriteBatch -----------------------------
(***************************************************************************)
(* The Batch of onx-state-model's storage.rs, as the list of lines that    *)
(* commit() writes to the journal: removals first, then puts.  A key is a  *)
(* file of one of the four column families (cells, accounts,               *)
(* block_headers, shard_states).                                           *)
(***************************************************************************)
EXTENDS Integers, Sequences

CONSTANTS
    Paths,    \* the files
    Values,   \* what a file may hold
    Absent,   \* the file does not exist; as a line's value: "D", a removal
    Batches   \* the batches that may be committed

Contents == Values \cup {Absent}
Lines    == [key : Paths, val : Contents]

ASSUME AbsentAssumption  == Absent \notin Values
ASSUME BatchesAssumption == Batches \subseteq Seq(Lines)

\* The lines of b from the p-th on that touch k; the last one decides.
Touching(b, p, k) == {i \in p .. Len(b) : b[i].key = k}
LastLine(I)           == CHOOSE i \in I : \A j \in I : j <= i

\* The files after the lines of b from the p-th on have all been applied to d.
OverlayFrom(d, b, p) ==
    [k \in Paths |-> IF Touching(b, p, k) = {} THEN d[k]
                     ELSE b[LastLine(Touching(b, p, k))].val]

Overlay(d, b) == OverlayFrom(d, b, 1)
=============================================================================
