---------------------------- MODULE AtomicStore ----------------------------
(***************************************************************************)
(* What storage.rs promises of commit: "A write-ahead journal makes a      *)
(* block commitment all-or-nothing across" the column families.  A batch   *)
(* takes effect in one step or not at all, and nothing else ever happens   *)
(* to the files.                                                           *)
(***************************************************************************)
EXTENDS WriteBatch

VARIABLE store

Init == store = [k \in Paths |-> Absent]

Commit(b) == store' = Overlay(store, b)

Next == \E b \in Batches : Commit(b)

Spec == Init /\ [][Next]_store
=============================================================================
