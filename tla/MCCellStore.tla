---------------------------- MODULE MCCellStore ----------------------------
(***************************************************************************)
(* CellStore over two state trees that share a subtree.                    *)
(***************************************************************************)
EXTENDS CellStore, TLC

\* r1 and r2 are state roots; m is in both trees, and l is both m's child and
\* r1's.
MCChildren == [r1 |-> {"m", "l"}, r2 |-> {"m"}, m |-> {"l"}, l |-> {}]

RetainerSymmetry == Permutations(Retainers)
=============================================================================
