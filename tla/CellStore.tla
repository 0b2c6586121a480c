----------------------------- MODULE CellStore -----------------------------
(***************************************************************************)
(* The reference-counted cells of StateStorage (onx-state-model,           *)
(* storage.rs).  A cell is stored with the number of holders of the trees  *)
(* it is in: the shards, through the root their last block left in         *)
(* shard_states, and clients, through retain_cell_root.  Every action is   *)
(* one batch, which commit() makes atomic (module CommitJournal); an       *)
(* operation that returns an error commits nothing.                        *)
(***************************************************************************)
EXTENDS Integers, FiniteSets

CONSTANTS
    Cells,      \* cell hashes
    Children,   \* the cell_refs of each cell
    Shards,     \* shards whose blocks are committed
    Retainers,  \* callers of retain_cell_root and release_cell_root
    None,       \* no root is held
    MaxRefs     \* the largest count (u64::MAX in the code)

NotStored == -1
Holders   == Shards \cup Retainers

ASSUME CellsAssumption   == IsFiniteSet(Cells) /\ Children \in [Cells -> SUBSET Cells]
ASSUME HoldersAssumption == IsFiniteSet(Holders) /\ Shards \cap Retainers = {}
ASSUME NoneAssumption    == None \notin Cells
ASSUME MaxRefsAssumption == MaxRefs \in Nat \ {0}

VARIABLES
    refs,   \* the count in each cell's record, or NotStored
    held    \* the root each holder keeps, or None

cellVars == <<refs, held>>

\* The cells below r, r included: those in every set closed under cell_refs.
Tree ==
    [r \in Cells |->
        {c \in Cells : \A S \in SUBSET Cells :
            r \in S /\ (\A x \in S : Children[x] \subseteq S) => c \in S}]

\* The cells adjust_cell visits on the way down from r: it goes on from a cell
\* only when it takes that cell's last reference.
Falling(n, r) ==
    {c \in Cells : \A S \in SUBSET Cells :
        r \in S /\ (\A x \in S : n[x] = 1 => Children[x] \subseteq S) => c \in S}

CellInit ==
    /\ refs = [c \in Cells |-> NotStored]
    /\ held = [h \in Holders |-> None]

\* (A slip the runs must notice: a cell put again starts over from zero.)
PutCellsResetting(n, S) == [c \in Cells |-> IF c \in S THEN 0 ELSE n[c]]

\* put_cells: a cell already stored keeps its record.
PutCells(n, S) ==
    [c \in Cells |-> IF c \in S /\ n[c] = NotStored THEN 0 ELSE n[c]]

\* adjust_cell(r, true): refused when a cell is absent or its count full.
CanRaise(n, r) == \A c \in Tree[r] : n[c] # NotStored /\ n[c] < MaxRefs
Raise(n, r)    == [c \in Cells |-> IF c \in Tree[r] THEN n[c] + 1 ELSE n[c]]

\* adjust_cell(r, false): refused when a cell is absent or its count zero.
CanLower(n, r) == \A c \in Falling(n, r) : n[c] >= 1

\* What the batch leaves of n once r is lowered.  Removals are journalled
\* ahead of puts, so a cell with a put pending (one of P) is not removed.
Lower(n, r, P) ==
    LET visited == Falling(n, r)
    IN  [c \in Cells |-> IF c \notin visited THEN n[c]
                         ELSE IF n[c] > 1 THEN n[c] - 1
                         ELSE IF c \in P THEN n[c] ELSE NotStored]

\* put_cell and put_boc.
PutBoc(S) ==
    /\ refs' = PutCells(refs, S)
    /\ UNCHANGED held

\* (A slip the runs must notice: a full count is raised.)
RetainUnchecked(h, r) ==
    /\ held[h] = None
    /\ \A c \in Tree[r] : refs[c] # NotStored
    /\ refs' = Raise(refs, r)
    /\ held' = [held EXCEPT ![h] = r]

\* retain_cell_root.
Retain(h, r) ==
    /\ held[h] = None
    /\ CanRaise(refs, r)
    /\ refs' = Raise(refs, r)
    /\ held' = [held EXCEPT ![h] = r]

\* release_cell_root, of a root the client retained.
Release(h) ==
    /\ held[h] # None
    /\ CanLower(refs, held[h])
    /\ refs' = Lower(refs, held[h], {})
    /\ held' = [held EXCEPT ![h] = None]

\* The cells of the block's BoCs and of the new state, put; the new root,
\* raised.
Staged(r, S) == PutCells(refs, S \cup Tree[r])

\* (A slip the runs must notice: the old root is lowered from the counts on
\* disk, without the puts pending in the batch.)
CommitBlockFromDisk(s, r, S) ==
    LET up   == Raise(Staged(r, S), r)
        down == Lower(refs, held[s], Tree[r])
    IN  /\ CanRaise(Staged(r, S), r)
        /\ held[s] # None => CanLower(refs, held[s])
        /\ refs' = IF held[s] = None THEN up
                   ELSE [c \in Cells |-> IF c \in Falling(refs, held[s])
                                         THEN down[c] ELSE up[c]]
        /\ held' = [held EXCEPT ![s] = r]

\* commit_block: the new root is raised before the shard's old one is lowered.
CommitBlock(s, r, S) ==
    LET up == Raise(Staged(r, S), r)
    IN  /\ CanRaise(Staged(r, S), r)
        /\ held[s] # None => CanLower(up, held[s])
        /\ refs' = IF held[s] = None THEN up
                   ELSE Lower(up, held[s], {c \in Cells : up[c] # refs[c]})
        /\ held' = [held EXCEPT ![s] = r]

CellNext ==
    \/ \E S \in SUBSET Cells : PutBoc(S)
    \/ \E h \in Retainers : Release(h) \/ \E r \in Cells : Retain(h, r)
    \/ \E s \in Shards, r \in Cells, S \in SUBSET Cells : CommitBlock(s, r, S)

CellSpec == CellInit /\ [][CellNext]_cellVars

-----------------------------------------------------------------------------
CellTypeOK ==
    /\ refs \in [Cells -> NotStored .. MaxRefs]
    /\ held \in [Holders -> Cells \cup {None}]

\* The holders of the trees that c is in.
HoldersOf(c) == {h \in Holders : held[h] # None /\ c \in Tree[held[h]]}

(* No cell of a tree that a shard or a client still holds is ever removed,
   however the trees share cells and in whatever order their holders let go. *)
HeldTreesStored ==
    \A h \in Holders : held[h] # None =>
        \A c \in Tree[held[h]] : refs[c] # NotStored

(* Letting go of what is held is never refused: neither release_cell_root nor
   the old root in commit_block meets "cell refcount underflow" or "referenced
   cell is absent", which would stop the shard at that block for good. *)
HeldRootsCanBeReleased ==
    \A h \in Holders : held[h] # None => CanLower(refs, held[h])

\* The inductive invariant: a count is at least the number of holders.
CountsCoverHolders ==
    \A c \in Cells : HoldersOf(c) # {} => refs[c] >= Cardinality(HoldersOf(c))

CellInv == CellTypeOK /\ CountsCoverHolders

(* "Implement reference counting or garbage collection for pruned/stale state
   trees" (development-tasks.md line 102): once nobody holds any tree, no cell
   keeps a reference. *)
StaleTreesCollected ==
    (\A h \in Holders : held[h] = None) => \A c \in Cells : refs[c] <= 0
=============================================================================
