-------------------------- MODULE CellStore_proofs --------------------------
(***************************************************************************)
(* No cell of a held tree is ever removed, for every graph of cells, every *)
(* set of shards and clients and every bound on the counts.  The inductive *)
(* invariant is that a count is never below the number of holders: a walk  *)
(* down stays inside the tree it starts from, and so only takes a          *)
(* reference where its holder had one.                                     *)
(***************************************************************************)
EXTENDS CellStore, TLAPS, FiniteSetTheorems

(* The walk down from a root never leaves that root's tree. *)
LEMMA FallingInTree ==
    ASSUME NEW n, NEW r \in Cells
    PROVE  Falling(n, r) \subseteq Tree[r]
  BY DEF Falling, Tree

LEMMA TreeType ==
    ASSUME NEW r \in Cells
    PROVE  Tree[r] \subseteq Cells
  BY DEF Tree

(* The number of holders of a cell, and how one holder more or less counts. *)
LEMMA HolderCount ==
    ASSUME NEW c
    PROVE  /\ IsFiniteSet(HoldersOf(c))
           /\ Cardinality(HoldersOf(c)) \in Nat
           /\ HoldersOf(c) # {} => Cardinality(HoldersOf(c)) >= 1
<1>1. HoldersOf(c) \subseteq Holders
  BY DEF HoldersOf
<1>2. IsFiniteSet(HoldersOf(c))
  BY <1>1, HoldersAssumption, FS_Subset
<1>3. Cardinality(HoldersOf(c)) \in Nat
  BY <1>2, FS_CardinalityType
<1>4. HoldersOf(c) # {} => Cardinality(HoldersOf(c)) # 0
  BY <1>2, FS_EmptySet
<1> QED BY <1>2, <1>3, <1>4

LEMMA OneHolderLess ==
    ASSUME NEW T, IsFiniteSet(T), NEW h \in T
    PROVE  /\ Cardinality(T \ {h}) = Cardinality(T) - 1
           /\ T \ {h} # {} => Cardinality(T) >= 2
           /\ Cardinality(T) \in Nat
<1>1. IsFiniteSet(T \ {h}) /\ Cardinality(T \ {h}) = Cardinality(T) - 1
  BY FS_RemoveElement
<1>2. Cardinality(T) \in Nat /\ Cardinality(T \ {h}) \in Nat
  BY <1>1, FS_CardinalityType
<1>3. T \ {h} # {} => Cardinality(T \ {h}) # 0
  BY <1>1, FS_EmptySet
<1> QED BY <1>1, <1>2, <1>3

LEMMA OneHolderMore ==
    ASSUME NEW T, IsFiniteSet(T), NEW h
    PROVE  /\ IsFiniteSet(T \cup {h})
           /\ Cardinality(T \cup {h}) \in Nat /\ Cardinality(T) \in Nat
           /\ Cardinality(T \cup {h}) <= Cardinality(T) + 1
           /\ Cardinality(T \cup {h}) >= 1
<1>1. IsFiniteSet(T \cup {h})
      /\ Cardinality(T \cup {h}) =
            IF h \in T THEN Cardinality(T) ELSE Cardinality(T) + 1
  BY FS_AddElement
<1>2. Cardinality(T \cup {h}) \in Nat /\ Cardinality(T) \in Nat
  BY <1>1, FS_CardinalityType
<1>3. Cardinality(T \cup {h}) # 0
  BY <1>1, FS_EmptySet
<1> QED BY <1>1, <1>2, <1>3

-----------------------------------------------------------------------------
(* What lowering a root leaves: the count of a cell drops by one at most, only
   inside the tree, and a cell goes only when its count was one. *)
LEMMA LowerCounts ==
    ASSUME NEW n \in [Cells -> NotStored .. MaxRefs], NEW r \in Cells, NEW P,
           CanLower(n, r)
    PROVE  /\ Lower(n, r, P) \in [Cells -> NotStored .. MaxRefs]
           /\ \A c \in Cells :
                 \/ Lower(n, r, P)[c] = n[c]
                 \/ c \in Tree[r] /\ n[c] > 1 /\ Lower(n, r, P)[c] = n[c] - 1
                 \/ c \in Tree[r] /\ n[c] = 1
<1>1. \A c \in Falling(n, r) : c \in Tree[r] /\ n[c] >= 1 /\ c \in Cells
  BY FallingInTree DEF CanLower, Falling
<1> QED BY <1>1, MaxRefsAssumption DEF Lower, NotStored

(* What putting cells and raising a root leaves. *)
LEMMA RaiseCounts ==
    ASSUME NEW n \in [Cells -> NotStored .. MaxRefs], NEW r \in Cells,
           CanRaise(n, r)
    PROVE  /\ Raise(n, r) \in [Cells -> NotStored .. MaxRefs]
           /\ \A c \in Cells : Raise(n, r)[c] = IF c \in Tree[r] THEN n[c] + 1 ELSE n[c]
           /\ \A c \in Tree[r] : n[c] >= 0
  BY MaxRefsAssumption, TreeType DEF Raise, CanRaise, NotStored

LEMMA PutCounts ==
    ASSUME NEW n \in [Cells -> NotStored .. MaxRefs], NEW S
    PROVE  /\ PutCells(n, S) \in [Cells -> NotStored .. MaxRefs]
           /\ \A c \in Cells : PutCells(n, S)[c] >= n[c]
  BY MaxRefsAssumption DEF PutCells, NotStored

(* Every step preserves the invariant. *)
LEMMA StepInvariant == CellInv /\ [CellNext]_cellVars => CellInv'
<1> SUFFICES ASSUME CellInv, [CellNext]_cellVars PROVE CellInv'
  OBVIOUS
<1>0. /\ refs \in [Cells -> NotStored .. MaxRefs]
      /\ held \in [Holders -> Cells \cup {None}]
      /\ \A c \in Cells : HoldersOf(c) # {} => refs[c] >= Cardinality(HoldersOf(c))
  BY DEF CellInv, CellTypeOK, CountsCoverHolders
<1>1. ASSUME NEW S \in SUBSET Cells, PutBoc(S) PROVE CellInv'
  <2>1. /\ refs' \in [Cells -> NotStored .. MaxRefs] /\ held' = held
        /\ \A c \in Cells : refs'[c] >= refs[c]
    BY <1>0, <1>1, PutCounts DEF PutBoc
  <2>2. \A c \in Cells : HoldersOf(c)' = HoldersOf(c)
    BY <2>1 DEF HoldersOf
  <2>3. CellTypeOK'
    BY <1>0, <2>1 DEF CellTypeOK
  <2>4. CountsCoverHolders'
    <3> SUFFICES ASSUME NEW c \in Cells, HoldersOf(c)' # {}
                 PROVE  refs'[c] >= Cardinality(HoldersOf(c)')
      BY DEF CountsCoverHolders
    <3>1. refs'[c] \in Int /\ refs[c] \in Int
      BY <1>0, <2>1 DEF NotStored
    <3> QED BY <1>0, <2>1, <2>2, <3>1, HolderCount
  <2> QED BY <2>3, <2>4 DEF CellInv
<1>2. ASSUME NEW h \in Retainers, NEW r \in Cells, Retain(h, r) PROVE CellInv'
  <2>1. /\ refs' \in [Cells -> NotStored .. MaxRefs]
        /\ \A c \in Cells : refs'[c] = IF c \in Tree[r] THEN refs[c] + 1 ELSE refs[c]
        /\ \A c \in Tree[r] : refs[c] >= 0
    BY <1>0, <1>2, RaiseCounts DEF Retain
  <2>2. h \in Holders /\ held' = [held EXCEPT ![h] = r] /\ held[h] = None
    BY <1>2 DEF Retain, Holders
  <2>3. CellTypeOK'
    BY <1>0, <2>1, <2>2 DEF CellTypeOK
  <2>4. CountsCoverHolders'
    <3> SUFFICES ASSUME NEW c \in Cells, HoldersOf(c)' # {}
                 PROVE  refs'[c] >= Cardinality(HoldersOf(c)')
      BY DEF CountsCoverHolders
    <3>1. refs'[c] \in Int /\ refs[c] \in Int
      BY <1>0, <2>1 DEF NotStored
    <3>2. CASE c \in Tree[r]
      <4>1. HoldersOf(c)' = HoldersOf(c) \cup {h}
        BY <1>0, <2>2, <3>2, NoneAssumption DEF HoldersOf
      <4>2. Cardinality(HoldersOf(c)') <= Cardinality(HoldersOf(c)) + 1
            /\ Cardinality(HoldersOf(c)') \in Nat
        BY <4>1, HolderCount, OneHolderMore
      <4>3. refs[c] >= Cardinality(HoldersOf(c))
        <5>1. CASE HoldersOf(c) = {}
          BY <5>1, <2>1, <3>2, FS_EmptySet
        <5> QED BY <5>1, <1>0
      <4> QED BY <2>1, <3>1, <3>2, <4>2, <4>3, HolderCount
    <3>3. CASE c \notin Tree[r]
      <4>1. HoldersOf(c)' = HoldersOf(c)
        BY <1>0, <2>2, <3>3 DEF HoldersOf
      <4> QED BY <1>0, <2>1, <3>3, <4>1
    <3> QED BY <3>2, <3>3
  <2> QED BY <2>3, <2>4 DEF CellInv
<1>3. ASSUME NEW h \in Retainers, Release(h) PROVE CellInv'
  <2>1. /\ h \in Holders /\ held[h] \in Cells /\ CanLower(refs, held[h])
        /\ held' = [held EXCEPT ![h] = None]
        /\ refs' = Lower(refs, held[h], {})
    BY <1>0, <1>3 DEF Release, Holders
  <2>2. /\ refs' \in [Cells -> NotStored .. MaxRefs]
        /\ \A c \in Cells :
              \/ refs'[c] = refs[c]
              \/ c \in Tree[held[h]] /\ refs[c] > 1 /\ refs'[c] = refs[c] - 1
              \/ c \in Tree[held[h]] /\ refs[c] = 1
    BY <1>0, <2>1, LowerCounts
  <2>3. CellTypeOK'
    BY <1>0, <2>1, <2>2 DEF CellTypeOK
  <2>4. CountsCoverHolders'
    <3> SUFFICES ASSUME NEW c \in Cells, HoldersOf(c)' # {}
                 PROVE  refs'[c] >= Cardinality(HoldersOf(c)')
      BY DEF CountsCoverHolders
    <3>1. refs'[c] \in Int /\ refs[c] \in Int
      BY <1>0, <2>2 DEF NotStored
    <3>2. CASE c \in Tree[held[h]]
      <4>1. h \in HoldersOf(c) /\ HoldersOf(c)' = HoldersOf(c) \ {h}
        BY <1>0, <2>1, <3>2, NoneAssumption DEF HoldersOf
      <4>2. /\ Cardinality(HoldersOf(c)') = Cardinality(HoldersOf(c)) - 1
            /\ Cardinality(HoldersOf(c)) >= 2 /\ Cardinality(HoldersOf(c)) \in Nat
        BY <4>1, HolderCount, OneHolderLess
      <4> QED BY <1>0, <2>2, <3>1, <4>1, <4>2
    <3>3. CASE c \notin Tree[held[h]]
      <4>1. HoldersOf(c)' = HoldersOf(c)
        BY <1>0, <2>1, <3>3 DEF HoldersOf
      <4> QED BY <1>0, <2>2, <3>3, <4>1
    <3> QED BY <3>2, <3>3
  <2> QED BY <2>3, <2>4 DEF CellInv
<1>4. ASSUME NEW s \in Shards, NEW r \in Cells, NEW S \in SUBSET Cells,
             CommitBlock(s, r, S)
      PROVE  CellInv'
  <2> DEFINE base == Staged(r, S)
             up   == Raise(base, r)
             old  == held[s]
             P    == {c \in Cells : up[c] # refs[c]}
  <2>1. /\ s \in Holders /\ held' = [held EXCEPT ![s] = r] /\ CanRaise(base, r)
        /\ old # None => CanLower(up, old)
        /\ refs' = IF old = None THEN up ELSE Lower(up, old, P)
    BY <1>4 DEF CommitBlock, Holders
  <2>2. /\ base \in [Cells -> NotStored .. MaxRefs]
        /\ \A c \in Cells : base[c] >= refs[c]
    BY <1>0, PutCounts DEF Staged
  <2>3. /\ up \in [Cells -> NotStored .. MaxRefs]
        /\ \A c \in Cells : up[c] = IF c \in Tree[r] THEN base[c] + 1 ELSE base[c]
        /\ \A c \in Tree[r] : base[c] >= 0
    <3> HIDE DEF base
    <3> QED BY <2>1, <2>2, RaiseCounts
  <2> HIDE DEF base, up, P
  <2>4. /\ refs' \in [Cells -> NotStored .. MaxRefs]
        /\ \A c \in Cells :
              \/ refs'[c] = up[c]
              \/ old # None /\ c \in Tree[old] /\ up[c] > 1 /\ refs'[c] = up[c] - 1
              \/ old # None /\ c \in Tree[old] /\ up[c] = 1
    <3>1. CASE old = None
      BY <3>1, <2>1, <2>3
    <3>2. CASE old # None
      <4>1. old \in Cells
        BY <3>2, <1>0, <2>1
      <4> QED BY <3>2, <4>1, <2>1, <2>3, LowerCounts
    <3> QED BY <3>1, <3>2
  <2>5. CellTypeOK'
    BY <1>0, <2>1, <2>4 DEF CellTypeOK
  <2>6. CountsCoverHolders'
    <3> SUFFICES ASSUME NEW c \in Cells, HoldersOf(c)' # {}
                 PROVE  refs'[c] >= Cardinality(HoldersOf(c)')
      BY DEF CountsCoverHolders
    <3>1. refs'[c] \in Int /\ refs[c] \in Int /\ up[c] \in Int /\ base[c] \in Int
      BY <1>0, <2>2, <2>3, <2>4 DEF NotStored
    <3> DEFINE rest == HoldersOf(c) \ {s}
    <3>2. HoldersOf(c)' = IF c \in Tree[r] THEN rest \cup {s} ELSE rest
      BY <1>0, <2>1, NoneAssumption DEF HoldersOf
    <3>3. IsFiniteSet(rest) /\ Cardinality(rest) \in Nat
      BY HolderCount, FS_Subset, FS_CardinalityType
    \* Without its shard the cell has at most as many holders as it counts.
    <3>4. base[c] >= Cardinality(rest) \/ (base[c] < 0 /\ rest = {})
      <4>1. CASE HoldersOf(c) = {}
        BY <4>1, <3>1, FS_EmptySet
      <4>2. CASE HoldersOf(c) # {}
        <5>1. base[c] >= Cardinality(HoldersOf(c))
          BY <4>2, <1>0, <2>2, <3>1, HolderCount
        <5>2. Cardinality(rest) <= Cardinality(HoldersOf(c))
          BY HolderCount, FS_Subset
        <5> QED BY <5>1, <5>2, <3>1, <3>3, HolderCount
      <4> QED BY <4>1, <4>2
    <3>5. ASSUME old # None, c \in Tree[old]
          PROVE  base[c] >= Cardinality(rest) + 1
      <4>1. s \in HoldersOf(c)
        BY <3>5, <2>1 DEF HoldersOf
      <4>2. /\ Cardinality(rest) = Cardinality(HoldersOf(c)) - 1
            /\ Cardinality(HoldersOf(c)) \in Nat
        BY <4>1, HolderCount, OneHolderLess
      <4> QED BY <4>1, <4>2, <1>0, <2>2, <3>1
    <3>6. CASE c \in Tree[r]
      <4>1. /\ Cardinality(HoldersOf(c)') <= Cardinality(rest) + 1
            /\ Cardinality(HoldersOf(c)') \in Nat
        BY <3>2, <3>3, <3>6, OneHolderMore
      <4>2. up[c] = base[c] + 1 /\ base[c] >= 0
        BY <2>3, <3>6
      <4> QED BY <4>1, <4>2, <2>4, <3>1, <3>3, <3>4, <3>5
    <3>7. CASE c \notin Tree[r]
      <4>1. HoldersOf(c)' = rest /\ up[c] = base[c] /\ rest # {}
        BY <3>2, <3>7, <2>3
      <4>2. Cardinality(rest) # 0
        BY <4>1, <3>3, FS_EmptySet
      <4> HIDE DEF rest
      <4> QED BY <4>1, <4>2, <2>4, <3>1, <3>3, <3>4, <3>5
    <3> QED BY <3>6, <3>7
  <2> QED BY <2>5, <2>6 DEF CellInv
<1>5. CASE UNCHANGED cellVars
  BY <1>5 DEF cellVars, CellInv, CellTypeOK, CountsCoverHolders, HoldersOf
<1> QED BY <1>1, <1>2, <1>3, <1>4, <1>5 DEF CellNext

(* Counts cover holders in every reachable state. *)
THEOREM InvariantHolds == CellSpec => []CellInv
<1>1. CellInit => CellInv
  <2> SUFFICES ASSUME CellInit PROVE CellInv
    OBVIOUS
  <2>1. CellTypeOK
    BY MaxRefsAssumption DEF CellInit, CellTypeOK, NotStored
  <2>2. \A c \in Cells : HoldersOf(c) = {}
    BY DEF CellInit, HoldersOf
  <2> QED BY <2>1, <2>2 DEF CellInv, CountsCoverHolders
<1> QED BY <1>1, StepInvariant, PTL DEF CellSpec

(* A cell in a held tree has a holder, so its count is positive. *)
LEMMA HeldCellsCounted ==
    ASSUME CellInv, NEW h \in Holders, held[h] # None, NEW c \in Tree[held[h]]
    PROVE  refs[c] >= 1 /\ refs[c] \in Int
<1>1. held[h] \in Cells
  BY DEF CellInv, CellTypeOK
<1>2. c \in Cells
  BY <1>1, TreeType
<1>3. h \in HoldersOf(c)
  BY DEF HoldersOf
<1>4. Cardinality(HoldersOf(c)) >= 1 /\ Cardinality(HoldersOf(c)) \in Nat
  BY <1>3, HolderCount
<1>5. refs[c] >= Cardinality(HoldersOf(c)) /\ refs[c] \in Int
  BY <1>2, <1>3 DEF CellInv, CellTypeOK, CountsCoverHolders, NotStored
<1> QED BY <1>4, <1>5

(* No cell of a held tree is ever removed from the store. *)
THEOREM HeldTreesSurvive == CellSpec => []HeldTreesStored
<1>1. CellInv => HeldTreesStored
  BY HeldCellsCounted DEF HeldTreesStored, NotStored
<1> QED BY <1>1, InvariantHolds, PTL

(* Letting go of a held root never fails. *)
THEOREM ReleasesSucceed == CellSpec => []HeldRootsCanBeReleased
<1>1. CellInv => HeldRootsCanBeReleased
  <2> SUFFICES ASSUME CellInv, NEW h \in Holders, held[h] # None,
                      NEW c \in Falling(refs, held[h])
               PROVE  refs[c] >= 1
    BY DEF HeldRootsCanBeReleased, CanLower
  <2>1. held[h] \in Cells
    BY DEF CellInv, CellTypeOK
  <2> QED BY <2>1, FallingInTree, HeldCellsCounted
<1> QED BY <1>1, InvariantHolds, PTL

(* The counts stay between zero and the largest one, and a holder keeps a   *)
(* cell or nothing, whatever adjust_cell is asked to raise or lower.        *)
THEOREM TypeCorrect == CellSpec => []CellTypeOK
<1>1. CellInv => CellTypeOK
  BY DEF CellInv
<1> QED BY <1>1, InvariantHolds, PTL
=============================================================================
