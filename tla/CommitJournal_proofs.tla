------------------------ MODULE CommitJournal_proofs ------------------------
(***************************************************************************)
(* The commit journal implements the atomic store for every set of files,  *)
(* values and batches, and any number of crashes, as long as the journal   *)
(* itself is written as a whole.  The heart is ReplayIsIdempotent: a line  *)
(* applied twice, or in a pass that is cut short and started over, leaves  *)
(* the outcome of the whole journal where it was.                          *)
(***************************************************************************)
EXTENDS CommitJournal, TLAPS, WellFoundedInduction

(* A non-empty set of line numbers has a last one. *)
LEMMA LastLineIsLast ==
    ASSUME NEW n \in Nat, NEW I \in SUBSET (1 .. n), NEW i \in I
    PROVE  LastLine(I) \in I /\ \A j \in I : j <= LastLine(I)
<1> DEFINE M == {m \in Nat : n - m \in I}
           Less == {ss \in Nat \X Nat : ss[1] < ss[2]}
<1>1. n - i \in M /\ M \subseteq Nat
  OBVIOUS
<1>2. IsWellFoundedOn(Less, Nat)
  BY NatLessThanWellFounded DEF OpToRel
<1>3. \E m \in M : \A k \in M : <<k, m>> \notin Less
  <2> HIDE DEF M, Less
  <2> QED BY <1>1, <1>2, WFMin
<1>4. PICK m \in M : \A k \in M : m <= k
  <2>1. \A k, m \in Nat : <<k, m>> \notin Less => m <= k
    OBVIOUS
  <2> HIDE DEF M, Less
  <2> QED BY <1>1, <1>3, <2>1
<1>5. \A j \in I : j <= n - m
  <2> TAKE j \in I
  <2>1. n - j \in M
    OBVIOUS
  <2> QED BY <2>1, <1>4
<1>6. n - m \in I
  BY <1>4
<1> QED BY <1>5, <1>6 DEF LastLine

(* Applying the p-th line to the files and the later lines to the result is
   applying the lines from the p-th on. *)
LEMMA OverlayStep ==
    ASSUME NEW b \in Seq(Lines), NEW p \in 1 .. Len(b),
           NEW d \in [Paths -> Contents]
    PROVE  OverlayFrom([d EXCEPT ![b[p].key] = b[p].val], b, p + 1)
               = OverlayFrom(d, b, p)
<1> DEFINE e == [d EXCEPT ![b[p].key] = b[p].val]
<1>0. b[p] \in Lines
  OBVIOUS
<1>1. b[p].key \in Paths
  BY <1>0 DEF Lines
<1>2. SUFFICES ASSUME NEW k \in Paths
      PROVE  OverlayFrom(e, b, p + 1)[k] = OverlayFrom(d, b, p)[k]
  BY DEF OverlayFrom
<1> DEFINE Now  == Touching(b, p, k)
           Rest == Touching(b, p + 1, k)
<1>3. /\ Now \subseteq 1 .. Len(b) /\ Rest \subseteq 1 .. Len(b)
      /\ b[p].key # k => Now = Rest
      /\ b[p].key = k => Now = Rest \cup {p}
      /\ \A j \in Rest : j > p
  BY DEF Touching
<1> HIDE DEF Now, Rest
<1>4. CASE b[p].key # k
  <2>1. e[k] = d[k]
    BY <1>1, <1>4
  <2>2. Now = Rest
    BY <1>3, <1>4
  <2> QED BY <2>1, <2>2 DEF OverlayFrom, Now, Rest
<1>5. CASE b[p].key = k /\ Rest = {}
  <2>1. e[k] = b[p].val
    BY <1>1, <1>5
  <2>2. Now = {p}
    BY <1>3, <1>5
  <2>3. LastLine({p}) = p
    BY DEF LastLine
  <2> QED BY <2>1, <2>2, <2>3, <1>5 DEF OverlayFrom, Now, Rest
<1>6. CASE b[p].key = k /\ Rest # {}
  <2>0. Len(b) \in Nat
    OBVIOUS
  <2>1. Now = Rest \cup {p} /\ Now # {}
    BY <1>3, <1>6
  <2>2. LastLine(Rest) \in Rest /\ \A j \in Rest : j <= LastLine(Rest)
    BY <2>0, <1>3, <1>6, LastLineIsLast
  <2>3. LastLine(Now) \in Now /\ \A j \in Now : j <= LastLine(Now)
    BY <2>0, <2>1, <1>3, LastLineIsLast
  <2>4. LastLine(Now) = LastLine(Rest)
    <3>1. /\ LastLine(Rest) \in Int /\ LastLine(Now) \in Int
          /\ LastLine(Rest) > p /\ LastLine(Rest) <= LastLine(Now)
      <4>1. LastLine(Rest) \in 1 .. Len(b) /\ LastLine(Now) \in 1 .. Len(b)
        BY <2>2, <2>3, <1>3
      <4>2. LastLine(Rest) \in Now
        BY <2>1, <2>2
      <4> QED BY <4>1, <4>2, <2>2, <2>3, <1>3
    <3>2. LastLine(Now) \in Rest
      BY <3>1, <2>1, <2>3
    <3>3. LastLine(Now) <= LastLine(Rest)
      BY <3>2, <2>2
    <3> QED BY <3>1, <3>3
  <2> QED BY <2>1, <2>4, <1>6 DEF OverlayFrom, Now, Rest
<1> QED BY <1>4, <1>5, <1>6

(* Past the last line nothing is left to apply. *)
LEMMA OverlayEnd ==
    ASSUME NEW b \in Seq(Lines), NEW d \in [Paths -> Contents]
    PROVE  OverlayFrom(d, b, Len(b) + 1) = d
<1>1. \A k \in Paths : Touching(b, Len(b) + 1, k) = {}
  BY DEF Touching
<1> QED BY <1>1 DEF OverlayFrom

(* A journal decides every file it touches, whatever that file holds. *)
LEMMA OverlayAbsorbs ==
    ASSUME NEW b \in Seq(Lines), NEW p \in 1 .. Len(b),
           NEW d \in [Paths -> Contents], NEW v
    PROVE  Overlay([d EXCEPT ![b[p].key] = v], b) = Overlay(d, b)
<1> DEFINE e == [d EXCEPT ![b[p].key] = v]
<1>1. SUFFICES ASSUME NEW k \in Paths
      PROVE  OverlayFrom(e, b, 1)[k] = OverlayFrom(d, b, 1)[k]
  BY DEF Overlay, OverlayFrom
<1>2. CASE b[p].key = k
  <2>1. p \in Touching(b, 1, k)
    BY <1>2 DEF Touching
  <2> QED BY <2>1 DEF OverlayFrom
<1>3. CASE b[p].key # k
  <2>1. e[k] = d[k]
    BY <1>3
  <2> QED BY <2>1 DEF OverlayFrom
<1> QED BY <1>2, <1>3

-----------------------------------------------------------------------------
\* What the steps of a replay have to work with.
LEMMA ReplayFacts ==
    ASSUME JournalInv, Replaying
    PROVE  /\ journal \in Seq(Lines) /\ journal \in Batches /\ journal # NoJournal
           /\ at \in 1 .. Len(journal) + 1 /\ Len(journal) \in Nat
           /\ files \in [Paths -> Contents]
           /\ \A i \in 1 .. Len(journal) :
                 journal[i].key \in Paths /\ journal[i].val \in Contents
<1>1. journal \in Batches /\ journal # NoJournal
  BY DEF JournalInv, JournalTypeOK
<1>2. journal \in Seq(Lines)
  BY <1>1, BatchesAssumption
<1>3. \A i \in 1 .. Len(journal) : journal[i] \in Lines
  BY <1>2
<1>4. files \in [Paths -> Contents] /\ at \in 1 .. Len(journal) + 1
  BY DEF JournalInv, JournalTypeOK
<1>5. Len(journal) \in Nat
  BY <1>2
<1> QED BY <1>1, <1>2, <1>3, <1>4, <1>5 DEF Lines

(* A step that sets the file of the current line to the line's value, and goes
   to the next line, changes neither what recovery arrives at nor the fact
   that the lines behind are settled. *)
LEMMA LineApplied ==
    ASSUME JournalInv, Replaying, at <= Len(journal), UNCHANGED journal, at' = at + 1,
           files' = [files EXCEPT ![journal[at].key] = journal[at].val]
    PROVE  /\ Overlay(files', journal') = Overlay(files, journal)
           /\ OverlayFrom(files', journal', at') = Overlay(files', journal')
           /\ files' \in [Paths -> Contents]
<1>1. /\ journal \in Seq(Lines) /\ at \in 1 .. Len(journal)
      /\ files \in [Paths -> Contents]
      /\ journal[at].key \in Paths /\ journal[at].val \in Contents
  BY ReplayFacts
<1>2. Overlay(files', journal) = Overlay(files, journal)
  BY <1>1, OverlayAbsorbs
<1>3. OverlayFrom(files', journal, at + 1) = OverlayFrom(files, journal, at)
  BY <1>1, OverlayStep
<1>4. OverlayFrom(files, journal, at) = Overlay(files, journal)
  BY DEF JournalInv, ReplayIsIdempotent
<1> QED BY <1>1, <1>2, <1>3, <1>4

(* Every step preserves the inductive invariant. *)
LEMMA StepInvariant == JournalInv /\ [JournalNext]_journalVars => JournalInv'
<1> SUFFICES ASSUME JournalInv, [JournalNext]_journalVars PROVE JournalInv'
  OBVIOUS
<1> USE CrashAssumption, JournalAssumption
<1>1. ASSUME RemoveLine PROVE JournalInv'
  <2>1. Replaying /\ ~staged /\ at <= Len(journal) /\ journal[at].val = Absent
    BY <1>1 DEF RemoveLine
  <2>2. /\ files' \in [Paths -> Contents]
        /\ OverlayFrom(files', journal', at') = Overlay(files', journal')
    BY <1>1, <2>1, LineApplied DEF RemoveLine
  <2>3. JournalTypeOK'
    BY <1>1, <2>1, <2>2, ReplayFacts DEF RemoveLine, JournalInv, JournalTypeOK, Replaying
  <2>4. StrayTmpIsJournalled'
    BY <1>1, <2>1, ReplayFacts DEF RemoveLine, JournalInv, StrayTmpIsJournalled, Replaying
  <2> QED BY <1>1, <2>2, <2>3, <2>4
          DEF RemoveLine, JournalInv, ReplayIsIdempotent, IdleIsClean, RestsAtFirstLine,
              Replaying
<1>2. ASSUME StageLine PROVE JournalInv'
  <2>1. JournalTypeOK'
    BY <1>2, ReplayFacts DEF StageLine, JournalInv, JournalTypeOK, Replaying
  <2>2. StrayTmpIsJournalled'
    BY <1>2, ReplayFacts DEF StageLine, JournalInv, StrayTmpIsJournalled, Replaying
  <2> QED BY <1>2, <2>1, <2>2
          DEF StageLine, JournalInv, ReplayIsIdempotent, IdleIsClean, RestsAtFirstLine, Replaying
<1>3. ASSUME RenameLine PROVE JournalInv'
  <2>1. Replaying /\ staged /\ at <= Len(journal) /\ journal[at].val # Absent
    BY <1>3 DEF RenameLine, JournalInv, JournalTypeOK
  <2>2. /\ files' \in [Paths -> Contents]
        /\ OverlayFrom(files', journal', at') = Overlay(files', journal')
    BY <1>3, <2>1, LineApplied DEF RenameLine
  <2>3. JournalTypeOK'
    <3>1. at' \in 1 .. Len(journal') + 1 /\ journal' # NoJournal
      BY <1>3, <2>1, ReplayFacts DEF RenameLine
    <3>2. tmp' \subseteq Paths /\ at' \in Nat
      BY <1>3, <3>1 DEF RenameLine, JournalInv, JournalTypeOK
    <3>3. staged' = FALSE
      BY <1>3 DEF RenameLine
    <3>4. /\ journal' \in Batches \cup {NoJournal} /\ mode' \in Modes
          /\ crashes' \in 0 .. MaxCrashes
      BY <1>3 DEF RenameLine, JournalInv, JournalTypeOK
    <3> QED BY <2>2, <3>1, <3>2, <3>3, <3>4 DEF JournalTypeOK
  <2>4. StrayTmpIsJournalled'
    BY <1>3, <2>1, ReplayFacts DEF RenameLine, JournalInv, StrayTmpIsJournalled, Replaying
  <2> QED BY <1>3, <2>2, <2>3, <2>4
          DEF RenameLine, JournalInv, ReplayIsIdempotent, IdleIsClean, RestsAtFirstLine,
              Replaying
<1>4. ASSUME Finish PROVE JournalInv'
  <2>1. tmp = {}
    BY <1>4, ReplayFacts DEF Finish, JournalInv, StrayTmpIsJournalled
  <2> QED BY <1>4, <2>1 DEF Finish, JournalInv, JournalTypeOK, Modes, ReplayIsIdempotent,
                            StrayTmpIsJournalled, IdleIsClean, RestsAtFirstLine, Replaying
<1>5. ASSUME Crash PROVE JournalInv'
  <2>1. ~Replaying' /\ mode' = "down"
    BY <1>5 DEF Crash, Replaying
  <2>2. JournalTypeOK'
    <3>1. staged' = FALSE
      BY <1>5 DEF Crash
    <3>2. /\ files' \in [Paths -> Contents] /\ tmp' \subseteq Paths
          /\ journal' \in Batches \cup {NoJournal}
          /\ mode' \in Modes /\ at' \in Nat /\ crashes' \in 0 .. MaxCrashes
      BY <1>5 DEF Crash, JournalInv, JournalTypeOK, Modes
    <3> QED BY <2>1, <3>1, <3>2 DEF JournalTypeOK
  <2>3. StrayTmpIsJournalled'
    BY <1>5, <2>1 DEF Crash, JournalInv, StrayTmpIsJournalled
  <2> QED BY <1>5, <2>1, <2>2, <2>3
          DEF Crash, JournalInv, ReplayIsIdempotent, IdleIsClean, RestsAtFirstLine
<1>6. ASSUME Open PROVE JournalInv'
  <2>1. CASE journal = NoJournal
    BY <1>6, <2>1 DEF Open, JournalInv, JournalTypeOK, Modes, ReplayIsIdempotent,
                      StrayTmpIsJournalled, IdleIsClean, RestsAtFirstLine, Replaying
  <2>2. CASE journal # NoJournal
    <3>1. journal \in Seq(Lines)
      BY <2>2, BatchesAssumption DEF JournalInv, JournalTypeOK
    <3>2. at = 1
      BY <1>6 DEF Open, JournalInv, RestsAtFirstLine, Replaying
    <3> QED BY <1>6, <2>2, <3>1, <3>2 DEF Open, JournalInv, JournalTypeOK, Modes, Overlay,
              ReplayIsIdempotent, StrayTmpIsJournalled, IdleIsClean, RestsAtFirstLine, Replaying
  <2> QED BY <2>1, <2>2
<1>7. ASSUME NEW b \in Batches, WriteJournal(b) PROVE JournalInv'
  <2>1. b \in Seq(Lines)
    BY BatchesAssumption
  <2>2. tmp = {}
    BY <1>7 DEF WriteJournal, JournalInv, StrayTmpIsJournalled, IdleIsClean, RestsAtFirstLine
  <2>3. /\ Replaying' /\ journal' = b /\ at' = 1 /\ ~staged'
        /\ b # NoJournal /\ Len(b) \in Nat /\ UNCHANGED <<files, tmp, crashes>>
    BY <1>7, <2>1 DEF WriteJournal, Replaying
  <2>4. JournalTypeOK'
    <3>1. staged' = FALSE
      BY <1>7 DEF WriteJournal
    <3>2. /\ files' \in [Paths -> Contents] /\ tmp' \subseteq Paths
          /\ journal' \in Batches \cup {NoJournal}
          /\ mode' \in Modes /\ at' \in Nat /\ crashes' \in 0 .. MaxCrashes
      BY <1>7 DEF WriteJournal, JournalInv, JournalTypeOK, Modes
    <3>3. at' \in 1 .. Len(journal') + 1
      BY <2>3
    <3> QED BY <2>3, <3>1, <3>2, <3>3 DEF JournalTypeOK
  <2> QED BY <1>7, <2>2, <2>3, <2>4 DEF WriteJournal, JournalInv, Overlay,
            ReplayIsIdempotent, StrayTmpIsJournalled, IdleIsClean, RestsAtFirstLine
<1>8. CASE UNCHANGED journalVars
  BY <1>8 DEF journalVars, JournalInv, JournalTypeOK, ReplayIsIdempotent, StrayTmpIsJournalled,
              IdleIsClean, RestsAtFirstLine, Replaying
<1> QED BY <1>1, <1>2, <1>3, <1>4, <1>5, <1>6, <1>7, <1>8 DEF JournalNext, Replay

(* Initially, and after every step of JournalNext, the invariant holds. *)
THEOREM InvariantHolds == JournalSpec => []JournalInv
<1>1. JournalInit => JournalInv
  <2> SUFFICES ASSUME JournalInit PROVE JournalInv
    OBVIOUS
  <2>1. ~Replaying /\ staged = FALSE
    BY DEF JournalInit, Replaying
  <2>2. /\ files \in [Paths -> Contents] /\ tmp \subseteq Paths
        /\ journal \in Batches \cup {NoJournal}
        /\ mode \in Modes /\ at \in Nat /\ crashes \in 0 .. MaxCrashes
    BY CrashAssumption DEF JournalInit, Modes, Contents
  <2>3. JournalTypeOK
    BY <2>1, <2>2 DEF JournalTypeOK
  <2> QED BY <2>1, <2>3 DEF JournalInit, JournalInv, ReplayIsIdempotent,
              StrayTmpIsJournalled, IdleIsClean, RestsAtFirstLine
<1> QED BY <1>1, StepInvariant, PTL DEF JournalSpec

(* The journal in use is always one of the batches, and the place recovery is
   at is a line of it. *)
THEOREM TypeCorrect == JournalSpec => []JournalTypeOK
<1>1. JournalInv => JournalTypeOK
  BY DEF JournalInv
<1> QED BY <1>1, InvariantHolds, PTL

(* No .tmp file outlives the journal that put it there. *)
THEOREM TmpFilesGo == JournalSpec => []NoStrayTmp
<1>1. JournalInv => NoStrayTmp
  BY DEF JournalInv, StrayTmpIsJournalled, NoStrayTmp
<1> QED BY <1>1, InvariantHolds, PTL

(* Writing the journal is the commit point: that step is the batch taking
   effect, and every other step, crashes and restarts of recovery included,
   leaves what recovery arrives at unchanged. *)
LEMMA StepRefines == JournalInv /\ [JournalNext]_journalVars => [Store!Next]_Recovered
<1> SUFFICES ASSUME JournalInv, [JournalNext]_journalVars PROVE [Store!Next]_Recovered
  OBVIOUS
<1>1. ASSUME NEW b \in Batches, WriteJournal(b) PROVE Store!Next
  <2>1. Recovered = files
    BY <1>1 DEF WriteJournal, JournalInv, IdleIsClean, Recovered
  <2>2. Recovered' = Overlay(files, b)
    BY <1>1, JournalAssumption DEF WriteJournal, Recovered
  <2>3. Recovered' = Store!Overlay(Recovered, b)
    BY <2>1, <2>2 DEF Overlay, Store!Overlay, OverlayFrom, Store!OverlayFrom,
                      Touching, Store!Touching, LastLine, Store!LastLine
  <2> QED BY <2>3 DEF Store!Next, Store!Commit
<1>2. ASSUME RemoveLine \/ RenameLine PROVE UNCHANGED Recovered
  <2>1. /\ Replaying /\ at <= Len(journal) /\ UNCHANGED journal /\ at' = at + 1
        /\ files' = [files EXCEPT ![journal[at].key] = journal[at].val]
    BY <1>2 DEF RemoveLine, RenameLine, JournalInv, JournalTypeOK
  <2> QED BY <2>1, LineApplied, ReplayFacts DEF Recovered
<1>3. ASSUME Finish PROVE UNCHANGED Recovered
  <2>1. /\ journal \in Seq(Lines) /\ files \in [Paths -> Contents]
        /\ at = Len(journal) + 1 /\ journal # NoJournal
    BY <1>3, ReplayFacts DEF Finish
  <2>2. Overlay(files, journal) = files
    BY <1>3, <2>1, OverlayEnd DEF Finish, JournalInv, ReplayIsIdempotent
  <2> QED BY <1>3, <2>1, <2>2 DEF Finish, Recovered
<1>4. ASSUME StageLine \/ Open \/ Crash \/ UNCHANGED journalVars
      PROVE  UNCHANGED Recovered
  BY <1>4 DEF StageLine, Open, Crash, journalVars, Recovered
<1> QED BY <1>1, <1>2, <1>3, <1>4 DEF JournalNext, Replay

(* A block commitment is all-or-nothing across the column families, whatever
   the process died in the middle of. *)
THEOREM Atomicity == JournalSpec => ImplementsAtomicStore
<1>1. JournalInit => Store!Init
  BY DEF JournalInit, Store!Init, Recovered
<1> QED BY <1>1, StepRefines, InvariantHolds, PTL
        DEF JournalSpec, ImplementsAtomicStore, Store!Spec
=============================================================================
