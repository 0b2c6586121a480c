--------------------------- MODULE CommitJournal ---------------------------
(***************************************************************************)
(* The commit protocol of StateStorage (onx-state-model, storage.rs):      *)
(* commit() writes the whole batch to .commit-journal, then recover()      *)
(* applies it line by line and deletes the journal; open() runs the same   *)
(* recover() over what a crash left.  The write lock keeps writers apart,  *)
(* so there is one writer; the process may die between any two calls into  *)
(* the file system.                                                        *)
(*                                                                         *)
(* JournalNext takes the journal write to be all-or-nothing and the file   *)
(* system to succeed.  FaultyNext adds what the code meets without that: a *)
(* crash in the middle of fs::write, and an I/O error, which returns early *)
(* or, from reading the journal, passes for success.                       *)
(***************************************************************************)
EXTENDS WriteBatch

CONSTANTS
    NoJournal,    \* there is no .commit-journal
    Truncated,    \* the content of a file put from a line cut in its value
    Unparsable,   \* the value of a line that recover() refuses
    MaxCrashes    \* bound on crashes

ASSUME GarbledAssumption ==
    /\ {Truncated, Unparsable} \cap Contents = {}
    /\ Truncated # Unparsable
ASSUME CrashAssumption   == MaxCrashes \in Nat
ASSUME JournalAssumption == NoJournal \notin Batches

VARIABLES
    files,     \* the files of the column families
    tmp,       \* keys whose .tmp file exists
    journal,   \* the lines of .commit-journal, or NoJournal
    mode,      \* the process is down, idle, in commit() or in open()
    at,        \* the line recover() is at
    staged,    \* the .tmp of that line is written and not yet renamed
    crashes

journalVars == <<files, tmp, journal, mode, at, staged, crashes>>

Modes     == {"down", "idle", "commit", "open"}
Replaying == mode \in {"commit", "open"}

JournalInit ==
    /\ files = [k \in Paths |-> Absent]
    /\ tmp = {}
    /\ journal = NoJournal
    /\ mode = "down" /\ at = 1 /\ staged = FALSE
    /\ crashes = 0

\* commit, up to and including the sync of the journal.  A journal that an
\* earlier commit left behind is overwritten.
WriteJournal(b) ==
    /\ mode = "idle"
    /\ journal' = b
    /\ mode' = "commit" /\ at' = 1 /\ staged' = FALSE
    /\ UNCHANGED <<files, tmp, crashes>>

\* (A slip the runs must notice: a removal that finds no file is an error.)
RemoveLineStrictly ==
    /\ Replaying /\ ~staged
    /\ at <= Len(journal) /\ journal[at].val = Absent
    /\ files' = [files EXCEPT ![journal[at].key] = Absent]
    /\ \/ files[journal[at].key] # Absent /\ at' = at + 1 /\ UNCHANGED mode
       \/ files[journal[at].key] = Absent /\ at' = 1 /\ mode' = "down"
    /\ UNCHANGED <<tmp, journal, staged, crashes>>

\* recover, a "D" line: whether the file existed does not matter.
RemoveLine ==
    /\ Replaying /\ ~staged
    /\ at <= Len(journal) /\ journal[at].val = Absent
    /\ files' = [files EXCEPT ![journal[at].key] = Absent]
    /\ at' = at + 1
    /\ UNCHANGED <<tmp, journal, mode, staged, crashes>>

\* recover, a "P" line: first the .tmp file ...
StageLine ==
    /\ Replaying /\ ~staged
    /\ at <= Len(journal) /\ journal[at].val \notin {Absent, Unparsable}
    /\ tmp' = tmp \cup {journal[at].key}
    /\ staged' = TRUE
    /\ UNCHANGED <<files, journal, mode, at, crashes>>

\* (A slip the runs must notice: the loop steps over the next line.)
RenameLineSkipping ==
    /\ Replaying /\ staged
    /\ files' = [files EXCEPT ![journal[at].key] = journal[at].val]
    /\ tmp' = tmp \ {journal[at].key}
    /\ at' = at + 2 /\ staged' = FALSE
    /\ UNCHANGED <<journal, mode, crashes>>

\* ... then the rename over the file.
RenameLine ==
    /\ Replaying /\ staged
    /\ files' = [files EXCEPT ![journal[at].key] = journal[at].val]
    /\ tmp' = tmp \ {journal[at].key}
    /\ at' = at + 1 /\ staged' = FALSE
    /\ UNCHANGED <<journal, mode, crashes>>

\* (A slip the runs must notice: the journal goes before its last line.)
FinishEarly ==
    /\ Replaying /\ ~staged
    /\ at >= Len(journal)
    /\ journal' = NoJournal
    /\ mode' = "idle" /\ at' = 1
    /\ UNCHANGED <<files, tmp, staged, crashes>>

\* recover, after the last line; commit or open returns Ok.
Finish ==
    /\ Replaying /\ ~staged
    /\ at > Len(journal)
    /\ journal' = NoJournal
    /\ mode' = "idle" /\ at' = 1
    /\ UNCHANGED <<files, tmp, staged, crashes>>

Crash ==
    /\ mode # "down" /\ crashes < MaxCrashes
    /\ crashes' = crashes + 1
    /\ mode' = "down" /\ at' = 1 /\ staged' = FALSE
    /\ UNCHANGED <<files, tmp, journal>>

\* (A slip the runs must notice: open drops what was left.)
OpenDiscarding ==
    /\ mode = "down"
    /\ mode' = "idle" /\ journal' = NoJournal
    /\ UNCHANGED <<files, tmp, at, staged, crashes>>

\* open: recover() returns at once when there is no journal.
Open ==
    /\ mode = "down"
    /\ mode' = IF journal = NoJournal THEN "idle" ELSE "open"
    /\ UNCHANGED <<files, tmp, journal, at, staged, crashes>>

Replay == RemoveLine \/ StageLine \/ RenameLine \/ Finish

JournalNext == Replay \/ Open \/ Crash \/ \E b \in Batches : WriteJournal(b)

JournalSpec == JournalInit /\ [][JournalNext]_journalVars

\* What a restarted node runs to its end: sequential code, no waiting.
RecoveryStep == Open \/ Replay

-----------------------------------------------------------------------------
\* What a crash inside fs::write leaves of the journal: some whole lines, then
\* perhaps part of one.  A put cut in its value is applied as it is; one cut in
\* its path, or in the middle of a hex digit pair, is refused, and so is a lone
\* "D".  (A removal cut in its path removes nothing, like a line not written.)
Torn(b) ==
    LET whole(n) == SubSeq(b, 1, n)
        cut(n, v) == Append(whole(n), [b[n + 1] EXCEPT !.val = v])
    IN  {whole(n) : n \in 0 .. Len(b) - 1}
        \cup {cut(n, Unparsable) : n \in 0 .. Len(b) - 1}
        \cup {cut(n, Truncated) : n \in {m \in 0 .. Len(b) - 1 : b[m + 1].val # Absent}}

TornJournal(b) ==
    /\ mode = "idle" /\ crashes < MaxCrashes
    /\ crashes' = crashes + 1
    /\ journal' \in Torn(b)
    /\ mode' = "down"
    /\ UNCHANGED <<files, tmp, at, staged>>

\* An early return with an error: of open(), there is no storage; of commit(),
\* the caller may go on.  The journal and the .tmp file stay where they are.
Abandon ==
    /\ mode' = IF mode = "open" THEN "down" ELSE "idle"
    /\ at' = 1 /\ staged' = FALSE
    /\ UNCHANGED <<files, tmp, journal, crashes>>

\* "invalid commit journal", "invalid hexadecimal storage data".
RefuseLine ==
    /\ Replaying /\ ~staged
    /\ at <= Len(journal) /\ journal[at].val = Unparsable
    /\ Abandon

\* An I/O error from the write or rename of a line, or from the removal of the
\* journal after the last one.
FailLine ==
    /\ Replaying
    /\ at <= Len(journal) => journal[at].val # Absent
    /\ Abandon

\* A journal that cannot be read as text is taken for none: recover() returns Ok
\* and leaves it there.
SkipJournal ==
    /\ Replaying /\ at = 1 /\ ~staged
    /\ mode' = "idle"
    /\ UNCHANGED <<files, tmp, journal, at, staged, crashes>>

\* A removal that fails is taken for one that found no file.
RemoveFails ==
    /\ Replaying /\ ~staged
    /\ at <= Len(journal) /\ journal[at].val = Absent
    /\ at' = at + 1
    /\ UNCHANGED <<files, tmp, journal, mode, staged, crashes>>

\* An error from the write or the sync of the journal: commit() returns, what
\* was written stays, and the caller may go on.
FailJournal(b) ==
    /\ mode = "idle"
    /\ journal' \in Torn(b) \cup {b}
    /\ UNCHANGED <<files, tmp, mode, at, staged, crashes>>

FaultyNext ==
    \/ JournalNext
    \/ RefuseLine
    \/ FailLine
    \/ RemoveFails
    \/ SkipJournal
    \/ \E b \in Batches : TornJournal(b) \/ FailJournal(b)

FaultySpec == JournalInit /\ [][FaultyNext]_journalVars

-----------------------------------------------------------------------------
JournalTypeOK ==
    /\ files \in [Paths -> Contents]
    /\ tmp \subseteq Paths
    /\ journal \in Batches \cup {NoJournal}
    /\ mode \in Modes
    /\ staged \in BOOLEAN
    /\ crashes \in 0 .. MaxCrashes
    /\ at \in Nat
    /\ Replaying => journal # NoJournal /\ at \in 1 .. Len(journal) + 1
    /\ staged => Replaying /\ at <= Len(journal) /\ journal[at].val # Absent

\* What a reader finds once recovery has run: the journal, when there is one,
\* over the files.
Recovered == IF journal = NoJournal THEN files ELSE Overlay(files, journal)

Store == INSTANCE AtomicStore WITH store <- Recovered

(* A batch is all-or-nothing across the column families: whatever the process
   died in the middle of, and however often recovery itself was cut short and
   started over, what recovery arrives at is the batches committed so far and
   no part of any other. *)
ImplementsAtomicStore == Store!Spec

(* Once no journal is left, no .tmp file is either: load_shard_state, which
   reads every name in accounts/ as hex, refuses a directory with one. *)
NoStrayTmp == journal = NoJournal => tmp = {}

(* A node that crashed comes back: recovery over any half-applied batch ends,
   removals of files that are gone already included. *)
RecoveryCompletes == mode = "down" ~> mode = "idle"

\* The inductive strengthening: the lines already applied in this pass make no
\* difference any more, and the .tmp files that exist belong to puts ahead.
ReplayIsIdempotent ==
    Replaying => OverlayFrom(files, journal, at) = Overlay(files, journal)

StrayTmpIsJournalled ==
    tmp # {} => /\ journal # NoJournal
                /\ \A k \in tmp : \E i \in 1 .. Len(journal) :
                      /\ journal[i].key = k /\ journal[i].val # Absent
                      /\ Replaying => i >= at

IdleIsClean == mode = "idle" => journal = NoJournal

RestsAtFirstLine == ~Replaying => at = 1

JournalInv ==
    /\ JournalTypeOK
    /\ ReplayIsIdempotent
    /\ StrayTmpIsJournalled
    /\ IdleIsClean
    /\ RestsAtFirstLine
=============================================================================
