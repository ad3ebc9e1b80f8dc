-------------------------- MODULE RegistrationDisk --------------------------
(***************************************************************************)
(* The values found under one verified output parent: directory trees at   *)
(* the output, staging and backup names, and the control files (lock and   *)
(* transaction journal).  Payload bytes are abstracted to the fingerprint  *)
(* of the manifest and to how far the tree agrees with that manifest.      *)
(***************************************************************************)
EXTENDS Naturals

CONSTANT Content   \* the distinct complete artifact sets (manifest fingerprints)

(* How a tree with a decodable manifest compares with that manifest: exact  *)
(* canonical bytes; the same manifest in another spelling, payloads equal;  *)
(* or some payload missing or changed.                                      *)
Form == {"exact", "noncanonical", "damaged"}

Absent == [kind |-> "absent"]
Empty == [kind |-> "empty"]
Unreadable == [kind |-> "unreadable"]   \* not empty, and no manifest decodes
Managed(c, form) == [kind |-> "managed", fp |-> c, form |-> form]
Complete(c) == Managed(c, "exact")

Tree == {Absent, Empty, Unreadable} \cup [kind : {"managed"}, fp : Content, form : Form]

\* What an interrupted remove_dir_all can leave of tree t.
Remains(t) ==
    CASE t = Absent     -> {}
      [] t = Empty      -> {Empty}
      [] t = Unreadable -> {Empty, Unreadable}
      [] OTHER          -> {Empty, Unreadable, Managed(t.fp, "damaged")}

(* inspect_recovery_root: the participant trees recovery can classify.      *)
Observable(t) == t \in {Absent, Empty} \/ (t.kind = "managed" /\ t.form # "damaged")

\* JournalOldRoot: what the journal keeps of the tree being replaced.
OldRoot == [kind : {"absent", "empty"}] \cup [kind : {"managed"}, fp : Content]
JournalOldRoot(t) == IF t.kind = "managed" THEN [kind |-> "managed", fp |-> t.fp] ELSE t

Phase == {"staged", "old_moved", "new_installed"}

CONSTANT MaxInvocations   \* bound: how many invocations (hence transactions) run
ASSUME MaxInvocationsAssumption == MaxInvocations \in Nat \ {0}
TxId == 1..MaxInvocations

NoFile == [kind |-> "none"]
Torn == [kind |-> "torn"]        \* created, but without its complete content
Record(tx, old, new, phase) ==
    [kind |-> "record", tx |-> tx, old |-> old, new |-> new, phase |-> phase]
JournalFile ==
    {NoFile, Torn}
      \cup [kind : {"record"}, tx : TxId, old : OldRoot, new : Content, phase : Phase]

Lock == {"none", "torn", "valid"}

\* The entries of the output parent; random identifiers keep the names apart.
Entries == [lock : Lock, journal : JournalFile, temporary : [TxId -> JournalFile],
            out : Tree, staging : [TxId -> Tree], backup : [TxId -> Tree]]

MatchesOldRoot(t, old) == Observable(t) /\ JournalOldRoot(t) = old
MatchesManifest(t, c) == Observable(t) /\ t.kind = "managed" /\ t.fp = c

(* Seeded fault: the old root is put back only in the phase that follows    *)
(* its move, so a crash between the move and the phase is not recovered.    *)
RecoveryCaseByPhase(f) ==
    LET j == f.journal
        staging == f.staging[j.tx]
        backup == f.backup[j.tx]
        stagingGoneOrNew == staging = Absent \/ MatchesManifest(staging, j.new)
    IN  IF MatchesOldRoot(f.out, j.old) /\ stagingGoneOrNew /\ backup = Absent
        THEN "keep_old"
        ELSE IF /\ f.out = Absent /\ stagingGoneOrNew /\ j.phase = "old_moved"
                /\ MatchesOldRoot(backup, j.old)
             THEN "restore_old"
        ELSE IF /\ MatchesManifest(f.out, j.new) /\ staging = Absent
                /\ MatchesOldRoot(backup, j.old) \/ backup = Absent
             THEN "keep_new"
        ELSE "ambiguous"

(* recover_prior_transaction: which recovery the observed participants      *)
(* prove, whatever phase the journal names.  The code's fourth branch       *)
(* (phase new_installed, output missing) has the guard of the second plus   *)
(* the phase, so it is never reached.                                       *)
RecoveryCase(f) ==
    LET j == f.journal
        staging == f.staging[j.tx]
        backup == f.backup[j.tx]
        stagingGoneOrNew == staging = Absent \/ MatchesManifest(staging, j.new)
    IN  IF \E t \in {f.out, staging, backup} : ~Observable(t) THEN "ambiguous"
        ELSE IF MatchesOldRoot(f.out, j.old) /\ stagingGoneOrNew /\ backup = Absent
             THEN "keep_old"
        ELSE IF /\ f.out = Absent /\ stagingGoneOrNew
                /\ MatchesOldRoot(backup, j.old) /\ j.old.kind # "absent"
             THEN "restore_old"
        ELSE IF /\ MatchesManifest(f.out, j.new) /\ staging = Absent
                /\ MatchesOldRoot(backup, j.old) \/ backup = Absent
             THEN "keep_new"
        ELSE "ambiguous"

(* The tree the output root settles to: the backup while it is the only     *)
(* copy of the replaced root, the output itself otherwise.                  *)
SettledRoot(f) ==
    IF f.journal.kind = "record" /\ f.out = Absent /\ f.journal.old.kind # "absent"
    THEN f.backup[f.journal.tx] ELSE f.out

(* The output recover_prior_transaction leaves: it renames the backup back  *)
(* when it restores, and leaves the output alone in its other branches.     *)
RecoveredRoot(f) ==
    IF RecoveryCase(f) = "restore_old" THEN f.backup[f.journal.tx] ELSE f.out
=============================================================================
