------------------------- MODULE OutputRegistration -------------------------
(***************************************************************************)
(* Durable registration of one output root                                 *)
(* (crates/intlify_cli/src/messages/registration/transaction.rs): any      *)
(* number of processes run write_output or check_output on the same        *)
(* configured root, serialized by a retained lock file and its OS advisory *)
(* lock; a write replaces the complete tree under a journal.  Every action *)
(* is one filesystem effect, so any two processes interleave between any   *)
(* two effects, any effect may fail, a process may die between any two,    *)
(* and a power loss keeps a prefix of the effects issued since the last    *)
(* successful flush of the parent directory.                               *)
(***************************************************************************)
EXTENDS RegistrationDisk, FiniteSets

CONSTANTS
    Writers,        \* processes that run write_output
    Checkers,       \* processes that run check_output
    InitialRoots,   \* the trees the output root may hold before the first run
    MaxFaults,      \* bound: how many filesystem calls fail
    MaxCrashes,     \* bound: how many times a process dies or power is lost
    TornErrors      \* a remove_dir_all of the backup that fails may have removed part

Procs == Writers \cup Checkers

ASSUME ProcsAssumption == Writers \cap Checkers = {}
ASSUME RootsAssumption == InitialRoots \subseteq Tree
ASSUME BoundsAssumption ==
    MaxFaults \in Nat /\ MaxCrashes \in Nat /\ TornErrors \in BOOLEAN

VARIABLES
    fs,           \* the entries of the output parent, as processes see them
    durable,      \* the entry states a power loss may leave
    held,         \* the processes holding the OS advisory lock
    pc, job,      \* each process: its next effect, its local variables
    outcome,      \* each process: the result it is about to return
    view,         \* each checker: the output tree it compared
    invocations, faults, crashes,   \* how much of each bound is spent
    base, entry,  \* history: SettledRoot and fs.out when the lock was taken
    prior,        \* history: the tree each transaction replaces
    acked         \* history: the last transaction was reported written

disk == <<fs, durable>>
locals == <<pc, job, outcome>>
history == <<base, entry, prior, acked>>
vars == <<disk, held, locals, view, invocations, faults, crashes, history>>

OutputState == {"unchanged", "updated", "restored", "indeterminate"}
Why == {"none", "io", "lock_invalid", "lock_appeared", "journal_invalid", "ambiguous",
        "output_invalid"}
Outcome == [status : {"none", "written", "unchanged", "compared", "error"},
            state : OutputState, why : Why]
NoOutcome == [status |-> "none", state |-> "unchanged", why |-> "none"]

(* CommitRootState, CommitControlState and RecoveryEffect, with the fixed   *)
(* inputs of the invocation: its expected set and its random transaction id.*)
Progress == {"staged", "old_moved", "new_installed", "backup_removed"}
Controls == {"none", "journal", "both"}
Effect == {"none", "restored", "updated"}
Job == [want : Content, tx : TxId, old : OldRoot, effect : Effect,
        root : Progress, ctl : Controls]
NewJob(c, n) == [want |-> c, tx |-> n, old |-> [kind |-> "absent"], effect |-> "none",
                 root |-> "staged", ctl |-> "none"]

LockPc == {"lookup", "await", "create", "created"}
CriticalPc ==
    {"read_lock", "init_lock", "lock_flush", "recover", "rc_rename", "rc_rename_flush",
     "rc_staging", "rc_staging_flush", "rc_backup", "rc_backup_flush", "rc_temporary",
     "rc_journal", "rc_flush", "inspect", "mk_staging", "fill", "staging_flush",
     "unstage", "unstage_flush", "journal_create", "journal_write", "journal_flush",
     "move_old", "move_old_flush", "old_temporary", "old_replace", "old_flush",
     "install", "install_flush", "new_temporary", "new_replace", "new_flush",
     "drop_backup", "dropping_backup", "drop_backup_flush", "drop_journal",
     "drop_journal_flush", "rb_uninstall", "rb_uninstall_flush", "rb_restore",
     "rb_restore_flush", "rb_staging", "rb_temporary", "rb_journal", "rb_flush"}
CheckPc == {"ck_lookup", "ck_await", "ck_read", "ck_scan", "ck_verify"}
Pc == {"idle", "ret"} \cup LockPc \cup CriticalPc \cup CheckPc

-----------------------------------------------------------------------------
(* Effects and control transfers shared by the steps below.                 *)

At(p, l) == pc[p] = l
Goto(p, l) == pc' = [pc EXCEPT ![p] = l] /\ UNCHANGED <<job, outcome>>
Finish(p, status, state, why) ==
    /\ pc' = [pc EXCEPT ![p] = "ret"]
    /\ outcome' = [outcome EXCEPT ![p] = [status |-> status, state |-> state, why |-> why]]
    /\ UNCHANGED job

Mutate(f) == fs' = f /\ durable' = durable \cup {f}
SyncParent == durable' = {fs} /\ UNCHANGED fs
NoFault == UNCHANGED faults
Fault == faults < MaxFaults /\ faults' = faults + 1

\* A filesystem call fails without effect, and the invocation reports state.
FailsWith(p, state) == Fault /\ UNCHANGED disk /\ Finish(p, "error", state, "io")

\* sync_directory_at: the parent is flushed, or the call fails.
Flush(p, from, to, state) ==
    /\ At(p, from)
    /\ \/ SyncParent /\ NoFault /\ Goto(p, to)
       \/ FailsWith(p, state)

\* RecoveryEffect::output_state.
EffectState(p) == IF job[p].effect = "none" THEN "unchanged" ELSE job[p].effect

-----------------------------------------------------------------------------
(* Invocation, lock file and advisory lock.                                 *)

\* A process is started on an expected artifact set, with a fresh random id.
Start(p) ==
    /\ At(p, "idle")
    /\ invocations < MaxInvocations
    /\ invocations' = invocations + 1
    /\ \E c \in Content : job' = [job EXCEPT ![p] = NewJob(c, invocations')]
    /\ pc' = [pc EXCEPT ![p] = IF p \in Writers THEN "lookup" ELSE "ck_lookup"]
    /\ outcome' = [outcome EXCEPT ![p] = NoOutcome]
    /\ UNCHANGED <<disk, held, view, faults, crashes, history>>

\* Seeded fault: the writer's lock excludes writers only, not readers.
ExclusiveOfWriters(p) == held \cap Writers = {} /\ held' = held \cup {p}

Exclusive(p) == held = {} /\ held' = {p}
Shared(p) == held \cap Writers = {} /\ held' = held \cup {p}

\* The lock protects the root from here on: what it holds now, for the record.
RememberRoot(p) ==
    /\ base' = [base EXCEPT ![p] = SettledRoot(fs)]
    /\ entry' = [entry EXCEPT ![p] = fs.out]
    /\ UNCHANGED <<prior, acked>>

\* Seeded fault: a lock file that is not initialized counts as missing.
LookupValidLock(w) ==
    /\ At(w, "lookup")
    /\ Goto(w, IF fs.lock = "valid" THEN "await" ELSE "create")
    /\ NoFault /\ UNCHANGED <<disk, held, history>>

\* acquire_write_lock: one turn of the loop looks for the retained lock file.
LookupLock(w) ==
    /\ At(w, "lookup")
    /\ Goto(w, IF fs.lock = "none" THEN "create" ELSE "await")
    /\ NoFault /\ UNCHANGED <<disk, held, history>>

\* acquire_existing_lock: the opened file is locked, blocking, before it is read.
AwaitLock(w) ==
    /\ At(w, "await")
    /\ Exclusive(w) /\ RememberRoot(w)
    /\ Goto(w, "read_lock")
    /\ NoFault /\ UNCHANGED disk

ReadLock(w) ==
    /\ At(w, "read_lock")
    /\ IF fs.lock = "valid" THEN Goto(w, "recover")
       ELSE Finish(w, "error", "unchanged", "lock_invalid")
    /\ NoFault /\ UNCHANGED <<disk, held, history>>

\* create_and_initialize_lock: create_new, or the race lost to another creator.
CreateLock(w) ==
    /\ At(w, "create")
    /\ \/ /\ fs.lock = "none"
          /\ Mutate([fs EXCEPT !.lock = "torn"])
          /\ Goto(w, "created") /\ NoFault
       \/ fs.lock # "none" /\ Goto(w, "lookup") /\ NoFault /\ UNCHANGED disk
       \/ FailsWith(w, "unchanged")
    /\ UNCHANGED <<held, history>>

\* ... then the advisory lock on the file just created, blocking.
LockCreated(w) ==
    /\ At(w, "created")
    /\ Exclusive(w) /\ RememberRoot(w)
    /\ Goto(w, "init_lock")
    /\ NoFault /\ UNCHANGED disk

\* ... then the record is written and flushed; a failure leaves the file as is.
InitializeLock(w) ==
    /\ At(w, "init_lock")
    /\ \/ LET written(f) == [f EXCEPT !.lock = IF @ = "torn" THEN "valid" ELSE @]
          IN  /\ fs' = [fs EXCEPT !.lock = "valid"]
              /\ durable' = {written(f) : f \in durable} \cup {fs'}
              /\ Goto(w, "lock_flush") /\ NoFault
       \/ FailsWith(w, "unchanged")
       \/ /\ Mutate([fs EXCEPT !.lock = "valid"])
          /\ Fault /\ Finish(w, "error", "unchanged", "io")
    /\ UNCHANGED <<held, history>>

FlushLock(w) == Flush(w, "lock_flush", "recover", "unchanged") /\ UNCHANGED <<held, history>>

-----------------------------------------------------------------------------
(* recover_prior_transaction, under the exclusive lock.                     *)

RecoverEntry == [keep_old |-> "rc_staging", restore_old |-> "rc_rename",
                 keep_new |-> "rc_backup"]
RecoverEffect == [keep_old |-> "restored", restore_old |-> "restored",
                  keep_new |-> "updated"]

\* read_journal, the three observations and the choice they prove.
RecoverPriorTransaction(w) ==
    /\ At(w, "recover")
    /\ \/ fs.journal = NoFile /\ Goto(w, "inspect")
       \/ fs.journal = Torn /\ Finish(w, "error", "unchanged", "journal_invalid")
       \/ /\ fs.journal.kind = "record"
          /\ IF RecoveryCase(fs) = "ambiguous"
             THEN Finish(w, "error", "unchanged", "ambiguous")
             ELSE /\ pc' = [pc EXCEPT ![w] = RecoverEntry[RecoveryCase(fs)]]
                  /\ job' = [job EXCEPT ![w].effect = RecoverEffect[RecoveryCase(fs)]]
                  /\ UNCHANGED outcome
    /\ NoFault /\ UNCHANGED <<disk, held, history>>

\* recovery_rename: backup back to the output, then both directories flushed.
RecoveryRename(w) ==
    /\ At(w, "rc_rename")
    /\ \/ /\ LET tx == fs.journal.tx
             IN  Mutate([fs EXCEPT !.out = fs.backup[tx], !.backup[tx] = Absent])
          /\ Goto(w, "rc_rename_flush") /\ NoFault
       \/ FailsWith(w, "indeterminate")
    /\ UNCHANGED <<held, history>>

RecoveryRenameFlush(w) ==
    Flush(w, "rc_rename_flush", "rc_staging", "indeterminate") /\ UNCHANGED <<held, history>>

\* remove_dir_all, entry by entry: part of the tree goes, or the rest of it.
Unlink(p, partial, gone, to) ==
    /\ \/ \E f \in partial : Mutate(f) /\ Goto(p, pc[p])
       \/ Mutate(gone) /\ Goto(p, to)
    /\ NoFault

UnlinkStaging(p, tx, to) ==
    LET with(t) == [fs EXCEPT !.staging[tx] = t]
    IN  /\ fs.staging[tx] # Absent
        /\ Unlink(p, {with(t) : t \in Remains(fs.staging[tx]) \ {fs.staging[tx]}}, with(Absent), to)

UnlinkBackup(p, tx, to) ==
    LET with(t) == [fs EXCEPT !.backup[tx] = t]
    IN  /\ fs.backup[tx] # Absent
        /\ Unlink(p, {with(t) : t \in Remains(fs.backup[tx]) \ {fs.backup[tx]}}, with(Absent), to)

\* A name that is already missing is passed over.
Skip(p, to) == Goto(p, to) /\ NoFault /\ UNCHANGED disk

\* remove_recovery_directory(staging), when the staged tree is there.
RecoveryStaging(w) ==
    LET tx == fs.journal.tx
    IN  /\ At(w, "rc_staging")
        /\ \/ fs.staging[tx] = Absent /\ Skip(w, "rc_temporary")
           \/ UnlinkStaging(w, tx, "rc_staging_flush")
           \/ fs.staging[tx] # Absent /\ FailsWith(w, EffectState(w))
        /\ UNCHANGED <<held, history>>

RecoveryStagingFlush(w) ==
    Flush(w, "rc_staging_flush", "rc_temporary", EffectState(w)) /\ UNCHANGED <<held, history>>

\* remove_recovery_directory(backup), when the new root is kept.
RecoveryBackup(w) ==
    LET tx == fs.journal.tx
    IN  /\ At(w, "rc_backup")
        /\ \/ fs.backup[tx] = Absent /\ Skip(w, "rc_temporary")
           \/ UnlinkBackup(w, tx, "rc_backup_flush")
           \/ fs.backup[tx] # Absent /\ FailsWith(w, EffectState(w))
        /\ UNCHANGED <<held, history>>

RecoveryBackupFlush(w) ==
    Flush(w, "rc_backup_flush", "rc_temporary", EffectState(w)) /\ UNCHANGED <<held, history>>

\* remove_journal_controls: the temporary the journal's transaction may have left,
RecoveryTemporary(w) ==
    /\ At(w, "rc_temporary")
    /\ \/ /\ Mutate([fs EXCEPT !.temporary[fs.journal.tx] = NoFile])
          /\ Goto(w, "rc_journal") /\ NoFault
       \/ fs.temporary[fs.journal.tx] # NoFile /\ FailsWith(w, EffectState(w))
    /\ UNCHANGED <<held, history>>

\* then the journal,
RecoveryJournal(w) ==
    /\ At(w, "rc_journal")
    /\ \/ Mutate([fs EXCEPT !.journal = NoFile]) /\ Goto(w, "rc_flush") /\ NoFault
       \/ FailsWith(w, EffectState(w))
    /\ UNCHANGED <<held, history>>

\* then the parent is flushed.
RecoveryFlush(w) ==
    Flush(w, "rc_flush", "inspect", EffectState(w)) /\ UNCHANGED <<held, history>>

-----------------------------------------------------------------------------
(* inspect_named_output, then construct_staging.                            *)

\* The staged tree is about to replace what is at the output now.
ReplaceOutput(w) ==
    /\ job' = [job EXCEPT ![w].old = JournalOldRoot(fs.out)]
    /\ pc' = [pc EXCEPT ![w] = "mk_staging"]
    /\ prior' = [prior EXCEPT ![job[w].tx] = fs.out]
    /\ UNCHANGED outcome

\* Seeded fault: a root no manifest decodes from is replaced, not refused.
InspectAnyOutput(w) ==
    /\ At(w, "inspect")
    /\ \/ /\ fs.out = Complete(job[w].want)
          /\ Finish(w, "unchanged", EffectState(w), "none") /\ UNCHANGED prior
       \/ fs.out # Complete(job[w].want) /\ ReplaceOutput(w)
    /\ NoFault /\ UNCHANGED <<disk, held, base, entry, acked>>

\* Seeded fault: the root is up to date when its manifest fingerprint is.
InspectFingerprint(w) ==
    /\ At(w, "inspect")
    /\ \/ /\ fs.out = Unreadable
          /\ Finish(w, "error", EffectState(w), "output_invalid") /\ UNCHANGED prior
       \/ /\ MatchesManifest(fs.out, job[w].want)
          /\ Finish(w, "unchanged", EffectState(w), "none") /\ UNCHANGED prior
       \/ fs.out # Unreadable /\ ~MatchesManifest(fs.out, job[w].want) /\ ReplaceOutput(w)
    /\ NoFault /\ UNCHANGED <<disk, held, base, entry, acked>>

\* The configured root is compared; an exact match needs no transaction.
InspectOutput(w) ==
    /\ At(w, "inspect")
    /\ \/ /\ fs.out = Unreadable
          /\ Finish(w, "error", EffectState(w), "output_invalid") /\ UNCHANGED prior
       \/ /\ fs.out = Complete(job[w].want)
          /\ Finish(w, "unchanged", EffectState(w), "none") /\ UNCHANGED prior
       \/ /\ fs.out \notin {Unreadable, Complete(job[w].want)}
          /\ ReplaceOutput(w)
    /\ NoFault /\ UNCHANGED <<disk, held, base, entry, acked>>

MakeStaging(w) ==
    /\ At(w, "mk_staging")
    /\ \/ /\ Mutate([fs EXCEPT !.staging[job[w].tx] = Empty])
          /\ Goto(w, "fill") /\ NoFault
       \/ FailsWith(w, EffectState(w))
    /\ UNCHANGED <<held, history>>

\* A failure once the staging directory is owned: clean it up, then report.
StagingFails(w) == Fault /\ Goto(w, "unstage") /\ UNCHANGED disk

\* The artifacts are written first and the manifest last.
FillStaging(w) ==
    LET tx == job[w].tx
    IN  /\ At(w, "fill")
        /\ \/ /\ fs.staging[tx] = Empty
              /\ Mutate([fs EXCEPT !.staging[tx] = Unreadable])
              /\ Goto(w, "fill") /\ NoFault
           \/ /\ fs.staging[tx] = Unreadable
              /\ Mutate([fs EXCEPT !.staging[tx] = Complete(job[w].want)])
              /\ Goto(w, "staging_flush") /\ NoFault
           \/ StagingFails(w)
        /\ UNCHANGED <<held, history>>

FlushStaging(w) ==
    /\ At(w, "staging_flush")
    /\ \/ SyncParent /\ NoFault /\ Goto(w, "journal_create")
       \/ StagingFails(w)
    /\ UNCHANGED <<held, history>>

\* cleanup_failed_staging: whether or not it succeeds, the target has failed.
CleanupFailedStaging(w) ==
    /\ At(w, "unstage")
    /\ \/ UnlinkStaging(w, job[w].tx, "unstage_flush")
       \/ FailsWith(w, EffectState(w))
    /\ UNCHANGED <<held, history>>

CleanupFailedStagingFlush(w) ==
    /\ At(w, "unstage_flush")
    /\ \/ SyncParent /\ NoFault /\ Finish(w, "error", EffectState(w), "io")
       \/ FailsWith(w, EffectState(w))
    /\ UNCHANGED <<held, history>>

-----------------------------------------------------------------------------
(* commit_staging.  A failing step hands its progress to the rollback.      *)

\* Seeded fault: once the old root is out of the way the write is reported done.
RollbackClaimsUpdate(w, j) ==
    /\ job' = [job EXCEPT ![w] = j]
    /\ IF j.root # "staged"
       THEN /\ pc' = [pc EXCEPT ![w] = "ret"]
            /\ outcome' = [outcome EXCEPT ![w] =
                             [status |-> "error", state |-> "updated", why |-> "io"]]
       ELSE pc' = [pc EXCEPT ![w] = "rb_staging"] /\ UNCHANGED outcome

\* rollback_after_commit: where undoing progress j begins.
RollbackAfterCommit(w, j) ==
    /\ job' = [job EXCEPT ![w] = j]
    /\ IF j.root = "backup_removed"
       THEN /\ pc' = [pc EXCEPT ![w] = "ret"]
            /\ outcome' = [outcome EXCEPT ![w] =
                             [status |-> "error", state |-> "updated", why |-> "io"]]
       ELSE /\ pc' = [pc EXCEPT ![w] =
                        IF j.root = "new_installed" THEN "rb_uninstall"
                        ELSE IF j.root = "old_moved" /\ j.old.kind # "absent"
                             THEN "rb_restore" ELSE "rb_staging"]
            /\ UNCHANGED outcome

CommitFails(w) == Fault /\ UNCHANGED disk /\ RollbackAfterCommit(w, job[w])
CommitFailsOwning(w, controls) ==
    Fault /\ UNCHANGED disk /\ RollbackAfterCommit(w, [job[w] EXCEPT !.ctl = controls])

\* The effect succeeded: record how far the root and the controls have come.
Advance(w, root, controls, to) ==
    /\ job' = [job EXCEPT ![w].root = root, ![w].ctl = controls]
    /\ pc' = [pc EXCEPT ![w] = to]
    /\ NoFault /\ UNCHANGED outcome

CommitFlush(w, from, to) ==
    /\ At(w, from)
    /\ \/ SyncParent /\ NoFault /\ Goto(w, to)
       \/ CommitFails(w)
    /\ UNCHANGED <<held, history>>

OwnRecord(w, phase) == Record(job[w].tx, job[w].old, job[w].want, phase)

\* write_initial_journal creates the file at the journal's own name,
JournalCreate(w) ==
    /\ At(w, "journal_create")
    /\ \/ Mutate([fs EXCEPT !.journal = Torn]) /\ Goto(w, "journal_write") /\ NoFault
       \/ CommitFails(w)
    /\ UNCHANGED <<held, history>>

\* then writes and flushes it: from here on the transaction is open,
JournalWrite(w) ==
    LET record == OwnRecord(w, "staged")
        written(f) == [f EXCEPT !.journal = IF @ = Torn THEN record ELSE @]
    IN  /\ At(w, "journal_write")
        /\ \/ /\ fs' = written(fs)
              /\ durable' = {written(f) : f \in durable}
              /\ Goto(w, "journal_flush") /\ NoFault
              /\ acked' = FALSE
           \/ CommitFailsOwning(w, "journal") /\ UNCHANGED acked
           \/ /\ Mutate(written(fs)) /\ Fault /\ acked' = FALSE
              /\ RollbackAfterCommit(w, [job[w] EXCEPT !.ctl = "journal"])
        /\ UNCHANGED <<held, base, entry, prior>>

\* Seeded fault: the parent is not flushed after the journal is created.
JournalUnflushed(w) ==
    /\ At(w, "journal_flush")
    /\ IF job[w].old.kind = "absent"
       THEN Advance(w, "old_moved", "journal", "old_temporary")
       ELSE Advance(w, "staged", "journal", "move_old")
    /\ UNCHANGED <<disk, held, history>>

\* then flushes the parent; an absent old root counts as moved.
JournalFlush(w) ==
    /\ At(w, "journal_flush")
    /\ \/ /\ SyncParent
          /\ IF job[w].old.kind = "absent"
             THEN Advance(w, "old_moved", "journal", "old_temporary")
             ELSE Advance(w, "staged", "journal", "move_old")
       \/ CommitFailsOwning(w, "journal")
    /\ UNCHANGED <<held, history>>

MoveOldRoot(w) ==
    /\ At(w, "move_old")
    /\ \/ /\ Mutate([fs EXCEPT !.out = Absent, !.backup[job[w].tx] = fs.out])
          /\ Advance(w, "old_moved", "journal", "move_old_flush")
       \/ CommitFails(w)
    /\ UNCHANGED <<held, history>>

MoveOldRootFlush(w) == CommitFlush(w, "move_old_flush", "old_temporary")

\* replace_journal: a complete temporary, flushed before it takes the name.
JournalTemporary(w, phase, from, to) ==
    LET written == [fs EXCEPT !.temporary[job[w].tx] = OwnRecord(w, phase)]
    IN  /\ At(w, from)
        /\ \/ Mutate(written) /\ Goto(w, to) /\ NoFault
           \/ CommitFails(w)
           \/ /\ Mutate(written) /\ Fault
              /\ RollbackAfterCommit(w, [job[w] EXCEPT !.ctl = "both"])
        /\ UNCHANGED <<held, history>>

JournalReplace(w, from, to) ==
    LET tx == job[w].tx
    IN  /\ At(w, from)
        /\ \/ /\ Mutate([fs EXCEPT !.journal = fs.temporary[tx], !.temporary[tx] = NoFile])
              /\ Goto(w, to) /\ NoFault
           \/ CommitFailsOwning(w, "both")
        /\ UNCHANGED <<held, history>>

OldMovedTemporary(w) == JournalTemporary(w, "old_moved", "old_temporary", "old_replace")
OldMovedReplace(w) == JournalReplace(w, "old_replace", "old_flush")
OldMovedFlush(w) == CommitFlush(w, "old_flush", "install")

InstallNewRoot(w) ==
    LET tx == job[w].tx
    IN  /\ At(w, "install")
        /\ \/ /\ Mutate([fs EXCEPT !.out = fs.staging[tx], !.staging[tx] = Absent])
              /\ Advance(w, "new_installed", "journal", "install_flush")
           \/ CommitFails(w)
        /\ UNCHANGED <<held, history>>

InstallNewRootFlush(w) == CommitFlush(w, "install_flush", "new_temporary")

NewInstalledTemporary(w) ==
    JournalTemporary(w, "new_installed", "new_temporary", "new_replace")
NewInstalledReplace(w) == JournalReplace(w, "new_replace", "new_flush")

\* Seeded fault: the journal is removed while the backup is still there.
NewInstalledForgetsBackup(w) ==
    /\ At(w, "new_flush")
    /\ SyncParent /\ Advance(w, "backup_removed", "journal", "drop_journal")
    /\ UNCHANGED <<held, history>>

\* An absent old root leaves no backup to remove.
NewInstalledFlush(w) ==
    /\ At(w, "new_flush")
    /\ \/ /\ SyncParent
          /\ IF job[w].old.kind = "absent"
             THEN Advance(w, "backup_removed", "journal", "drop_journal")
             ELSE Advance(w, "new_installed", "journal", "drop_backup")
       \/ CommitFails(w)
    /\ UNCHANGED <<held, history>>

\* remove_dir_all(backup): its first unlink,
RemoveBackup(w) ==
    LET tx == job[w].tx
    IN  /\ At(w, "drop_backup")
        /\ \/ /\ \E t \in Remains(fs.backup[tx]) : Mutate([fs EXCEPT !.backup[tx] = t])
              /\ Goto(w, "dropping_backup") /\ NoFault
           \/ CommitFails(w)
        /\ UNCHANGED <<held, history>>

\* and the rest, which may still fail when part of the tree is gone.
FinishRemoveBackup(w) ==
    /\ At(w, "dropping_backup")
    /\ \/ /\ Mutate([fs EXCEPT !.backup[job[w].tx] = Absent])
          /\ Advance(w, "backup_removed", "journal", "drop_backup_flush")
       \/ TornErrors /\ CommitFails(w)
    /\ UNCHANGED <<held, history>>

RemoveBackupFlush(w) == CommitFlush(w, "drop_backup_flush", "drop_journal")

RemoveJournal(w) ==
    /\ At(w, "drop_journal")
    /\ \/ /\ Mutate([fs EXCEPT !.journal = NoFile])
          /\ Advance(w, "backup_removed", "none", "drop_journal_flush")
       \/ CommitFails(w)
    /\ UNCHANGED <<held, history>>

\* Seeded fault: the write is reported before its last flush.
AcknowledgeUnflushed(w) ==
    /\ At(w, "drop_journal_flush")
    /\ UNCHANGED disk /\ NoFault /\ Finish(w, "written", "updated", "none")
    /\ acked' = TRUE
    /\ UNCHANGED <<held, base, entry, prior>>

\* The last flush makes the write complete and reportable.
RemoveJournalFlush(w) ==
    /\ At(w, "drop_journal_flush")
    /\ \/ /\ SyncParent /\ NoFault /\ Finish(w, "written", "updated", "none")
          /\ acked' = TRUE
       \/ CommitFails(w) /\ UNCHANGED acked
    /\ UNCHANGED <<held, base, entry, prior>>

-----------------------------------------------------------------------------
(* rollback_after_commit: restore_prior_root once the old root was moved,   *)
(* cleanup_before_old_move (its last four steps) otherwise.                 *)

RollbackState(w) == IF job[w].root = "staged" THEN "unchanged" ELSE "restored"

RollbackUninstall(w) ==
    LET tx == job[w].tx
    IN  /\ At(w, "rb_uninstall")
        /\ \/ /\ Mutate([fs EXCEPT !.out = Absent, !.staging[tx] = fs.out])
              /\ Goto(w, "rb_uninstall_flush") /\ NoFault
           \/ FailsWith(w, "indeterminate")
        /\ UNCHANGED <<held, history>>

\* Seeded fault: with the new root taken out, the rollback counts as done.
RollbackStopsAtUninstall(w) ==
    Flush(w, "rb_uninstall_flush", "rb_staging", "indeterminate") /\ UNCHANGED <<held, history>>

RollbackUninstallFlush(w) ==
    /\ Flush(w, "rb_uninstall_flush",
             IF job[w].old.kind = "absent" THEN "rb_staging" ELSE "rb_restore", "indeterminate")
    /\ UNCHANGED <<held, history>>

RollbackRestore(w) ==
    LET tx == job[w].tx
    IN  /\ At(w, "rb_restore")
        /\ \/ /\ Mutate([fs EXCEPT !.out = fs.backup[tx], !.backup[tx] = Absent])
              /\ Goto(w, "rb_restore_flush") /\ NoFault
           \/ FailsWith(w, "indeterminate")
        /\ UNCHANGED <<held, history>>

RollbackRestoreFlush(w) ==
    Flush(w, "rb_restore_flush", "rb_staging", "indeterminate") /\ UNCHANGED <<held, history>>

\* remove_rollback_staging.
RollbackStaging(w) ==
    /\ At(w, "rb_staging")
    /\ \/ UnlinkStaging(w, job[w].tx, "rb_temporary")
       \/ FailsWith(w, RollbackState(w))
    /\ UNCHANGED <<held, history>>

\* remove_rollback_control: only the control files this transaction created.
RollbackTemporary(w) ==
    LET owned == job[w].ctl = "both" /\ fs.temporary[job[w].tx] # NoFile
    IN  /\ At(w, "rb_temporary")
        /\ \/ ~owned /\ Skip(w, "rb_journal")
           \/ /\ owned
              /\ \/ /\ Mutate([fs EXCEPT !.temporary[job[w].tx] = NoFile])
                    /\ Goto(w, "rb_journal") /\ NoFault
                 \/ FailsWith(w, RollbackState(w))
        /\ UNCHANGED <<held, history>>

RollbackJournal(w) ==
    LET owned == job[w].ctl # "none" /\ fs.journal # NoFile
    IN  /\ At(w, "rb_journal")
        /\ \/ ~owned /\ Skip(w, "rb_flush")
           \/ /\ owned
              /\ \/ /\ Mutate([fs EXCEPT !.journal = NoFile])
                    /\ Goto(w, "rb_flush") /\ NoFault
                 \/ FailsWith(w, RollbackState(w))
        /\ UNCHANGED <<held, history>>

\* The rollback is durable; the commit's own error is reported.
RollbackFlush(w) ==
    /\ At(w, "rb_flush")
    /\ \/ SyncParent /\ NoFault /\ Finish(w, "error", RollbackState(w), "io")
       \/ FailsWith(w, RollbackState(w))
    /\ UNCHANGED <<held, history>>

-----------------------------------------------------------------------------
(* check_output: a shared lock when the lock file exists, none otherwise.   *)

CheckLookup(c) ==
    /\ At(c, "ck_lookup")
    /\ Goto(c, IF fs.lock = "none" THEN "ck_scan" ELSE "ck_await")
    /\ UNCHANGED <<held, view>>

CheckAwait(c) ==
    /\ At(c, "ck_await")
    /\ Shared(c)
    /\ Goto(c, "ck_read")
    /\ UNCHANGED view

CheckRead(c) ==
    /\ At(c, "ck_read")
    /\ IF fs.lock = "valid" THEN Goto(c, "ck_scan")
       ELSE Finish(c, "error", "unchanged", "lock_invalid")
    /\ UNCHANGED <<held, view>>

\* The scan reads the tree twice and rejects a difference; here it is one read.
CheckScan(c) ==
    /\ At(c, "ck_scan")
    /\ \/ /\ fs.out = Unreadable
          /\ Finish(c, "error", "unchanged", "output_invalid") /\ UNCHANGED view
       \/ /\ fs.out # Unreadable
          /\ view' = [view EXCEPT ![c] = fs.out]
          /\ Goto(c, "ck_verify")
    /\ UNCHANGED held

\* Seeded fault: an unlocked comparison is reported as it is.
CheckUnverified(c) ==
    /\ At(c, "ck_verify")
    /\ Finish(c, "compared", "unchanged", "none")
    /\ UNCHANGED <<held, view>>

\* Unlocked, the comparison stands only if the lock file is still absent.
CheckVerify(c) ==
    /\ At(c, "ck_verify")
    /\ IF c \in held \/ fs.lock = "none"
       THEN Finish(c, "compared", "unchanged", "none")
       ELSE Finish(c, "error", "unchanged", "lock_appeared")
    /\ UNCHANGED <<held, view>>

-----------------------------------------------------------------------------
(* Returning drops the held lock; dying drops it too and forgets the rest.  *)

Idle(P) ==
    /\ pc' = [p \in Procs |-> IF p \in P THEN "idle" ELSE pc[p]]
    /\ job' = [p \in Procs |-> IF p \in P THEN NewJob(job[p].want, job[p].tx) ELSE job[p]]
    /\ outcome' = [p \in Procs |-> IF p \in P THEN NoOutcome ELSE outcome[p]]
    /\ view' = [p \in Procs |-> IF p \in P THEN Absent ELSE view[p]]
    /\ base' = [p \in Procs |-> IF p \in P THEN Absent ELSE base[p]]
    /\ entry' = [p \in Procs |-> IF p \in P THEN Absent ELSE entry[p]]
    /\ held' = held \ P

Return(p) ==
    /\ At(p, "ret")
    /\ Idle({p})
    /\ UNCHANGED <<disk, invocations, faults, crashes, prior, acked>>

\* The process dies; the operating system releases its advisory lock.
Crash(p) ==
    /\ pc[p] # "idle"
    /\ crashes < MaxCrashes /\ crashes' = crashes + 1
    /\ Idle({p})
    /\ UNCHANGED <<disk, invocations, faults, prior, acked>>

\* Every process dies, and the disk holds a prefix of the unflushed effects.
PowerLoss ==
    /\ crashes < MaxCrashes /\ crashes' = crashes + 1
    /\ \E f \in durable : fs' = f /\ durable' = {f}
    /\ Idle(Procs)
    /\ UNCHANGED <<invocations, faults, prior, acked>>

LockStep(w) ==
    LookupLock(w) \/ AwaitLock(w) \/ ReadLock(w) \/ CreateLock(w) \/ LockCreated(w)
      \/ InitializeLock(w) \/ FlushLock(w)

RecoveryStep(w) ==
    RecoverPriorTransaction(w) \/ RecoveryRename(w) \/ RecoveryRenameFlush(w)
      \/ RecoveryStaging(w) \/ RecoveryStagingFlush(w)
      \/ RecoveryBackup(w) \/ RecoveryBackupFlush(w)
      \/ RecoveryTemporary(w) \/ RecoveryJournal(w) \/ RecoveryFlush(w)

StagingStep(w) ==
    InspectOutput(w) \/ MakeStaging(w) \/ FillStaging(w) \/ FlushStaging(w)
      \/ CleanupFailedStaging(w) \/ CleanupFailedStagingFlush(w)

CommitStep(w) ==
    JournalCreate(w) \/ JournalWrite(w) \/ JournalFlush(w)
      \/ MoveOldRoot(w) \/ MoveOldRootFlush(w)
      \/ OldMovedTemporary(w) \/ OldMovedReplace(w) \/ OldMovedFlush(w)
      \/ InstallNewRoot(w) \/ InstallNewRootFlush(w)
      \/ NewInstalledTemporary(w) \/ NewInstalledReplace(w) \/ NewInstalledFlush(w)
      \/ RemoveBackup(w) \/ FinishRemoveBackup(w) \/ RemoveBackupFlush(w)
      \/ RemoveJournal(w) \/ RemoveJournalFlush(w)

RollbackStep(w) ==
    RollbackUninstall(w) \/ RollbackUninstallFlush(w)
      \/ RollbackRestore(w) \/ RollbackRestoreFlush(w) \/ RollbackStaging(w)
      \/ RollbackTemporary(w) \/ RollbackJournal(w) \/ RollbackFlush(w)

\* Lock steps set held and the history; every later step leaves the lock alone.
Write(w) ==
    /\ LockStep(w) \/ RecoveryStep(w) \/ StagingStep(w) \/ CommitStep(w) \/ RollbackStep(w)
    /\ UNCHANGED <<view, invocations, crashes>>

Check(c) ==
    /\ CheckLookup(c) \/ CheckAwait(c) \/ CheckRead(c) \/ CheckScan(c) \/ CheckVerify(c)
    /\ UNCHANGED <<disk, invocations, faults, crashes, history>>

\* All invocations of the bound have returned.
Quiescent ==
    /\ invocations = MaxInvocations /\ \A p \in Procs : At(p, "idle")
    /\ UNCHANGED vars

Init ==
    /\ \E t \in InitialRoots :
         fs = [lock |-> "none", journal |-> NoFile, temporary |-> [n \in TxId |-> NoFile],
               out |-> t, staging |-> [n \in TxId |-> Absent], backup |-> [n \in TxId |-> Absent]]
    /\ durable = {fs}
    /\ held = {}
    /\ pc = [p \in Procs |-> "idle"]
    /\ \E c \in Content : job = [p \in Procs |-> NewJob(c, 1)]
    /\ outcome = [p \in Procs |-> NoOutcome]
    /\ view = [p \in Procs |-> Absent]
    /\ invocations = 0 /\ faults = 0 /\ crashes = 0
    /\ base = [p \in Procs |-> Absent] /\ entry = [p \in Procs |-> Absent]
    /\ prior = [n \in TxId |-> Absent] /\ acked = FALSE

Next ==
    \/ \E p \in Procs : Start(p) \/ Return(p) \/ Crash(p)
    \/ \E w \in Writers : Write(w)
    \/ \E c \in Checkers : Check(c)
    \/ PowerLoss
    \/ Quiescent

Spec == Init /\ [][Next]_vars

(* A started process keeps running until it returns or dies, and a blocking *)
(* advisory lock that keeps becoming free is eventually granted.            *)
Fairness ==
    /\ \A w \in Writers : WF_vars(Write(w)) /\ SF_vars(AwaitLock(w) /\ Write(w))
                           /\ SF_vars(LockCreated(w) /\ Write(w))
    /\ \A c \in Checkers : WF_vars(Check(c)) /\ SF_vars(CheckAwait(c) /\ Check(c))
    /\ \A p \in Procs : WF_vars(Return(p))

FairSpec == Spec /\ Fairness
=============================================================================
