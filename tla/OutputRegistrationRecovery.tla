----------------------- MODULE OutputRegistrationRecovery -----------------------
(***************************************************************************)
(* Durability and recovery of output registration, for every instance: the *)
(* invariant ties what is on disk (and what a power loss may bring back)   *)
(* to how far the one writer past its lock has come.                       *)
(***************************************************************************)
EXTENDS OutputRegistrationProofs

(* One state of the disk.  A journal record names the tree its transaction  *)
(* replaces (Replaced, of which the record keeps kind and fingerprint) and  *)
(* the tree it installs; the three participants are then in one of three    *)
(* arrangements, whoever moved them last.                                   *)
Journaled(f) == f.journal.kind = "record"
Replaced(f) == prior[f.journal.tx]
Planned(f) == Complete(f.journal.new)
Whole(t) == \E c \in Content : t = Complete(c)

\* What the protocol may put back for t: t, or what a failed removal left of it.
Loose(t) == IF TornErrors THEN {t} \cup Remains(t) ELSE {t}

Kept(f) ==
    /\ f.out \in Loose(Replaced(f))
    /\ f.backup[f.journal.tx] = Absent
    /\ f.staging[f.journal.tx] \in {Absent, Planned(f)} \cup Remains(Planned(f))
Moved(f) ==
    /\ Replaced(f) # Absent
    /\ f.out = Absent
    /\ f.backup[f.journal.tx] \in Loose(Replaced(f))
    /\ f.staging[f.journal.tx] = Planned(f)
Installed(f) ==
    /\ f.out = Planned(f)
    /\ f.backup[f.journal.tx] \in {Absent, Replaced(f)} \cup Remains(Replaced(f))
    /\ f.staging[f.journal.tx] = Absent

Coherent(f) ==
    /\ \A n \in TxId : f.backup[n] # Absent => Journaled(f) /\ f.journal.tx = n
    /\ Journaled(f) =>
          /\ Replaced(f) \notin {Unreadable, Planned(f)}
          /\ f.journal.old = JournalOldRoot(Replaced(f))
          /\ f.journal.tx <= invocations
          /\ Kept(f) \/ Moved(f) \/ Installed(f)

(* What a power loss may bring back (f) when the disk shows g: another      *)
(* output only together with the journal that resolves it.                  *)
SameTransaction(f, g) == f.journal.tx = g.journal.tx /\ f.journal.new = g.journal.new
Precedes(f, g) ==
    /\ Journaled(f) /\ Journaled(g) => SameTransaction(f, g)
    /\ Journaled(f) /\ ~Journaled(g) => g.out \in Loose(Replaced(f)) \cup {Planned(f)}
    /\ ~Journaled(f) => f.out = g.out
    /\ ~Journaled(f) /\ Journaled(g) => g.out = Replaced(g)

DiskIInv ==
    /\ fs \in durable
    /\ \A f \in durable : Coherent(f) /\ Precedes(f, fs)
    /\ acked => \A f \in durable : ~Journaled(f)

-----------------------------------------------------------------------------
(* The lock: who holds it, and that its file is there.                      *)
HeldIInv ==
    /\ \A w \in Writers : w \in held => held = {w}
    /\ \A w \in Writers : pc[w] \in CriticalPc => w \in held
    /\ \A w \in Writers : pc[w] \in LockPc \cup {"idle"} => w \notin held
    /\ held # {} => fs.lock # "none"
    /\ \A p \in Procs : pc[p] \in {"await", "created", "ck_await"} => fs.lock # "none"

(* Transaction ids are fresh, so a recorded root is never overwritten.      *)
BeforeTransaction ==
    LockPc \cup {"read_lock", "init_lock", "lock_flush", "recover", "rc_rename", "rc_rename_flush",
                 "rc_staging", "rc_staging_flush", "rc_backup", "rc_backup_flush", "rc_temporary",
                 "rc_journal", "rc_flush", "inspect"}
FreshIInv ==
    /\ \A p \in Procs : pc[p] # "idle" => job[p].tx <= invocations
    /\ \A p, q \in Procs : pc[p] # "idle" /\ pc[q] # "idle" /\ job[p].tx = job[q].tx => p = q
    /\ \A w \in Writers : pc[w] \in BeforeTransaction =>
          \A f \in durable : Journaled(f) => f.journal.tx # job[w].tx

-----------------------------------------------------------------------------
(* Where the writer past its lock is, and what it may rely on there.        *)
Old(w) == prior[job[w].tx]
New(w) == Complete(job[w].want)
Own(w) == Journaled(fs) /\ fs.journal.tx = job[w].tx /\ fs.journal.new = job[w].want

FindingPc == {"read_lock", "init_lock", "lock_flush", "recover"}
ResolvedPc == {"rc_rename_flush", "rc_staging", "rc_staging_flush", "rc_backup_flush",
               "rc_temporary", "rc_journal"}
ClearedPc == {"rc_flush", "inspect", "mk_staging", "fill", "staging_flush",
              "unstage", "unstage_flush"}
StagingPc == {"mk_staging", "fill", "staging_flush", "journal_create"}
StagedPc == {"journal_write", "journal_flush", "move_old"}
OldMovedPc == {"move_old_flush", "old_temporary", "old_replace", "old_flush", "install"}
NewInstalledPc == {"install_flush", "new_temporary", "new_replace", "new_flush", "drop_backup",
                   "dropping_backup"}
BackupRemovedPc == {"drop_backup_flush", "drop_journal", "drop_journal_flush"}
UndoingPc == {"rb_uninstall", "rb_uninstall_flush", "rb_restore", "rb_restore_flush"}
UndonePc == {"rb_restore_flush", "rb_staging", "rb_temporary", "rb_journal", "rb_flush"}
CommittingPc == StagedPc \cup OldMovedPc \cup NewInstalledPc \cup BackupRemovedPc
ReplacingPc == StagingPc \cup CommittingPc \cup UndoingPc \cup UndonePc
SyncedPc == {"journal_create", "move_old", "old_temporary", "install", "new_temporary",
             "drop_backup", "drop_journal"}

RecoveringAt(w) ==
    /\ pc[w] \in FindingPc => SettledRoot(fs) = base[w] /\ job[w].effect = "none"
    /\ pc[w] = "rc_rename" =>
          /\ Moved(fs) /\ base[w] = Replaced(fs) /\ fs.backup[fs.journal.tx] = base[w]
          /\ job[w].effect = "restored"
    /\ pc[w] = "rc_backup" => Installed(fs)
    /\ pc[w] \in ResolvedPc => fs.backup[fs.journal.tx] = Absent
    /\ pc[w] \in ResolvedPc \cup ClearedPc \cup {"rc_backup"} =>
          fs.out = base[w] /\ (job[w].effect = "updated" => Whole(fs.out))
    /\ pc[w] \in ClearedPc \cup {"journal_create", "drop_journal_flush"} => fs.journal = NoFile

CommittingAt(w) ==
    /\ pc[w] \in ReplacingPc =>
          /\ Old(w) = base[w] /\ Old(w) \notin {Unreadable, New(w)}
          /\ job[w].old = JournalOldRoot(Old(w))
    /\ pc[w] \in StagingPc \cup StagedPc => fs.out = Old(w)
    /\ pc[w] \in {"staging_flush", "journal_create"} \cup StagedPc \cup OldMovedPc =>
          fs.staging[job[w].tx] = New(w)
    /\ pc[w] = "journal_write" =>
          fs.journal = Torn /\ durable \subseteq {fs, [fs EXCEPT !.journal = NoFile]}
    /\ pc[w] \in (CommittingPc \cup UndoingPc) \ {"journal_write", "drop_journal_flush"} => Own(w)
    /\ pc[w] \in OldMovedPc => fs.out = Absent /\ fs.backup[job[w].tx] = Old(w)
    /\ pc[w] \in NewInstalledPc \cup BackupRemovedPc => fs.out = New(w)
    /\ pc[w] \in NewInstalledPc \ {"dropping_backup"} => fs.backup[job[w].tx] = Old(w)
    /\ pc[w] = "dropping_backup" => fs.backup[job[w].tx] \in Remains(Old(w))
    /\ pc[w] \in BackupRemovedPc => fs.backup[job[w].tx] = Absent
    /\ pc[w] \in {"move_old", "move_old_flush", "drop_backup", "dropping_backup", "rb_restore"} =>
          Old(w) # Absent
    /\ pc[w] \in {"old_replace", "new_replace"} =>
          fs.temporary[job[w].tx] \in {OwnRecord(w, phase) : phase \in Phase}
    /\ pc[w] \in SyncedPc => durable = {fs}

ProgressAt(w) ==
    /\ pc[w] \in LockPc => job[w].effect = "none"
    /\ pc[w] \in BeforeTransaction \cup StagingPc \cup StagedPc => job[w].root = "staged"
    /\ pc[w] \in OldMovedPc => job[w].root = "old_moved"
    /\ pc[w] \in NewInstalledPc => job[w].root = "new_installed"
    /\ pc[w] \in BackupRemovedPc => job[w].root = "backup_removed"

UndoingAt(w) ==
    /\ pc[w] = "rb_uninstall" => fs.out = New(w) /\ fs.backup[job[w].tx] \in Loose(Old(w))
    /\ pc[w] \in {"rb_uninstall_flush", "rb_restore"} =>
          /\ fs.out = Absent /\ fs.staging[job[w].tx] = New(w)
          /\ fs.backup[job[w].tx] \in Loose(Old(w))
    /\ pc[w] \in UndonePc =>
          /\ fs.out \in Loose(Old(w))
          /\ \A n \in TxId : fs.backup[n] = Absent
          /\ Journaled(fs) => Own(w)

ReportAt(w) ==
    Reporting(w) =>
        /\ outcome[w].status \in {"written", "unchanged"} =>
              fs.out = Complete(job[w].want) /\ fs.journal = NoFile
        /\ outcome[w].status = "written" => durable = {fs}
        /\ outcome[w].state = "updated" => Whole(fs.out)
        /\ ~TornErrors =>
              /\ outcome[w].status = "error" /\ outcome[w].state \in {"unchanged", "restored"} =>
                    SettledRoot(fs) = base[w]
              /\ outcome[w].state = "indeterminate" =>
                    /\ Journaled(fs)
                    /\ SettledRoot(fs) \in {Replaced(fs), Planned(fs)}

WriterAt(w) == RecoveringAt(w) /\ CommittingAt(w) /\ ProgressAt(w) /\ UndoingAt(w) /\ ReportAt(w)

CheckerIInv ==
    \A c \in Checkers : pc[c] = "ck_verify" /\ (c \in held \/ fs.lock = "none") => view[c] = fs.out

RegistrationIInv ==
    /\ TypeIInv /\ DiskIInv /\ HeldIInv /\ FreshIInv
    /\ CheckerIInv /\ \A w \in Writers : WriterAt(w)

-----------------------------------------------------------------------------
(* What an interrupted removal leaves, and what recovery observes.          *)

LEMMA DistinctTrees ==
    /\ Absent # Empty /\ Absent # Unreadable /\ Empty # Unreadable
    /\ \A c, form : Managed(c, form) \notin {Absent, Empty, Unreadable}
  BY DEF Absent, Empty, Unreadable, Managed

LEMMA RemainsOf ==
    ASSUME NEW t \in Tree
    PROVE  /\ t = Absent => Remains(t) = {}
           /\ t = Empty => Remains(t) = {Empty}
           /\ t = Unreadable => Remains(t) = {Empty, Unreadable}
           /\ t \notin {Absent, Empty, Unreadable} =>
                 Remains(t) = {Empty, Unreadable, Managed(t.fp, "damaged")}
  BY DistinctTrees DEF Remains

LEMMA RemainsFacts ==
    ASSUME NEW t \in Tree
    PROVE  /\ Absent \notin Remains(t)
           /\ \A c \in Content : Complete(c) \notin Remains(t)
           /\ \A u \in Remains(t) : u \in Tree /\ Remains(u) \subseteq Remains(t)
  <1>1. CASE t \in {Absent, Empty, Unreadable}
    BY <1>1, DistinctTrees, RemainsOf, TreeTypes DEF Complete
  <1>2. CASE t \notin {Absent, Empty, Unreadable}
    <2>1. t.fp \in Content
      BY <1>2 DEF Tree
    <2>2. DEFINE d == Managed(t.fp, "damaged")
    <2>3. d \in Tree /\ d \notin {Absent, Empty, Unreadable} /\ d.fp = t.fp
      BY <2>1, TreeTypes, DistinctTrees DEF Managed, Form
    <2>4. Remains(t) = {Empty, Unreadable, d} /\ Remains(d) = {Empty, Unreadable, d}
      BY <1>2, <2>3, RemainsOf
    <2>5. \A c \in Content : Complete(c) # d
      BY DEF Complete, Managed
    <2> HIDE DEF d
    <2> QED BY <2>3, <2>4, <2>5, DistinctTrees, RemainsOf, TreeTypes DEF Complete
  <1> QED BY <1>1, <1>2

\* The one tree recovery accepts as the replaced one is the replaced one.
LEMMA MatchIsOriginal ==
    ASSUME NEW t \in Tree, t # Unreadable, NEW u \in Loose(t), MatchesOldRoot(u, JournalOldRoot(t))
    PROVE  u = t
  <1>1. CASE u = t
    BY <1>1
  <1>2. CASE u \in Remains(t)
    <2>1. CASE t \in {Absent, Empty}
      BY <1>2, <2>1, RemainsOf
    <2>2. CASE t \in [kind : {"managed"}, fp : Content, form : Form]
      <3>1. u \in {Empty, Unreadable, Managed(t.fp, "damaged")}
        BY <1>2, <2>2, RemainsOf DEF Absent, Empty, Unreadable
      <3>2. JournalOldRoot(t).kind = "managed"
        BY <2>2 DEF JournalOldRoot
      <3> QED BY <3>1, <3>2 DEF MatchesOldRoot, Observable, JournalOldRoot, Empty, Unreadable,
                               Managed, Absent
    <2> QED BY <2>1, <2>2 DEF Tree
  <1> QED BY <1>1, <1>2 DEF Loose

LEMMA CompleteTrees ==
    ASSUME NEW c \in Content
    PROVE  /\ Complete(c) \in Tree /\ Complete(c) \notin {Absent, Empty, Unreadable}
           /\ Complete(c).kind = "managed" /\ Complete(c).fp = c
           /\ Observable(Complete(c)) /\ MatchesManifest(Complete(c), c)
           /\ \A d \in Content : Complete(c) = Complete(d) => c = d
  BY TreeTypes, DistinctTrees DEF Complete, Managed, Observable, MatchesManifest

LEMMA LooseFacts ==
    ASSUME NEW t \in Tree
    PROVE  /\ t \in Loose(t) /\ Loose(t) \subseteq Tree
           /\ t # Absent => Absent \notin Loose(t)
           /\ t = Absent => Loose(t) = {Absent}
           /\ Loose(t) \subseteq {t} \cup Remains(t)
           /\ ~TornErrors => Loose(t) = {t}
           /\ \A c \in Content : t # Complete(c) => Complete(c) \notin Loose(t)
  BY RemainsFacts, RemainsOf DEF Loose

\* What a record names is in its type.
LEMMA RecordTypes ==
    ASSUME TypeIInv, NEW f \in Entries, Journaled(f)
    PROVE  /\ f.journal.tx \in TxId /\ f.journal.new \in Content
           /\ Replaced(f) \in Tree /\ Planned(f) \in Tree
  BY EntryTypes, JournalTypes, TreeTypes DEF Journaled, Replaced, Planned, TypeIInv, TypeOK

LEMMA OldKinds ==
    ASSUME NEW t \in Tree
    PROVE  JournalOldRoot(t).kind = "absent" <=> t = Absent
  BY DEF JournalOldRoot, Tree, Absent, Empty, Unreadable

(* What the observations recovery acts on prove of the participants         *)
(* (recover_prior_transaction).                                             *)
LEMMA RecoveryProves ==
    ASSUME TypeIInv, NEW f \in Entries, Coherent(f), Journaled(f)
    PROVE  /\ RecoveryCase(f) = "keep_old" =>
                 /\ f.backup[f.journal.tx] = Absent
                 /\ f.out \in {Replaced(f), Planned(f)} /\ SettledRoot(f) = f.out
           /\ RecoveryCase(f) = "restore_old" =>
                 /\ Moved(f) /\ f.backup[f.journal.tx] = Replaced(f)
                 /\ SettledRoot(f) = Replaced(f)
           /\ RecoveryCase(f) = "keep_new" =>
                 Installed(f) /\ SettledRoot(f) = f.out
           /\ RecoveryCase(f) \in {"keep_old", "restore_old", "keep_new", "ambiguous"}
  <1> DEFINE n == f.journal.tx
             old == Replaced(f)
             new == Planned(f)
  <1>1. /\ n \in TxId /\ f.journal.new \in Content /\ old \in Tree /\ new \in Tree
        /\ old \notin {Unreadable, new} /\ f.journal.old = JournalOldRoot(old)
        /\ f.out \in Tree /\ f.staging[n] \in Tree /\ f.backup[n] \in Tree
    BY RecordTypes, EntryTypes DEF Coherent
  <1>2. /\ new # Absent /\ new = Complete(f.journal.new)
        /\ \A t \in Loose(old) : MatchesOldRoot(t, f.journal.old) => t = old
        /\ f.journal.old.kind = "absent" <=> old = Absent
        /\ old # Absent => Absent \notin Loose(old)
        /\ old = Absent => Loose(old) = {Absent}
        /\ Loose(old) \subseteq {old} \cup Remains(old)
        /\ ~MatchesManifest(Absent, f.journal.new) /\ Absent \notin Remains(old)
    BY <1>1, CompleteTrees, MatchIsOriginal, OldKinds, LooseFacts, RemainsFacts
       DEF Planned, MatchesManifest, Absent
  <1>3. CASE RecoveryCase(f) = "keep_old"
    <2>1. f.backup[n] = Absent /\ MatchesOldRoot(f.out, f.journal.old)
      BY <1>3 DEF RecoveryCase
    <2>2. f.out \in {old, new}
      BY <2>1, <1>1, <1>2 DEF Coherent, Kept, Moved, Installed
    <2>3. f.out = Absent => f.journal.old.kind = "absent"
      BY <2>1, <2>2, <1>1, <1>2
    <2> QED BY <1>3, <2>1, <2>2, <2>3 DEF SettledRoot
  <1>4. CASE RecoveryCase(f) = "restore_old"
    <2>1. /\ f.out = Absent /\ MatchesOldRoot(f.backup[n], f.journal.old)
          /\ f.journal.old.kind # "absent"
      BY <1>4 DEF RecoveryCase
    <2>2. Moved(f)
      BY <2>1, <1>1, <1>2 DEF Coherent, Kept, Installed
    <2>3. f.backup[n] = old
      BY <2>1, <2>2, <1>2 DEF Moved
    <2> QED BY <1>4, <2>1, <2>2, <2>3 DEF SettledRoot, Journaled
  <1>5. CASE RecoveryCase(f) = "keep_new"
    <2>1. /\ MatchesManifest(f.out, f.journal.new) /\ f.staging[n] = Absent
          /\ MatchesOldRoot(f.backup[n], f.journal.old) \/ f.backup[n] = Absent
          /\ ~(MatchesOldRoot(f.out, f.journal.old) /\ f.backup[n] = Absent)
          /\ Observable(f.out)
      BY <1>5 DEF RecoveryCase
    <2>2. f.out # Absent
      BY <2>1, <1>2
    <2>3. ~Moved(f)
      BY <2>2 DEF Moved
    <2>4. ASSUME Kept(f) PROVE FALSE
      <3>1. f.out \in Loose(old) /\ f.backup[n] = Absent
        BY <2>4 DEF Kept
      <3>2. f.out = old
        <4> SUFFICES ASSUME f.out \in Remains(old) PROVE FALSE
          BY <3>1, <1>2
        <4>1. f.out \in {Empty, Unreadable, Managed(old.fp, "damaged")}
          BY <1>1, RemainsOf
        <4>2. f.out.kind = "managed" /\ (f.out \in {Absent, Empty} \/ f.out.form # "damaged")
          BY <2>1 DEF MatchesManifest, Observable
        <4> QED BY <4>1, <4>2 DEF Managed, Empty, Unreadable, Absent
      <3>3. MatchesOldRoot(old, f.journal.old)
        BY <3>2, <2>1, <1>1 DEF MatchesOldRoot
      <3> QED BY <3>1, <3>2, <3>3, <2>1
    <2>5. Installed(f)
      BY <2>3, <2>4 DEF Coherent
    <2> QED BY <1>5, <2>2, <2>5 DEF SettledRoot
  <1>6. RecoveryCase(f) \in {"keep_old", "restore_old", "keep_new", "ambiguous"}
    BY DEF RecoveryCase
  <1> QED BY <1>3, <1>4, <1>5, <1>6
-----------------------------------------------------------------------------
(* What a change of one entry leaves of the others.                         *)

LEMMA ControlChanges ==
    ASSUME NEW f \in Entries, NEW g
    PROVE  /\ \A l : g = [f EXCEPT !.lock = l] =>
                 /\ g.lock = l /\ g.journal = f.journal /\ g.temporary = f.temporary
                 /\ g.out = f.out /\ g.staging = f.staging /\ g.backup = f.backup
           /\ \A j : g = [f EXCEPT !.journal = j] =>
                 /\ g.lock = f.lock /\ g.journal = j /\ g.temporary = f.temporary
                 /\ g.out = f.out /\ g.staging = f.staging /\ g.backup = f.backup
           /\ \A j, n \in TxId : g = [f EXCEPT !.temporary[n] = j] =>
                 /\ g.lock = f.lock /\ g.journal = f.journal /\ g.temporary[n] = j
                 /\ g.out = f.out /\ g.staging = f.staging /\ g.backup = f.backup
           /\ \A j, k, n \in TxId : g = [f EXCEPT !.journal = j, !.temporary[n] = k] =>
                 /\ g.lock = f.lock /\ g.journal = j
                 /\ g.out = f.out /\ g.staging = f.staging /\ g.backup = f.backup
  BY DEF Entries

LEMMA TreeChanges ==
    ASSUME NEW f \in Entries, NEW g, NEW n \in TxId
    PROVE  /\ \A t : g = [f EXCEPT !.staging[n] = t] =>
                 /\ g.lock = f.lock /\ g.journal = f.journal /\ g.temporary = f.temporary
                 /\ g.out = f.out /\ g.staging[n] = t /\ g.backup = f.backup
           /\ \A t : g = [f EXCEPT !.backup[n] = t] =>
                 /\ g.lock = f.lock /\ g.journal = f.journal /\ g.temporary = f.temporary
                 /\ g.out = f.out /\ g.staging = f.staging
                 /\ \A m \in TxId : g.backup[m] = IF m = n THEN t ELSE f.backup[m]
           /\ \A t, u : g = [f EXCEPT !.out = u, !.staging[n] = t] =>
                 /\ g.lock = f.lock /\ g.journal = f.journal /\ g.temporary = f.temporary
                 /\ g.out = u /\ g.staging[n] = t /\ g.backup = f.backup
           /\ \A t, u : g = [f EXCEPT !.out = u, !.backup[n] = t] =>
                 /\ g.lock = f.lock /\ g.journal = f.journal /\ g.temporary = f.temporary
                 /\ g.out = u /\ g.staging = f.staging
                 /\ \A m \in TxId : g.backup[m] = IF m = n THEN t ELSE f.backup[m]
  BY DEF Entries
-----------------------------------------------------------------------------
(* How a step of the writer past its lock may change the disk.              *)

\* No record appears but those a power loss could already bring back.
NoNewRecord ==
    \A f \in durable' : Journaled(f) =>
        \E g \in durable : Journaled(g) /\ g.journal.tx = f.journal.tx
DiskStep == DiskIInv' /\ NoNewRecord /\ (fs.lock # "none" => fs'.lock # "none")

LEMMA DiskAfter ==
    ASSUME DiskIInv, prior' = prior, invocations' = invocations,
           fs' \in durable', \A f \in durable' : f \in durable \/ f = fs',
           Coherent(fs'), \A f \in durable : Precedes(f, fs'),
           acked' => \A f \in durable' : ~Journaled(f)
    PROVE  DiskIInv'
  <1>1. ASSUME NEW f \in durable'
        PROVE  Coherent(f) /\ Precedes(f, fs')
    BY DEF DiskIInv, Precedes, SameTransaction
  <1>2. \A f : Coherent(f) <=> Coherent(f)'
    BY DEF Coherent, Journaled, Replaced, Planned, Kept, Moved, Installed
  <1>3. \A f : Precedes(f, fs') <=> Precedes(f, fs)'
    BY DEF Precedes, Journaled, Replaced, Planned
  <1> QED BY <1>1, <1>2, <1>3 DEF DiskIInv, Journaled

\* Nothing changes, or the parent is flushed.
LEMMA QuietDisk ==
    ASSUME DiskIInv, fs' = fs, durable' = durable \/ durable' = {fs},
           prior' = prior, invocations' = invocations, acked' = acked
    PROVE  DiskStep
  <1>1. Coherent(fs') /\ \A f \in durable : Precedes(f, fs')
    BY DEF DiskIInv
  <1>2. DiskIInv'
    BY <1>1, DiskAfter DEF DiskIInv
  <1> QED BY <1>2 DEF DiskStep, NoNewRecord, DiskIInv

\* A step that leaves the output alone and opens no transaction.
LEMMA SameOutput ==
    ASSUME DiskIInv, NEW g, Mutate(g), Coherent(g), g.out = fs.out,
           fs.lock # "none" => g.lock # "none",
           Journaled(g) => Journaled(fs) /\ SameTransaction(g, fs),
           Journaled(fs) /\ ~Journaled(g) => fs.out \in Loose(Replaced(fs)) \cup {Planned(fs)},
           prior' = prior, invocations' = invocations, acked' = acked
    PROVE  DiskStep
  <1>1. fs' = g /\ durable' = durable \cup {g}
    BY DEF Mutate
  <1>2. \A f \in durable : Precedes(f, g)
    BY DEF DiskIInv, Precedes, SameTransaction, Replaced, Planned
  <1>3. DiskIInv'
    BY <1>1, <1>2, DiskAfter DEF DiskIInv
  <1> QED BY <1>1, <1>3 DEF DiskStep, NoNewRecord, DiskIInv, SameTransaction

\* A rename at the output, under a journal no power loss can take away.
LEMMA MovedOutput ==
    ASSUME DiskIInv, NEW g, Mutate(g), Coherent(g), Journaled(fs), g.journal = fs.journal,
           g.lock = fs.lock, fs.out # Replaced(fs) \/ durable = {fs},
           prior' = prior, invocations' = invocations, acked' = acked
    PROVE  DiskStep
  <1>1. fs' = g /\ durable' = durable \cup {g}
    BY DEF Mutate
  <1>2. \A f \in durable : Precedes(f, g)
    BY DEF DiskIInv, Precedes, SameTransaction, Journaled
  <1>3. DiskIInv'
    BY <1>1, <1>2, DiskAfter DEF DiskIInv, Journaled
  <1> QED BY <1>1, <1>3 DEF DiskStep, NoNewRecord, DiskIInv, Journaled
-----------------------------------------------------------------------------
(* A step past the lock is local: it changes the locals of its own writer,  *)
(* which keeps its transaction id and the set it was started on.            *)
LocalStep(w) ==
    /\ pc[w] \in CriticalPc /\ pc'[w] \in CriticalPc \cup {"ret"}
    /\ held' = held /\ base' = base
    /\ \A q \in Procs : q # w =>
          pc'[q] = pc[q] /\ job'[q] = job[q] /\ outcome'[q] = outcome[q]
    /\ job'[w].tx = job[w].tx /\ job'[w].want = job[w].want
    /\ pc'[w] \in BeforeTransaction => pc[w] \in BeforeTransaction

\* The ways a step past the lock ends.
LEMMA LocalMoves ==
    ASSUME TypeIInv, NEW w \in Writers
    PROVE  /\ \A l : Goto(w, l) =>
                 /\ pc'[w] = l /\ job' = job /\ outcome' = outcome
                 /\ \A q \in Procs : q # w => pc'[q] = pc[q]
           /\ \A status, state, why : Finish(w, status, state, why) =>
                 /\ pc'[w] = "ret" /\ job' = job
                 /\ outcome'[w] = [status |-> status, state |-> state, why |-> why]
                 /\ \A q \in Procs : q # w => pc'[q] = pc[q] /\ outcome'[q] = outcome[q]
           /\ \A root, controls, l : Advance(w, root, controls, l) =>
                 /\ pc'[w] = l /\ outcome' = outcome
                 /\ job'[w].root = root /\ job'[w].tx = job[w].tx /\ job'[w].want = job[w].want
                 /\ job'[w].old = job[w].old /\ job'[w].effect = job[w].effect
                 /\ \A q \in Procs : q # w => pc'[q] = pc[q] /\ job'[q] = job[q]
           /\ \A j : RollbackAfterCommit(w, j) =>
                 /\ job'[w] = j
                 /\ \A q \in Procs : q # w =>
                       pc'[q] = pc[q] /\ job'[q] = job[q] /\ outcome'[q] = outcome[q]
                 /\ j.root = "backup_removed" =>
                       /\ pc'[w] = "ret" /\ outcome'[w].status = "error"
                       /\ outcome'[w].state = "updated"
                 /\ j.root = "new_installed" => pc'[w] = "rb_uninstall"
                 /\ j.root = "old_moved" =>
                       pc'[w] = IF j.old.kind # "absent" THEN "rb_restore" ELSE "rb_staging"
                 /\ j.root = "staged" => pc'[w] = "rb_staging"
  <1> USE WriterState DEF LocalsOK
  <1>1. \A root, controls : [job EXCEPT ![w].root = root, ![w].ctl = controls]
                             = [job EXCEPT ![w] = [job[w] EXCEPT !.root = root, !.ctl = controls]]
    OBVIOUS
  <1>2. job[w] \in Job
    OBVIOUS
  <1>3. \A root, controls, l : Advance(w, root, controls, l) =>
                 /\ pc'[w] = l /\ outcome' = outcome
                 /\ job'[w].root = root /\ job'[w].tx = job[w].tx /\ job'[w].want = job[w].want
                 /\ job'[w].old = job[w].old /\ job'[w].effect = job[w].effect
                 /\ \A q \in Procs : q # w => pc'[q] = pc[q] /\ job'[q] = job[q]
    <2> TAKE root, controls, l
    <2> HAVE Advance(w, root, controls, l)
    <2> DEFINE j == [job[w] EXCEPT !.root = root, !.ctl = controls]
    <2>1. job' = [job EXCEPT ![w] = j]
      BY <1>1 DEF Advance
    <2>2. /\ j.root = root /\ j.tx = job[w].tx /\ j.want = job[w].want
          /\ j.old = job[w].old /\ j.effect = job[w].effect
      BY <1>2 DEF Job
    <2>3. pc' = [pc EXCEPT ![w] = l] /\ outcome' = outcome
      BY DEF Advance
    <2> HIDE DEF j
    <2> QED BY <2>1, <2>2, <2>3
  <1>4. \A l : Goto(w, l) =>
                 /\ pc'[w] = l /\ job' = job /\ outcome' = outcome
                 /\ \A q \in Procs : q # w => pc'[q] = pc[q]
    BY DEF Goto
  <1>5. \A status, state, why : Finish(w, status, state, why) =>
                 /\ pc'[w] = "ret" /\ job' = job
                 /\ outcome'[w] = [status |-> status, state |-> state, why |-> why]
                 /\ \A q \in Procs : q # w => pc'[q] = pc[q] /\ outcome'[q] = outcome[q]
    BY DEF Finish
  <1>6. \A j : RollbackAfterCommit(w, j) =>
                 /\ job'[w] = j
                 /\ \A q \in Procs : q # w =>
                       pc'[q] = pc[q] /\ job'[q] = job[q] /\ outcome'[q] = outcome[q]
                 /\ j.root = "backup_removed" =>
                       /\ pc'[w] = "ret" /\ outcome'[w].status = "error"
                       /\ outcome'[w].state = "updated"
                 /\ j.root = "new_installed" => pc'[w] = "rb_uninstall"
                 /\ j.root = "old_moved" =>
                       pc'[w] = IF j.old.kind # "absent" THEN "rb_restore" ELSE "rb_staging"
                 /\ j.root = "staged" => pc'[w] = "rb_staging"
    <2> TAKE j
    <2> HAVE RollbackAfterCommit(w, j)
    <2> DEFINE to == IF j.root = "new_installed" THEN "rb_uninstall"
                     ELSE IF j.root = "old_moved" /\ j.old.kind # "absent"
                          THEN "rb_restore" ELSE "rb_staging"
    <2>1. job'[w] = j /\ \A q \in Procs : q # w => job'[q] = job[q]
      BY DEF RollbackAfterCommit
    <2>2. CASE j.root = "backup_removed"
      BY <2>1, <2>2 DEF RollbackAfterCommit
    <2>3. CASE j.root # "backup_removed"
      <3>1. pc' = [pc EXCEPT ![w] = to] /\ outcome' = outcome
        BY <2>3 DEF RollbackAfterCommit
      <3>2. pc'[w] = to /\ \A q \in Procs : q # w => pc'[q] = pc[q]
        BY <3>1
      <3> QED BY <2>1, <2>3, <3>1, <3>2
    <2> QED BY <2>2, <2>3
  <1> QED BY <1>3, <1>4, <1>5, <1>6

LEMMA LocalEnds ==
    ASSUME TypeIInv, NEW w \in Writers, pc[w] \in CriticalPc, held' = held, base' = base
    PROVE  /\ \A l \in CriticalPc :
                 (l \in BeforeTransaction => pc[w] \in BeforeTransaction) =>
                    /\ Goto(w, l) => LocalStep(w)
                    /\ \A root, controls : Advance(w, root, controls, l) => LocalStep(w)
           /\ \A status, state, why : Finish(w, status, state, why) => LocalStep(w)
           /\ CommitFails(w) => LocalStep(w)
           /\ \A x : CommitFailsOwning(w, x) => LocalStep(w)
           /\ \A x : RollbackAfterCommit(w, [job[w] EXCEPT !.ctl = x]) => LocalStep(w)
  <1>1. "ret" \notin BeforeTransaction
    BY DEF BeforeTransaction, LockPc
  <1>2. ASSUME NEW j, RollbackAfterCommit(w, j), j.tx = job[w].tx, j.want = job[w].want
        PROVE  LocalStep(w)
    <2>1. /\ job'[w] = j
          /\ \A q \in Procs : q # w =>
                pc'[q] = pc[q] /\ job'[q] = job[q] /\ outcome'[q] = outcome[q]
      BY <1>2, LocalMoves
    <2>2. pc'[w] \in {"ret", "rb_uninstall", "rb_restore", "rb_staging"}
      BY <1>2, WriterState DEF RollbackAfterCommit, LocalsOK
    <2>3. pc'[w] \in CriticalPc \cup {"ret"} /\ pc'[w] \notin BeforeTransaction
      BY <2>2 DEF CriticalPc, BeforeTransaction, LockPc
    <2> QED BY <1>2, <2>1, <2>3 DEF LocalStep
  <1>3. \A x : /\ [job[w] EXCEPT !.ctl = x].tx = job[w].tx
               /\ [job[w] EXCEPT !.ctl = x].want = job[w].want
    BY WriterState DEF Job
  <1>4. /\ CommitFails(w) => LocalStep(w)
        /\ \A x : CommitFailsOwning(w, x) => LocalStep(w)
        /\ \A x : RollbackAfterCommit(w, [job[w] EXCEPT !.ctl = x]) => LocalStep(w)
    BY <1>2, <1>3 DEF CommitFails, CommitFailsOwning
  <1>5. ASSUME NEW status, NEW state, NEW why, Finish(w, status, state, why)
        PROVE  LocalStep(w)
    <2>1. /\ pc'[w] = "ret" /\ job' = job
          /\ \A q \in Procs : q # w => pc'[q] = pc[q] /\ outcome'[q] = outcome[q]
      BY <1>5, LocalMoves
    <2> QED BY <1>1, <2>1 DEF LocalStep
  <1>6. \A l \in CriticalPc : (l \in BeforeTransaction => pc[w] \in BeforeTransaction) =>
                    /\ Goto(w, l) => LocalStep(w)
                    /\ \A root, controls : Advance(w, root, controls, l) => LocalStep(w)
    BY LocalMoves DEF LocalStep
  <1> QED BY <1>4, <1>5, <1>6

LEMMA RecoveryIsLocal ==
    ASSUME TypeIInv, NEW w \in Writers, RecoveryStep(w)
    PROVE  LocalStep(w)
  <1> USE LocalEnds DEF At, FailsWith, Flush, Skip, Unlink, CriticalPc, BeforeTransaction, LockPc,
              history
  <1>1. CASE RecoverPriorTransaction(w)
    <2>1. CASE Finish(w, "error", "unchanged", "journal_invalid")
                \/ Finish(w, "error", "unchanged", "ambiguous") \/ Goto(w, "inspect")
      BY <1>1, <2>1 DEF RecoverPriorTransaction
    <2>2. CASE /\ RecoveryCase(fs) # "ambiguous" /\ outcome' = outcome
               /\ pc' = [pc EXCEPT ![w] = RecoverEntry[RecoveryCase(fs)]]
               /\ job' = [job EXCEPT ![w].effect = RecoverEffect[RecoveryCase(fs)]]
      <3>1. RecoverEntry[RecoveryCase(fs)] \in {"rc_staging", "rc_rename", "rc_backup"}
        BY <2>2 DEF RecoverEntry, RecoveryCase
      <3>2. pc'[w] \in {"rc_staging", "rc_rename", "rc_backup"}
        BY <2>2, <3>1, WriterState DEF LocalsOK
      <3>3. /\ job'[w].tx = job[w].tx /\ job'[w].want = job[w].want
            /\ \A q \in Procs : q # w => pc'[q] = pc[q] /\ job'[q] = job[q]
        <4> DEFINE j == [job[w] EXCEPT !.effect = RecoverEffect[RecoveryCase(fs)]]
        <4>1. job' = [job EXCEPT ![w] = j]
          BY <2>2
        <4>2. j.tx = job[w].tx /\ j.want = job[w].want
          BY WriterState DEF Job
        <4> HIDE DEF j
        <4> QED BY <2>2, <4>1, <4>2, WriterState DEF LocalsOK
      <3> QED BY <1>1, <2>2, <3>2, <3>3 DEF RecoverPriorTransaction, LocalStep
    <2>3. \/ Finish(w, "error", "unchanged", "journal_invalid")
          \/ Finish(w, "error", "unchanged", "ambiguous") \/ Goto(w, "inspect")
          \/ /\ RecoveryCase(fs) # "ambiguous" /\ outcome' = outcome
             /\ pc' = [pc EXCEPT ![w] = RecoverEntry[RecoveryCase(fs)]]
             /\ job' = [job EXCEPT ![w].effect = RecoverEffect[RecoveryCase(fs)]]
      BY <1>1 DEF RecoverPriorTransaction
    <2> QED BY <2>1, <2>2, <2>3
  <1>2. CASE RecoveryRename(w)        BY <1>2 DEF RecoveryRename
  <1>3. CASE RecoveryRenameFlush(w)   BY <1>3 DEF RecoveryRenameFlush
  <1>4. CASE RecoveryStaging(w)       BY <1>4 DEF RecoveryStaging, UnlinkStaging
  <1>5. CASE RecoveryStagingFlush(w)  BY <1>5 DEF RecoveryStagingFlush
  <1>6. CASE RecoveryBackup(w)        BY <1>6 DEF RecoveryBackup, UnlinkBackup
  <1>7. CASE RecoveryBackupFlush(w)   BY <1>7 DEF RecoveryBackupFlush
  <1>8. CASE RecoveryTemporary(w)     BY <1>8 DEF RecoveryTemporary
  <1>9. CASE RecoveryJournal(w)       BY <1>9 DEF RecoveryJournal
  <1>10. CASE RecoveryFlush(w)        BY <1>10 DEF RecoveryFlush
  <1> QED
    BY <1>1, <1>2, <1>3, <1>4, <1>5, <1>6, <1>7, <1>8, <1>9, <1>10 DEF RecoveryStep

LEMMA StagingIsLocal ==
    ASSUME TypeIInv, NEW w \in Writers, StagingStep(w)
    PROVE  LocalStep(w)
  <1> USE LocalEnds DEF At, FailsWith, Unlink, CriticalPc, BeforeTransaction, LockPc, history
  <1>1. CASE InspectOutput(w)
    <2>1. CASE ReplaceOutput(w)
      <3>1. pc'[w] = "mk_staging" /\ \A q \in Procs : q # w => pc'[q] = pc[q]
        BY <2>1, WriterState DEF ReplaceOutput, LocalsOK
      <3>2. /\ job'[w].tx = job[w].tx /\ job'[w].want = job[w].want
            /\ \A q \in Procs : q # w => job'[q] = job[q]
        <4> DEFINE j == [job[w] EXCEPT !.old = JournalOldRoot(fs.out)]
        <4>1. job' = [job EXCEPT ![w] = j]
          BY <2>1 DEF ReplaceOutput
        <4>2. j.tx = job[w].tx /\ j.want = job[w].want
          BY WriterState DEF Job
        <4> HIDE DEF j
        <4> QED BY <4>1, <4>2, WriterState DEF LocalsOK
      <3>3. outcome' = outcome
        BY <2>1 DEF ReplaceOutput
      <3> QED BY <1>1, <3>1, <3>2, <3>3 DEF InspectOutput, LocalStep
    <2>2. CASE ~ReplaceOutput(w)
      BY <1>1, <2>2 DEF InspectOutput
    <2> QED BY <2>1, <2>2
  <1>2. CASE MakeStaging(w)                 BY <1>2 DEF MakeStaging
  <1>3. CASE FillStaging(w)                 BY <1>3 DEF FillStaging, StagingFails
  <1>4. CASE FlushStaging(w)                BY <1>4 DEF FlushStaging, StagingFails
  <1>5. CASE CleanupFailedStaging(w)        BY <1>5 DEF CleanupFailedStaging, UnlinkStaging
  <1>6. CASE CleanupFailedStagingFlush(w)   BY <1>6 DEF CleanupFailedStagingFlush
  <1> QED
    BY <1>1, <1>2, <1>3, <1>4, <1>5, <1>6 DEF StagingStep

LEMMA CommitIsLocal ==
    ASSUME TypeIInv, NEW w \in Writers, CommitStep(w)
    PROVE  LocalStep(w)
  <1> USE LocalEnds DEF At, CommitFlush, CriticalPc, BeforeTransaction, LockPc, history
  <1>1. CASE JournalCreate(w)           BY <1>1 DEF JournalCreate
  <1>2. CASE JournalWrite(w)            BY <1>2 DEF JournalWrite
  <1>3. CASE JournalFlush(w)            BY <1>3 DEF JournalFlush
  <1>4. CASE MoveOldRoot(w)             BY <1>4 DEF MoveOldRoot
  <1>5. CASE MoveOldRootFlush(w)        BY <1>5 DEF MoveOldRootFlush
  <1>6. CASE OldMovedTemporary(w)       BY <1>6 DEF OldMovedTemporary, JournalTemporary
  <1>7. CASE OldMovedReplace(w)         BY <1>7 DEF OldMovedReplace, JournalReplace
  <1>8. CASE OldMovedFlush(w)           BY <1>8 DEF OldMovedFlush
  <1>9. CASE InstallNewRoot(w)          BY <1>9 DEF InstallNewRoot
  <1>10. CASE InstallNewRootFlush(w)    BY <1>10 DEF InstallNewRootFlush
  <1>11. CASE NewInstalledTemporary(w)  BY <1>11 DEF NewInstalledTemporary, JournalTemporary
  <1>12. CASE NewInstalledReplace(w)    BY <1>12 DEF NewInstalledReplace, JournalReplace
  <1>13. CASE NewInstalledFlush(w)      BY <1>13 DEF NewInstalledFlush
  <1>14. CASE RemoveBackup(w)           BY <1>14 DEF RemoveBackup
  <1>15. CASE FinishRemoveBackup(w)     BY <1>15 DEF FinishRemoveBackup
  <1>16. CASE RemoveBackupFlush(w)      BY <1>16 DEF RemoveBackupFlush
  <1>17. CASE RemoveJournal(w)          BY <1>17 DEF RemoveJournal
  <1>18. CASE RemoveJournalFlush(w)     BY <1>18 DEF RemoveJournalFlush
  <1> QED
    BY <1>1, <1>2, <1>3, <1>4, <1>5, <1>6, <1>7, <1>8, <1>9, <1>10, <1>11, <1>12,
       <1>13, <1>14, <1>15, <1>16, <1>17, <1>18 DEF CommitStep

LEMMA RollbackIsLocal ==
    ASSUME TypeIInv, NEW w \in Writers, RollbackStep(w)
    PROVE  LocalStep(w)
  <1> USE LocalEnds DEF At, FailsWith, Flush, Skip, Unlink, CriticalPc, BeforeTransaction, LockPc,
              history
  <1>1. CASE RollbackUninstall(w)        BY <1>1 DEF RollbackUninstall
  <1>2. CASE RollbackUninstallFlush(w)   BY <1>2 DEF RollbackUninstallFlush
  <1>3. CASE RollbackRestore(w)          BY <1>3 DEF RollbackRestore
  <1>4. CASE RollbackRestoreFlush(w)     BY <1>4 DEF RollbackRestoreFlush
  <1>5. CASE RollbackStaging(w)          BY <1>5 DEF RollbackStaging, UnlinkStaging
  <1>6. CASE RollbackTemporary(w)        BY <1>6 DEF RollbackTemporary
  <1>7. CASE RollbackJournal(w)          BY <1>7 DEF RollbackJournal
  <1>8. CASE RollbackFlush(w)            BY <1>8 DEF RollbackFlush
  <1> QED
    BY <1>1, <1>2, <1>3, <1>4, <1>5, <1>6, <1>7, <1>8 DEF RollbackStep

\* ... and the steps that validate or initialize the lock file.
LEMMA LockRecordIsLocal ==
    ASSUME TypeIInv, NEW w \in Writers, ReadLock(w) \/ InitializeLock(w) \/ FlushLock(w)
    PROVE  LocalStep(w)
  <1> USE LocalEnds DEF At, FailsWith, Flush, CriticalPc, BeforeTransaction, LockPc, history
  <1>1. CASE ReadLock(w)         BY <1>1 DEF ReadLock
  <1>2. CASE InitializeLock(w)   BY <1>2 DEF InitializeLock
  <1>3. CASE FlushLock(w)        BY <1>3 DEF FlushLock
  <1> QED BY <1>1, <1>2, <1>3
-----------------------------------------------------------------------------
(* What a step past the lock leaves at the place it goes to.                *)

\* The one step after which a new record may be found.
RecordStep(w) ==
    /\ pc[w] = "journal_write" /\ DiskIInv' /\ (fs.lock # "none" => fs'.lock # "none")
    /\ \A f \in durable' : Journaled(f) => f.journal.tx = job[w].tx

StepKeeps(w) == (DiskStep \/ RecordStep(w)) /\ WriterAt(w)'

\* The tree the output settles to, once nothing waits to be put back.
LEMMA SettledOut ==
    ASSUME TypeIInv, NEW f \in Entries, Coherent(f)
    PROVE  /\ ~Journaled(f) => SettledRoot(f) = f.out
           /\ Journaled(f) /\ (f.out # Absent \/ f.backup[f.journal.tx] = Absent) =>
                 SettledRoot(f) = f.out
           /\ Moved(f) /\ Journaled(f) => SettledRoot(f) = f.backup[f.journal.tx]
  <1>1. ~Journaled(f) => SettledRoot(f) = f.out
    BY DEF Journaled, SettledRoot
  <1>2. ASSUME Journaled(f)
        PROVE  /\ f.journal.tx \in TxId /\ Replaced(f) \in Tree
               /\ f.journal.old.kind = "absent" <=> Replaced(f) = Absent
               /\ Planned(f) # Absent
    BY <1>2, RecordTypes, OldKinds, CompleteTrees DEF Coherent, Planned
  <1>3. ASSUME Journaled(f), f.out # Absent \/ f.backup[f.journal.tx] = Absent
        PROVE  SettledRoot(f) = f.out
    <2>1. CASE f.out # Absent
      BY <2>1 DEF SettledRoot
    <2>2. CASE f.out = Absent /\ f.backup[f.journal.tx] = Absent
      BY <1>2, <1>3, <2>2, LooseFacts DEF SettledRoot, Coherent, Kept, Moved, Installed
    <2> QED BY <1>3, <2>1, <2>2
  <1>4. ASSUME Journaled(f), Moved(f)
        PROVE  SettledRoot(f) = f.backup[f.journal.tx]
    BY <1>2, <1>4 DEF Moved, SettledRoot, Journaled
  <1> QED BY <1>1, <1>3, <1>4

\* A result is reported: what it claims has to hold of the disk.
LEMMA ReportsAt ==
    ASSUME TypeIInv, NEW w \in Writers, NEW status, NEW state, NEW why,
           Finish(w, status, state, why),
           fs' = fs, prior' = prior, base' = base,
           status \in {"written", "unchanged"} => fs.out = New(w) /\ fs.journal = NoFile,
           status = "written" => durable' = {fs},
           state = "updated" => Whole(fs.out),
           ~TornErrors =>
              /\ status = "error" /\ state \in {"unchanged", "restored"} =>
                    SettledRoot(fs) = base[w]
              /\ state = "indeterminate" =>
                    Journaled(fs) /\ SettledRoot(fs) \in {Replaced(fs), Planned(fs)}
    PROVE  WriterAt(w)'
  <1>1. /\ pc'[w] = "ret" /\ job' = job
        /\ outcome'[w].status = status /\ outcome'[w].state = state
    <2>1. /\ pc'[w] = "ret" /\ job' = job
          /\ outcome'[w] = [status |-> status, state |-> state, why |-> why]
      BY LocalMoves
    <2> QED BY <2>1
  <1>2. ReportAt(w)'
    <2>1. /\ Whole(fs.out)' = Whole(fs.out) /\ SettledRoot(fs)' = SettledRoot(fs)
          /\ Journaled(fs)' = Journaled(fs) /\ Replaced(fs)' = Replaced(fs)
          /\ Planned(fs)' = Planned(fs)
      BY DEF Whole, SettledRoot, Journaled, Replaced, Planned
    <2>2. Complete(job[w].want)' = New(w)
      BY <1>1 DEF New
    <2> QED BY <1>1, <2>1, <2>2 DEF ReportAt
  <1>3. RecoveringAt(w)' /\ CommittingAt(w)' /\ ProgressAt(w)' /\ UndoingAt(w)'
    BY <1>1 DEF RecoveringAt, CommittingAt, ProgressAt, UndoingAt,
       LockPc, FindingPc, ResolvedPc, ClearedPc, StagingPc, StagedPc, OldMovedPc, NewInstalledPc,
       BackupRemovedPc, UndoingPc, UndonePc, CommittingPc, ReplacingPc, SyncedPc, BeforeTransaction
  <1> QED BY <1>2, <1>3 DEF WriterAt

\* The writer past its lock owns it, and its transaction has not begun.
RecoveryPc == ResolvedPc \cup {"rc_backup", "rc_flush", "inspect", "unstage", "unstage_flush"}

LEMMA ArrivesRecovering ==
    ASSUME NEW w \in Writers, pc'[w] \in RecoveryPc,
           job'[w].root = "staged" \/ pc'[w] \in {"unstage", "unstage_flush"},
           fs'.out = base'[w], job'[w].effect = "updated" => Whole(fs'.out),
           pc'[w] \in ResolvedPc => fs'.backup[fs'.journal.tx] = Absent,
           pc'[w] = "rc_backup" => Installed(fs)',
           pc'[w] \in ClearedPc => fs'.journal = NoFile
    PROVE  WriterAt(w)'
  <1>1. RecoveringAt(w)'
    BY DEF RecoveringAt, RecoveryPc, ResolvedPc, ClearedPc, FindingPc, Whole
  <1>2. CommittingAt(w)' /\ ProgressAt(w)' /\ UndoingAt(w)' /\ ReportAt(w)'
    BY DEF CommittingAt, ProgressAt, UndoingAt, ReportAt, Reporting, RecoveryPc, ResolvedPc,
       LockPc, StagingPc, StagedPc, OldMovedPc, NewInstalledPc, BackupRemovedPc, UndoingPc,
       UndonePc, CommittingPc, ReplacingPc, SyncedPc, BeforeTransaction
  <1> QED BY <1>1, <1>2 DEF WriterAt

\* A recovery step fails, with everything it undertook already on disk.
LEMMA RecoveryReports ==
    ASSUME TypeIInv, DiskIInv, NEW w \in Writers, NEW why,
           Finish(w, "error", EffectState(w), why),
           fs' = fs, prior' = prior, base' = base,
           fs.out = base[w], job[w].effect = "updated" => Whole(fs.out),
           Journaled(fs) => fs.out # Absent \/ fs.backup[fs.journal.tx] = Absent
    PROVE  WriterAt(w)'
  <1>1. SettledRoot(fs) = base[w]
    BY SettledOut, WriterState DEF DiskIInv
  <1>2. EffectState(w) # "indeterminate" /\ (EffectState(w) = "updated" => Whole(fs.out))
    BY WriterState, JobTypes DEF EffectState, Effect
  <1> QED BY <1>1, <1>2, ReportsAt

LEMMA RecoverPriorTransactionKeeps ==
    ASSUME RegistrationIInv, NEW w \in Writers, RecoverPriorTransaction(w),
           invocations' = invocations
    PROVE  StepKeeps(w)
  <1> USE WriterState DEF RegistrationIInv
  <1>1. /\ pc[w] = "recover" /\ SettledRoot(fs) = base[w] /\ job[w].effect = "none"
        /\ job[w].root = "staged"
    BY DEF RecoverPriorTransaction, At, WriterAt, RecoveringAt, ProgressAt, FindingPc,
           BeforeTransaction
  <1>2. /\ fs' = fs /\ durable' = durable /\ prior' = prior /\ base' = base /\ acked' = acked
    BY DEF RecoverPriorTransaction, disk, history
  <1>3. DiskStep
    BY <1>2, QuietDisk
  <1>4. Coherent(fs)
    BY DEF DiskIInv
  <1>5. CASE fs.journal = NoFile /\ Goto(w, "inspect")
    <2>1. fs.out = base[w]
      BY <1>1, <1>4, <1>5, SettledOut DEF Journaled, NoFile
    <2>2. pc'[w] = "inspect" /\ job' = job
      BY <1>5, LocalMoves
    <2>3. WriterAt(w)'
      BY <1>1, <1>2, <1>5, <2>1, <2>2, ArrivesRecovering DEF RecoveryPc, ResolvedPc
    <2> QED BY <1>3, <2>3 DEF StepKeeps
  <1>6. CASE Finish(w, "error", "unchanged", "journal_invalid")
               \/ Finish(w, "error", "unchanged", "ambiguous")
    <2>1. WriterAt(w)'
      BY <1>1, <1>2, <1>6, ReportsAt
    <2> QED BY <1>3, <2>1 DEF StepKeeps
  <1>7. CASE /\ Journaled(fs) /\ RecoveryCase(fs) # "ambiguous" /\ outcome' = outcome
             /\ pc' = [pc EXCEPT ![w] = RecoverEntry[RecoveryCase(fs)]]
             /\ job' = [job EXCEPT ![w].effect = RecoverEffect[RecoveryCase(fs)]]
    <2>1. /\ pc'[w] = RecoverEntry[RecoveryCase(fs)]
          /\ job'[w].effect = RecoverEffect[RecoveryCase(fs)] /\ job'[w].root = "staged"
      <3> DEFINE j == [job[w] EXCEPT !.effect = RecoverEffect[RecoveryCase(fs)]]
      <3>1. job' = [job EXCEPT ![w] = j]
        BY <1>7
      <3>2. j.effect = RecoverEffect[RecoveryCase(fs)] /\ j.root = job[w].root
        BY DEF Job
      <3> HIDE DEF j
      <3> QED BY <1>1, <1>7, <3>1, <3>2 DEF LocalsOK
    <2>2. CASE RecoveryCase(fs) = "keep_old"
      <3>1. fs.backup[fs.journal.tx] = Absent /\ fs.out = base[w]
        BY <1>1, <1>4, <1>7, <2>2, RecoveryProves
      <3>2. pc'[w] = "rc_staging" /\ job'[w].effect = "restored"
        BY <2>1, <2>2 DEF RecoverEntry, RecoverEffect
      <3>3. WriterAt(w)'
        BY <1>2, <2>1, <3>1, <3>2, ArrivesRecovering DEF RecoveryPc, ResolvedPc, ClearedPc
      <3> QED BY <1>3, <3>3 DEF StepKeeps
    <2>3. CASE RecoveryCase(fs) = "keep_new"
      <3>1. Installed(fs) /\ fs.out = base[w]
        BY <1>1, <1>4, <1>7, <2>3, RecoveryProves
      <3>2. pc'[w] = "rc_backup" /\ job'[w].effect = "updated"
        BY <2>1, <2>3 DEF RecoverEntry, RecoverEffect
      <3>3. Installed(fs)' /\ Whole(fs'.out)
        BY <1>2, <1>7, <3>1, RecordTypes DEF Installed, Replaced, Planned, Whole
      <3>4. WriterAt(w)'
        BY <1>2, <2>1, <3>1, <3>2, <3>3, ArrivesRecovering DEF RecoveryPc, ResolvedPc, ClearedPc
      <3> QED BY <1>3, <3>4 DEF StepKeeps
    <2>4. CASE RecoveryCase(fs) = "restore_old"
      <3>1. Moved(fs) /\ fs.backup[fs.journal.tx] = base[w] /\ base[w] = Replaced(fs)
        BY <1>1, <1>4, <1>7, <2>4, RecoveryProves
      <3>2. pc'[w] = "rc_rename" /\ job'[w].effect = "restored"
        BY <2>1, <2>4 DEF RecoverEntry, RecoverEffect
      <3>3. Moved(fs)' /\ Replaced(fs)' = Replaced(fs)
        BY <1>2, <3>1 DEF Moved, Replaced, Planned
      <3>4. RecoveringAt(w)'
        BY <1>2, <3>1, <3>2, <3>3 DEF RecoveringAt, FindingPc, ResolvedPc, ClearedPc
      <3>5. CommittingAt(w)' /\ ProgressAt(w)' /\ UndoingAt(w)' /\ ReportAt(w)'
        BY <2>1, <3>2 DEF CommittingAt, ProgressAt, UndoingAt, ReportAt, Reporting,
           LockPc, StagingPc, StagedPc, OldMovedPc, NewInstalledPc, BackupRemovedPc, UndoingPc,
           UndonePc, CommittingPc, ReplacingPc, SyncedPc, BeforeTransaction
      <3> QED BY <1>3, <3>4, <3>5 DEF StepKeeps, WriterAt
    <2> QED BY <1>4, <1>7, <2>2, <2>3, <2>4, RecoveryProves
  <1> QED BY <1>5, <1>6, <1>7 DEF RecoverPriorTransaction, Journaled

-----------------------------------------------------------------------------
(* The effects several steps share.                                         *)

\* Only the trees of the transaction a record names are ever out of place.
LEMMA SameParticipants ==
    ASSUME TypeIInv, NEW f \in Entries, Coherent(f), NEW g, g.journal = f.journal, g.out = f.out,
           g.backup = f.backup, Journaled(f) => g.staging[f.journal.tx] = f.staging[f.journal.tx]
    PROVE  Coherent(g)
  BY DEF Coherent, Journaled, Replaced, Planned, Kept, Moved, Installed

LEMMA TemporaryChanges ==
    ASSUME TypeIInv, DiskIInv, NEW n \in TxId, NEW j, Mutate([fs EXCEPT !.temporary[n] = j]),
           prior' = prior, invocations' = invocations, acked' = acked
    PROVE  /\ DiskStep /\ fs'.journal = fs.journal /\ fs'.out = fs.out /\ fs'.backup = fs.backup
           /\ fs'.staging = fs.staging /\ fs'.temporary[n] = j
  <1> DEFINE g == [fs EXCEPT !.temporary[n] = j]
  <1>1. fs \in Entries /\ Coherent(fs)
    BY DEF TypeIInv, TypeOK, DiskIInv
  <1>2. /\ g.lock = fs.lock /\ g.journal = fs.journal /\ g.out = fs.out /\ g.backup = fs.backup
        /\ g.staging = fs.staging /\ g.temporary[n] = j
    BY <1>1 DEF Entries
  <1> HIDE DEF g
  <1>3. Coherent(g)
    BY <1>1, <1>2, SameParticipants
  <1>4. Mutate(g)
    BY DEF g
  <1>5. DiskStep
    BY <1>2, <1>3, <1>4, SameOutput DEF Journaled, SameTransaction
  <1> QED BY <1>2, <1>4, <1>5 DEF Mutate

\* The journal goes once its backup is gone.
LEMMA JournalRemoved ==
    ASSUME TypeIInv, DiskIInv, Mutate([fs EXCEPT !.journal = NoFile]),
           Journaled(fs) => fs.backup[fs.journal.tx] = Absent,
           prior' = prior, invocations' = invocations, acked' = acked
    PROVE  /\ DiskStep /\ fs'.journal = NoFile /\ fs'.out = fs.out
           /\ \A n \in TxId : fs'.backup[n] = Absent
  <1> DEFINE g == [fs EXCEPT !.journal = NoFile]
  <1>1. fs \in Entries /\ Coherent(fs)
    BY DEF TypeIInv, TypeOK, DiskIInv
  <1>2. /\ g.lock = fs.lock /\ g.journal = NoFile /\ g.out = fs.out /\ g.backup = fs.backup
        /\ ~Journaled(g)
    BY <1>1, JournalTypes DEF Journaled, Entries
  <1> HIDE DEF g
  <1>3. \A n \in TxId : fs.backup[n] = Absent
    BY <1>1 DEF Coherent
  <1>4. Coherent(g)
    BY <1>2, <1>3 DEF Coherent
  <1>5. Journaled(fs) => fs.out \in Loose(Replaced(fs)) \cup {Planned(fs)}
    BY <1>1, LooseFacts, RecordTypes DEF Coherent, Kept, Moved, Installed
  <1>6. Mutate(g)
    BY DEF g
  <1>7. DiskStep
    BY <1>2, <1>4, <1>5, <1>6, SameOutput
  <1> QED BY <1>2, <1>3, <1>6, <1>7 DEF Mutate

\* A staging directory is removed entry by entry while the old root stands.
LEMMA StagingUnlinked ==
    ASSUME TypeIInv, DiskIInv, NEW w, NEW n \in TxId, NEW to, UnlinkStaging(w, n, to),
           Journaled(fs) => fs.journal.tx = n /\ Kept(fs),
           prior' = prior, invocations' = invocations, acked' = acked
    PROVE  /\ DiskStep /\ fs'.journal = fs.journal /\ fs'.out = fs.out /\ fs'.backup = fs.backup
           /\ fs'.temporary = fs.temporary
           /\ Goto(w, pc[w]) \/ Goto(w, to)
  <1>1. fs \in Entries /\ Coherent(fs) /\ fs.staging[n] \in Tree
    BY EntryTypes DEF TypeIInv, TypeOK, DiskIInv
  <1>2. PICK t \in Remains(fs.staging[n]) \cup {Absent} : Mutate([fs EXCEPT !.staging[n] = t])
    BY DEF UnlinkStaging, Unlink
  <1> DEFINE g == [fs EXCEPT !.staging[n] = t]
  <1>3. /\ g.lock = fs.lock /\ g.journal = fs.journal /\ g.out = fs.out /\ g.backup = fs.backup
        /\ g.staging[n] = t /\ g.temporary = fs.temporary
    BY <1>1 DEF Entries
  <1>4. Mutate(g)
    BY <1>2
  <1> HIDE DEF g
  <1>5. ASSUME Journaled(fs)
        PROVE  Kept(g)
    <2>1. Kept(fs) /\ fs.staging[n] # Absent /\ Planned(fs) \in Tree /\ fs.journal.tx = n
      BY <1>1, <1>5, RecordTypes DEF UnlinkStaging
    <2>2. t \in {Absent} \cup Remains(Planned(fs))
      BY <1>2, <2>1, RemainsFacts DEF Kept
    <2> QED BY <1>3, <2>1, <2>2 DEF Kept, Replaced, Planned
  <1>6. Coherent(g)
    BY <1>1, <1>3, <1>5 DEF Coherent, Journaled, Replaced, Planned
  <1>7. DiskStep
    BY <1>3, <1>4, <1>6, SameOutput DEF Journaled, SameTransaction
  <1>8. Goto(w, pc[w]) \/ Goto(w, to)
    BY DEF UnlinkStaging, Unlink
  <1> QED BY <1>3, <1>4, <1>7, <1>8 DEF Mutate

\* A backup is removed entry by entry while the new root is installed.
LEMMA BackupChanges ==
    ASSUME TypeIInv, DiskIInv, Journaled(fs), Installed(fs),
           NEW t \in {Absent} \cup Remains(fs.backup[fs.journal.tx]),
           Mutate([fs EXCEPT !.backup[fs.journal.tx] = t]),
           prior' = prior, invocations' = invocations, acked' = acked
    PROVE  /\ DiskStep /\ fs'.journal = fs.journal /\ fs'.out = fs.out
           /\ fs'.backup[fs.journal.tx] = t /\ Installed(fs)'
  <1> DEFINE n == fs.journal.tx
             g == [fs EXCEPT !.backup[n] = t]
  <1>1. fs \in Entries /\ Coherent(fs) /\ n \in TxId /\ Replaced(fs) \in Tree
    BY RecordTypes DEF TypeIInv, TypeOK, DiskIInv
  <1>2. /\ g.lock = fs.lock /\ g.journal = fs.journal /\ g.out = fs.out /\ g.staging = fs.staging
        /\ g.backup[n] = t
        /\ \A m \in TxId : m # n => g.backup[m] = fs.backup[m]
    BY <1>1 DEF Entries
  <1>3. Mutate(g)
    OBVIOUS
  <1> HIDE DEF g
  <1>4. t \in {Absent} \cup Remains(Replaced(fs))
    <2>1. Remains(Absent) = {}
      BY TreeTypes, RemainsOf
    <2> QED BY <1>1, <2>1, RemainsFacts DEF Installed
  <1>5. Installed(g)
    BY <1>2, <1>4 DEF Installed, Replaced, Planned
  <1>6. Coherent(g)
    BY <1>1, <1>2, <1>5 DEF Coherent, Journaled, Replaced, Planned
  <1>7. DiskStep
    BY <1>2, <1>3, <1>6, SameOutput DEF Journaled, SameTransaction
  <1>8. fs' = g
    BY <1>3 DEF Mutate
  <1>9. Installed(fs)'
    BY <1>5, <1>8 DEF Installed, Replaced, Planned
  <1> QED BY <1>2, <1>7, <1>8, <1>9
-----------------------------------------------------------------------------
(* recover_prior_transaction, effect by effect.                             *)

\* What the resolved recovery steps share.
LEMMA ResolvedState ==
    ASSUME RegistrationIInv, NEW w \in Writers, pc[w] \in ResolvedPc \cup {"rc_backup", "rc_flush"}
    PROVE  /\ fs \in Entries /\ Coherent(fs) /\ w \in Procs
           /\ fs.out = base[w] /\ (job[w].effect = "updated" => Whole(fs.out))
           /\ job[w].root = "staged"
           /\ pc[w] \in ResolvedPc => fs.backup[fs.journal.tx] = Absent
           /\ pc[w] = "rc_backup" => Installed(fs)
           /\ pc[w] = "rc_flush" => fs.journal = NoFile
           /\ pc[w] # "rc_flush" => Journaled(fs) /\ fs.journal.tx \in TxId
           /\ Journaled(fs) => fs.out # Absent \/ fs.backup[fs.journal.tx] = Absent
  <1>1. fs \in Entries /\ Coherent(fs) /\ w \in Procs
    BY WriterState DEF RegistrationIInv, DiskIInv
  <1>2. /\ fs.out = base[w] /\ (job[w].effect = "updated" => Whole(fs.out))
        /\ job[w].root = "staged"
        /\ pc[w] \in ResolvedPc => fs.backup[fs.journal.tx] = Absent
        /\ pc[w] = "rc_backup" => Installed(fs)
        /\ pc[w] = "rc_flush" => fs.journal = NoFile
    BY DEF RegistrationIInv, WriterAt, RecoveringAt, ProgressAt, ResolvedPc, ClearedPc,
           BeforeTransaction
  <1>3. pc[w] # "rc_flush" => Journaled(fs)
    BY DEF RegistrationIInv, TypeIInv, RecoveryHasJournal, RecoveringPc, ResolvedPc, Journaled
  <1>4. Journaled(fs) => fs.journal.tx \in TxId /\ Planned(fs) # Absent
    BY <1>1, RecordTypes, CompleteTrees DEF RegistrationIInv, Planned
  <1>5. Journaled(fs) => fs.out # Absent \/ fs.backup[fs.journal.tx] = Absent
    BY <1>2, <1>3, <1>4 DEF Installed, Journaled, NoFile
  <1> QED BY <1>1, <1>2, <1>3, <1>4, <1>5

LEMMA RecoveryRenameKeeps ==
    ASSUME RegistrationIInv, NEW w \in Writers, RecoveryRename(w), invocations' = invocations
    PROVE  StepKeeps(w)
  <1> USE DEF RegistrationIInv
  <1> DEFINE n == fs.journal.tx
             g == [fs EXCEPT !.out = fs.backup[n], !.backup[n] = Absent]
  <1>1. /\ Moved(fs) /\ base[w] = Replaced(fs) /\ fs.backup[n] = base[w]
        /\ job[w].effect = "restored" /\ job[w].root = "staged" /\ Journaled(fs)
    BY DEF RecoveryRename, At, WriterAt, RecoveringAt, ProgressAt, BeforeTransaction,
           TypeIInv, RecoveryHasJournal, RecoveringPc, Journaled
  <1>2. /\ prior' = prior /\ base' = base /\ acked' = acked
        /\ fs \in Entries /\ Coherent(fs) /\ n \in TxId /\ w \in Procs
    BY <1>1, WriterState, RecordTypes DEF RecoveryRename, history, DiskIInv
  <1>3. CASE Mutate(g) /\ Goto(w, "rc_rename_flush")
    <2>1. /\ g.journal = fs.journal /\ g.lock = fs.lock /\ g.out = base[w] /\ g.backup[n] = Absent
          /\ g.staging = fs.staging /\ \A m \in TxId : m # n => g.backup[m] = fs.backup[m]
      BY <1>1, <1>2 DEF Entries
    <2>2. Mutate(g)
      BY <1>3
    <2> HIDE DEF g
    <2>3. Kept(g)
      BY <1>1, <2>1, LooseFacts, <1>2, RecordTypes DEF Kept, Moved, Replaced, Planned
    <2>4. Coherent(g)
      BY <1>1, <1>2, <2>1, <2>3 DEF Coherent, Journaled, Replaced, Planned
    <2>5. DiskStep
      BY <1>1, <1>2, <2>1, <2>2, <2>4, MovedOutput DEF Moved
    <2>6. pc'[w] = "rc_rename_flush" /\ job' = job /\ fs' = g
      BY <1>3, <2>2, LocalMoves DEF Mutate
    <2>7. WriterAt(w)'
      BY <1>1, <1>2, <2>1, <2>6, ArrivesRecovering DEF RecoveryPc, ResolvedPc, ClearedPc
    <2> QED BY <2>5, <2>7 DEF StepKeeps
  <1>4. CASE FailsWith(w, "indeterminate")
    <2>1. fs' = fs /\ durable' = durable
      BY <1>4 DEF FailsWith, disk
    <2>2. SettledRoot(fs) = Replaced(fs)
      BY <1>1, <1>2, SettledOut
    <2>3. WriterAt(w)'
      BY <1>1, <1>2, <1>4, <2>1, <2>2, ReportsAt DEF FailsWith
    <2> QED BY <1>2, <2>1, <2>3, QuietDisk DEF StepKeeps
  <1> QED BY <1>3, <1>4 DEF RecoveryRename

LEMMA RecoveryRenameFlushKeeps ==
    ASSUME RegistrationIInv, NEW w \in Writers, RecoveryRenameFlush(w), invocations' = invocations
    PROVE  StepKeeps(w)
  <1>1. /\ pc[w] = "rc_rename_flush"
        /\ durable' = durable \/ durable' = {fs}
        /\ prior' = prior /\ base' = base /\ acked' = acked
    BY DEF RecoveryRenameFlush, Flush, At, FailsWith, SyncParent, disk, history
  <1>2. fs' = fs
    BY DEF RecoveryRenameFlush, Flush, FailsWith, SyncParent, disk
  <1>3. DiskStep
    BY <1>1, <1>2, QuietDisk DEF RegistrationIInv
  <1>4. /\ fs \in Entries /\ Coherent(fs) /\ fs.out = base[w] /\ Journaled(fs)
        /\ fs.backup[fs.journal.tx] = Absent /\ job[w].root = "staged"
        /\ job[w].effect = "updated" => Whole(fs.out)
    BY <1>1, ResolvedState DEF ResolvedPc
  <1>5. CASE Goto(w, "rc_staging")
    <2>1. pc'[w] = "rc_staging" /\ job' = job
      BY <1>5, LocalMoves DEF RegistrationIInv
    <2>2. WriterAt(w)'
      BY <1>1, <1>2, <1>4, <2>1, ArrivesRecovering DEF RecoveryPc, ResolvedPc, ClearedPc
    <2> QED BY <1>3, <2>2 DEF StepKeeps
  <1>6. CASE Finish(w, "error", "indeterminate", "io")
    <2>1. fs.out \in Loose(Replaced(fs)) \cup {Planned(fs)} /\ SettledRoot(fs) = fs.out
      <3>1. Replaced(fs) \in Tree
        BY <1>4, RecordTypes DEF RegistrationIInv
      <3>2. ~Moved(fs)
        BY <1>4, <3>1, LooseFacts DEF Moved
      <3> QED BY <1>4, <3>2, SettledOut DEF Coherent, Kept, Installed, RegistrationIInv
    <2>2. ~TornErrors => SettledRoot(fs) \in {Replaced(fs), Planned(fs)}
      BY <2>1 DEF Loose
    <2>3. WriterAt(w)'
      BY <1>1, <1>2, <1>4, <1>6, <2>2, ReportsAt DEF RegistrationIInv
    <2> QED BY <1>3, <2>3 DEF StepKeeps
  <1> QED BY <1>5, <1>6 DEF RecoveryRenameFlush, Flush, FailsWith

\* A resolved recovery step fails, or moves on with the output in place.
LEMMA ResolvedFails ==
    ASSUME RegistrationIInv, NEW w \in Writers, FailsWith(w, EffectState(w)),
           pc[w] \in ResolvedPc \cup {"rc_backup", "rc_flush"},
           UNCHANGED history, invocations' = invocations
    PROVE  StepKeeps(w)
  <1>1. /\ fs' = fs /\ durable' = durable /\ prior' = prior /\ base' = base /\ acked' = acked
        /\ Finish(w, "error", EffectState(w), "io")
    BY DEF FailsWith, disk, history
  <1>2. DiskStep
    BY <1>1, QuietDisk DEF RegistrationIInv
  <1>3. WriterAt(w)'
    BY <1>1, ResolvedState, RecoveryReports DEF RegistrationIInv
  <1> QED BY <1>2, <1>3 DEF StepKeeps

LEMMA ResolvedMoves ==
    ASSUME RegistrationIInv, NEW w \in Writers, DiskStep, base' = base, fs'.out = fs.out,
           pc[w] \in ResolvedPc \cup {"rc_backup", "rc_flush"}, NEW l \in RecoveryPc, Goto(w, l),
           l \in ResolvedPc => fs'.backup[fs'.journal.tx] = Absent,
           l = "rc_backup" => Installed(fs)',
           l \in ClearedPc => l # "unstage" /\ l # "unstage_flush" /\ fs'.journal = NoFile
    PROVE  StepKeeps(w)
  <1>1. pc'[w] = l /\ job' = job
    BY LocalMoves DEF RegistrationIInv
  <1>2. /\ fs.out = base[w] /\ (job[w].effect = "updated" => Whole(fs.out))
        /\ job[w].root = "staged"
    BY ResolvedState
  <1>3. WriterAt(w)'
    BY <1>1, <1>2, ArrivesRecovering
  <1> QED BY <1>3 DEF StepKeeps

LEMMA RecoveryStagingKeeps ==
    ASSUME RegistrationIInv, NEW w \in Writers, RecoveryStaging(w), invocations' = invocations
    PROVE  StepKeeps(w)
  <1> DEFINE n == fs.journal.tx
  <1>1. /\ pc[w] = "rc_staging" /\ UNCHANGED history /\ prior' = prior /\ base' = base
        /\ acked' = acked /\ pc[w] \in ResolvedPc
    BY DEF RecoveryStaging, At, history, ResolvedPc
  <1>2. /\ fs \in Entries /\ Coherent(fs) /\ Journaled(fs) /\ n \in TxId
        /\ fs.backup[n] = Absent
    BY <1>1, ResolvedState
  <1>3. CASE Skip(w, "rc_temporary")
    <2>1. fs' = fs /\ durable' = durable /\ Goto(w, "rc_temporary")
      BY <1>3 DEF Skip, disk
    <2>2. DiskStep
      BY <1>1, <2>1, QuietDisk DEF RegistrationIInv
    <2> QED BY <1>1, <1>2, <2>1, <2>2, ResolvedMoves DEF RecoveryPc, ResolvedPc, ClearedPc
  <1>4. CASE UnlinkStaging(w, n, "rc_staging_flush")
    <2>1. Kept(fs)
      <3>1. fs.staging[n] # Absent /\ Replaced(fs) \in Tree
        BY <1>2, <1>4, RecordTypes DEF UnlinkStaging, RegistrationIInv
      <3> QED BY <1>2, <3>1, LooseFacts DEF Coherent, Moved, Installed
    <2>2. /\ DiskStep /\ fs'.journal = fs.journal /\ fs'.out = fs.out /\ fs'.backup = fs.backup
          /\ Goto(w, pc[w]) \/ Goto(w, "rc_staging_flush")
      BY <1>1, <1>2, <1>4, <2>1, StagingUnlinked DEF RegistrationIInv
    <2> QED BY <1>1, <1>2, <2>2, ResolvedMoves DEF RecoveryPc, ResolvedPc, ClearedPc
  <1>5. CASE FailsWith(w, EffectState(w))
    BY <1>1, <1>5, ResolvedFails
  <1> QED BY <1>3, <1>4, <1>5 DEF RecoveryStaging

\* The parent is flushed between two recovery steps.
LEMMA ResolvedFlush ==
    ASSUME RegistrationIInv, NEW w \in Writers, NEW from \in ResolvedPc \cup {"rc_flush"},
           NEW to \in RecoveryPc, Flush(w, from, to, EffectState(w)), UNCHANGED history,
           invocations' = invocations,
           to \in ResolvedPc => from \in ResolvedPc, to # "rc_backup",
           to \in ClearedPc => to = "inspect" /\ from = "rc_flush"
    PROVE  StepKeeps(w)
  <1>1. /\ pc[w] = from /\ UNCHANGED history /\ prior' = prior /\ base' = base
        /\ acked' = acked
    BY DEF Flush, At, history
  <1>2. CASE SyncParent /\ Goto(w, to)
    <2>1. DiskStep /\ fs' = fs
      BY <1>1, <1>2, QuietDisk DEF RegistrationIInv, SyncParent
    <2>2. /\ from \in ResolvedPc => fs.backup[fs.journal.tx] = Absent
          /\ from = "rc_flush" => fs.journal = NoFile
      BY <1>1, ResolvedState
    <2> QED BY <1>1, <1>2, <2>1, <2>2, ResolvedMoves
  <1>3. CASE FailsWith(w, EffectState(w))
    BY <1>1, <1>3, ResolvedFails
  <1> QED BY <1>2, <1>3 DEF Flush

LEMMA RecoveryBackupKeeps ==
    ASSUME RegistrationIInv, NEW w \in Writers, RecoveryBackup(w), invocations' = invocations
    PROVE  StepKeeps(w)
  <1> DEFINE n == fs.journal.tx
  <1>1. /\ pc[w] = "rc_backup" /\ UNCHANGED history /\ prior' = prior /\ base' = base
        /\ acked' = acked
    BY DEF RecoveryBackup, At, history
  <1>2. /\ fs \in Entries /\ Coherent(fs) /\ Journaled(fs) /\ n \in TxId
        /\ Installed(fs)
    BY <1>1, ResolvedState
  <1>3. CASE fs.backup[n] = Absent /\ Skip(w, "rc_temporary")
    <2>1. fs' = fs /\ durable' = durable /\ Goto(w, "rc_temporary")
      BY <1>3 DEF Skip, disk
    <2>2. DiskStep
      BY <1>1, <2>1, QuietDisk DEF RegistrationIInv
    <2> QED BY <1>1, <1>3, <2>1, <2>2, ResolvedMoves DEF RecoveryPc, ResolvedPc, ClearedPc
  <1>4. CASE UnlinkBackup(w, n, "rc_backup_flush")
    <2>1. \/ /\ \E t \in Remains(fs.backup[n]) : Mutate([fs EXCEPT !.backup[n] = t])
             /\ Goto(w, "rc_backup")
          \/ Mutate([fs EXCEPT !.backup[n] = Absent]) /\ Goto(w, "rc_backup_flush")
      BY <1>1, <1>4 DEF UnlinkBackup, Unlink
    <2>2. CASE \E t \in Remains(fs.backup[n]) :
                  Mutate([fs EXCEPT !.backup[n] = t]) /\ Goto(w, "rc_backup")
      <3>1. PICK t \in Remains(fs.backup[n]) :
                  Mutate([fs EXCEPT !.backup[n] = t]) /\ Goto(w, "rc_backup")
        BY <2>2
      <3>2. DiskStep /\ fs'.out = fs.out /\ Installed(fs)'
        BY <1>1, <1>2, <3>1, BackupChanges DEF RegistrationIInv
      <3> QED BY <1>1, <3>1, <3>2, ResolvedMoves DEF RecoveryPc, ResolvedPc, ClearedPc
    <2>3. CASE Mutate([fs EXCEPT !.backup[n] = Absent]) /\ Goto(w, "rc_backup_flush")
      <3>1. /\ DiskStep /\ fs'.out = fs.out /\ fs'.journal = fs.journal
            /\ fs'.backup[n] = Absent
        BY <1>1, <1>2, <2>3, BackupChanges DEF RegistrationIInv
      <3> QED BY <1>1, <2>3, <3>1, ResolvedMoves DEF RecoveryPc, ResolvedPc, ClearedPc
    <2> QED BY <2>1, <2>2, <2>3
  <1>5. CASE FailsWith(w, EffectState(w))
    BY <1>1, <1>5, ResolvedFails
  <1> QED BY <1>3, <1>4, <1>5 DEF RecoveryBackup

LEMMA RecoveryTemporaryKeeps ==
    ASSUME RegistrationIInv, NEW w \in Writers, RecoveryTemporary(w), invocations' = invocations
    PROVE  StepKeeps(w)
  <1> DEFINE n == fs.journal.tx
  <1>1. /\ pc[w] = "rc_temporary" /\ UNCHANGED history /\ prior' = prior /\ base' = base
        /\ acked' = acked /\ pc[w] \in ResolvedPc
    BY DEF RecoveryTemporary, At, history, ResolvedPc
  <1>2. n \in TxId /\ fs.backup[n] = Absent
    BY <1>1, ResolvedState
  <1>3. CASE Mutate([fs EXCEPT !.temporary[n] = NoFile]) /\ Goto(w, "rc_journal")
    <2>1. DiskStep /\ fs'.journal = fs.journal /\ fs'.out = fs.out /\ fs'.backup = fs.backup
      BY <1>1, <1>2, <1>3, TemporaryChanges DEF RegistrationIInv
    <2> QED BY <1>1, <1>2, <1>3, <2>1, ResolvedMoves DEF RecoveryPc, ResolvedPc, ClearedPc
  <1>4. CASE FailsWith(w, EffectState(w))
    BY <1>1, <1>4, ResolvedFails
  <1> QED BY <1>3, <1>4 DEF RecoveryTemporary

LEMMA RecoveryJournalKeeps ==
    ASSUME RegistrationIInv, NEW w \in Writers, RecoveryJournal(w), invocations' = invocations
    PROVE  StepKeeps(w)
  <1>1. /\ pc[w] = "rc_journal" /\ UNCHANGED history /\ prior' = prior /\ base' = base
        /\ acked' = acked /\ pc[w] \in ResolvedPc
    BY DEF RecoveryJournal, At, history, ResolvedPc
  <1>2. fs.backup[fs.journal.tx] = Absent
    BY <1>1, ResolvedState
  <1>3. CASE Mutate([fs EXCEPT !.journal = NoFile]) /\ Goto(w, "rc_flush")
    <2>1. DiskStep /\ fs'.journal = NoFile /\ fs'.out = fs.out
      BY <1>1, <1>2, <1>3, JournalRemoved DEF RegistrationIInv
    <2> QED BY <1>1, <1>3, <2>1, ResolvedMoves DEF RecoveryPc, ResolvedPc, ClearedPc
  <1>4. CASE FailsWith(w, EffectState(w))
    BY <1>1, <1>4, ResolvedFails
  <1> QED BY <1>3, <1>4 DEF RecoveryJournal

LEMMA RecoveryStepKeeps ==
    ASSUME RegistrationIInv, NEW w \in Writers, RecoveryStep(w), invocations' = invocations
    PROVE  StepKeeps(w)
  <1>1. CASE RecoveryStagingFlush(w)
    BY <1>1, ResolvedFlush DEF RecoveryStagingFlush, ResolvedPc, RecoveryPc, ClearedPc, history
  <1>2. CASE RecoveryBackupFlush(w)
    BY <1>2, ResolvedFlush DEF RecoveryBackupFlush, ResolvedPc, RecoveryPc, ClearedPc, history
  <1>3. CASE RecoveryFlush(w)
    BY <1>3, ResolvedFlush DEF RecoveryFlush, ResolvedPc, RecoveryPc, ClearedPc, history
  <1> QED
    BY <1>1, <1>2, <1>3, RecoverPriorTransactionKeeps, RecoveryRenameKeeps,
       RecoveryRenameFlushKeeps, RecoveryStagingKeeps, RecoveryBackupKeeps, RecoveryTemporaryKeeps,
       RecoveryJournalKeeps
    DEF RecoveryStep
-----------------------------------------------------------------------------
(* The lock file is validated or initialized, and the prior transaction is  *)
(* about to be looked for.                                                  *)

LEMMA ArrivesFinding ==
    ASSUME NEW w \in Writers, pc'[w] \in FindingPc, job'[w].root = "staged",
           job'[w].effect = "none", SettledRoot(fs') = base'[w]
    PROVE  WriterAt(w)'
  <1>0. SettledRoot(fs)' = base'[w]
    BY DEF SettledRoot
  <1>1. RecoveringAt(w)'
    BY <1>0 DEF RecoveringAt, FindingPc, ResolvedPc, ClearedPc
  <1>2. CommittingAt(w)' /\ ProgressAt(w)' /\ UndoingAt(w)' /\ ReportAt(w)'
    BY DEF CommittingAt, ProgressAt, UndoingAt, ReportAt, Reporting, FindingPc,
       LockPc, StagingPc, StagedPc, OldMovedPc, NewInstalledPc, BackupRemovedPc, UndoingPc,
       UndonePc, CommittingPc, ReplacingPc, SyncedPc, BeforeTransaction
  <1> QED BY <1>1, <1>2 DEF WriterAt

\* The lock's record is none of the transaction's business.
LEMMA LockChanges ==
    ASSUME NEW f \in Entries, NEW l
    PROVE  LET g == [f EXCEPT !.lock = l]
           IN  /\ g.lock = l /\ g.journal = f.journal /\ g.out = f.out
               /\ Coherent(f) => Coherent(g)
               /\ SettledRoot(g) = SettledRoot(f) /\ (Journaled(g) <=> Journaled(f))
  <1> DEFINE g == [f EXCEPT !.lock = l]
  <1>1. /\ g.lock = l /\ g.journal = f.journal /\ g.out = f.out /\ g.staging = f.staging
        /\ g.backup = f.backup
    BY DEF Entries
  <1> HIDE DEF g
  <1>2. Coherent(f) => Coherent(g)
    BY <1>1 DEF Coherent, Journaled, Replaced, Planned, Kept, Moved, Installed
  <1>3. SettledRoot(g) = SettledRoot(f) /\ (Journaled(g) <=> Journaled(f))
    BY <1>1 DEF SettledRoot, Journaled
  <1>4. QED
    BY <1>1, <1>2, <1>3 DEF g

LEMMA LockWritten ==
    ASSUME TypeIInv, DiskIInv, NEW l \in {"torn", "valid"}, Mutate([fs EXCEPT !.lock = l]),
           prior' = prior, invocations' = invocations, acked' = acked
    PROVE  DiskStep /\ SettledRoot(fs') = SettledRoot(fs)
  <1> DEFINE g == [fs EXCEPT !.lock = l]
  <1>1. fs \in Entries /\ Coherent(fs)
    BY DEF TypeIInv, TypeOK, DiskIInv
  <1>2. /\ g.lock = l /\ g.journal = fs.journal /\ g.out = fs.out /\ Coherent(g)
        /\ SettledRoot(g) = SettledRoot(fs)
    BY <1>1, LockChanges
  <1>3. Mutate(g)
    OBVIOUS
  <1> HIDE DEF g
  <1>4. DiskStep
    BY <1>2, <1>3, SameOutput DEF Journaled, SameTransaction
  <1> QED BY <1>2, <1>3, <1>4 DEF Mutate

LEMMA InitializeLockKeeps ==
    ASSUME RegistrationIInv, NEW w \in Writers, InitializeLock(w), invocations' = invocations
    PROVE  StepKeeps(w)
  <1> USE DEF RegistrationIInv
  <1>1. /\ prior' = prior /\ base' = base /\ acked' = acked /\ w \in Procs /\ fs \in Entries
        /\ SettledRoot(fs) = base[w] /\ job[w].effect = "none" /\ job[w].root = "staged"
    BY WriterState DEF InitializeLock, At, history, WriterAt, RecoveringAt, ProgressAt, FindingPc,
           BeforeTransaction
  <1>2. CASE /\ fs' = [fs EXCEPT !.lock = "valid"]
             /\ durable' = {[f EXCEPT !.lock = IF @ = "torn" THEN "valid" ELSE @] : f \in durable}
                             \cup {fs'}
             /\ Goto(w, "lock_flush")
    <2> DEFINE written(f) == [f EXCEPT !.lock = IF f.lock = "torn" THEN "valid" ELSE f.lock]
    <2>1. durable' = {written(f) : f \in durable} \cup {fs'}
      BY <1>2
    <2>2. ASSUME NEW f \in durable
          PROVE  /\ written(f).journal = f.journal /\ written(f).out = f.out
                 /\ Coherent(written(f)) /\ (Journaled(written(f)) <=> Journaled(f))
      BY LockChanges DEF DiskIInv, TypeIInv, TypeOK
    <2>3. /\ fs'.lock = "valid" /\ fs'.journal = fs.journal /\ fs'.out = fs.out
          /\ Coherent(fs') /\ SettledRoot(fs') = SettledRoot(fs) /\ fs \in durable
          /\ Journaled(fs') <=> Journaled(fs)
      BY <1>1, <1>2, LockChanges DEF DiskIInv
    <2> HIDE DEF written
    <2>4. ASSUME NEW f \in durable'
          PROVE  \E g \in durable : /\ f.journal = g.journal /\ f.out = g.out /\ Coherent(f)
                                    /\ Journaled(f) <=> Journaled(g)
      BY <2>1, <2>2, <2>3
    <2>5. ASSUME NEW f \in durable'
          PROVE  Coherent(f) /\ Precedes(f, fs') /\ (acked => ~Journaled(f))
      BY <2>3, <2>4 DEF DiskIInv, Precedes, Journaled, Replaced, Planned, SameTransaction
    <2>6. /\ \A f : Coherent(f) <=> Coherent(f)'
          /\ \A f : Precedes(f, fs') <=> Precedes(f, fs)'
      BY <1>1 DEF Coherent, Precedes, Journaled, Replaced, Planned, Kept, Moved, Installed
    <2>7. DiskIInv'
      BY <1>1, <2>1, <2>5, <2>6 DEF DiskIInv, Journaled
    <2>8. NoNewRecord
      BY <2>4 DEF NoNewRecord
    <2>9. DiskStep
      BY <2>3, <2>7, <2>8 DEF DiskStep
    <2>10. pc'[w] = "lock_flush" /\ job' = job
      BY <1>2, LocalMoves
    <2>11. WriterAt(w)'
      BY <1>1, <2>3, <2>10, ArrivesFinding DEF FindingPc
    <2> QED BY <2>9, <2>11 DEF StepKeeps
  <1>3. CASE FailsWith(w, "unchanged")
    <2>1. fs' = fs /\ durable' = durable
      BY <1>3 DEF FailsWith, disk
    <2>2. WriterAt(w)'
      BY <1>1, <1>3, <2>1, ReportsAt DEF FailsWith
    <2> QED BY <1>1, <2>1, <2>2, QuietDisk DEF StepKeeps
  <1>4. CASE Mutate([fs EXCEPT !.lock = "valid"]) /\ Finish(w, "error", "unchanged", "io")
    <2>1. DiskStep /\ SettledRoot(fs') = SettledRoot(fs)
      BY <1>1, <1>4, LockWritten
    <2>2. WriterAt(w)'
      <3>1. /\ pc'[w] = "ret" /\ outcome'[w].status = "error" /\ outcome'[w].state = "unchanged"
        <4>1. pc'[w] = "ret"
              /\ outcome'[w] = [status |-> "error", state |-> "unchanged", why |-> "io"]
          BY <1>4, LocalMoves
        <4> QED BY <4>1
      <3>2. SettledRoot(fs)' = base'[w]
        BY <1>1, <2>1 DEF SettledRoot
      <3>3. ReportAt(w)'
        BY <3>1, <3>2 DEF ReportAt
      <3>4. RecoveringAt(w)' /\ CommittingAt(w)' /\ ProgressAt(w)' /\ UndoingAt(w)'
        BY <3>1 DEF RecoveringAt, CommittingAt, ProgressAt, UndoingAt,
           LockPc, FindingPc, ResolvedPc, ClearedPc, StagingPc, StagedPc, OldMovedPc,
           NewInstalledPc, BackupRemovedPc, UndoingPc, UndonePc, CommittingPc, ReplacingPc,
           SyncedPc, BeforeTransaction
      <3> QED BY <3>3, <3>4 DEF WriterAt
    <2> QED BY <2>1, <2>2 DEF StepKeeps
  <1> QED BY <1>2, <1>3, <1>4 DEF InitializeLock

LEMMA LockRecordKeeps ==
    ASSUME RegistrationIInv, NEW w \in Writers, ReadLock(w) \/ FlushLock(w),
           invocations' = invocations
    PROVE  StepKeeps(w)
  <1> USE DEF RegistrationIInv
  <1>1. pc[w] \in {"read_lock", "lock_flush"}
    BY DEF ReadLock, FlushLock, Flush, At
  <1>2. /\ prior' = prior /\ base' = base /\ acked' = acked /\ fs' = fs
        /\ durable' = durable \/ durable' = {fs}
    BY DEF ReadLock, FlushLock, Flush, FailsWith, SyncParent, disk, history
  <1>3. SettledRoot(fs) = base[w] /\ job[w].effect = "none" /\ job[w].root = "staged"
    BY <1>1 DEF WriterAt, RecoveringAt, ProgressAt, FindingPc, BeforeTransaction
  <1>4. DiskStep
    BY <1>2, QuietDisk
  <1>5. ASSUME Goto(w, "recover")
        PROVE  WriterAt(w)'
    <2>1. pc'[w] = "recover" /\ job' = job
      BY <1>5, LocalMoves
    <2> QED BY <1>2, <1>3, <2>1, ArrivesFinding DEF FindingPc
  <1>6. ASSUME NEW why, Finish(w, "error", "unchanged", why)
        PROVE  WriterAt(w)'
    BY <1>2, <1>3, <1>6, ReportsAt
  <1>7. WriterAt(w)'
    BY <1>5, <1>6 DEF ReadLock, FlushLock, Flush, FailsWith
  <1> QED BY <1>4, <1>7 DEF StepKeeps
-----------------------------------------------------------------------------
(* inspect_named_output, construct_staging and cleanup_failed_staging.      *)

\* The output is to be replaced, and no journal says so yet.
LEMMA ArrivesStaging ==
    ASSUME NEW w \in Writers, pc'[w] \in {"mk_staging", "fill", "staging_flush"},
           job'[w].root = "staged", fs'.journal = NoFile, fs'.out = base'[w],
           job'[w].effect = "updated" => Whole(fs'.out),
           Old(w)' = base'[w], Old(w)' \notin {Unreadable, New(w)'},
           job'[w].old = JournalOldRoot(Old(w)'),
           pc'[w] = "staging_flush" => fs'.staging[job'[w].tx] = New(w)'
    PROVE  WriterAt(w)'
  <1>1. RecoveringAt(w)'
    BY DEF RecoveringAt, ResolvedPc, ClearedPc, FindingPc, Whole
  <1>2. CommittingAt(w)'
    <2>1. JournalOldRoot(Old(w)') = JournalOldRoot(Old(w))'
      BY DEF JournalOldRoot
    <2> QED
      BY <2>1 DEF CommittingAt, ReplacingPc, StagingPc, StagedPc, OldMovedPc, NewInstalledPc,
         BackupRemovedPc, UndoingPc, UndonePc, CommittingPc, SyncedPc
  <1>3. ProgressAt(w)' /\ UndoingAt(w)' /\ ReportAt(w)'
    BY DEF ProgressAt, UndoingAt, ReportAt, Reporting,
       LockPc, StagingPc, StagedPc, OldMovedPc, NewInstalledPc, BackupRemovedPc,
       UndonePc, BeforeTransaction
  <1> QED BY <1>1, <1>2, <1>3 DEF WriterAt

\* A tree is written at a staging name while no transaction is open.
LEMMA StagingWritten ==
    ASSUME TypeIInv, DiskIInv, fs.journal = NoFile, NEW n \in TxId, NEW t,
           Mutate([fs EXCEPT !.staging[n] = t]),
           prior' = prior, invocations' = invocations, acked' = acked
    PROVE  DiskStep /\ fs'.journal = NoFile /\ fs'.out = fs.out /\ fs'.staging[n] = t
  <1> DEFINE g == [fs EXCEPT !.staging[n] = t]
  <1>1. fs \in Entries /\ Coherent(fs)
    BY DEF TypeIInv, TypeOK, DiskIInv
  <1>2. /\ g.lock = fs.lock /\ g.journal = fs.journal /\ g.out = fs.out /\ g.backup = fs.backup
        /\ g.staging[n] = t
    BY <1>1 DEF Entries
  <1>3. Mutate(g)
    OBVIOUS
  <1> HIDE DEF g
  <1>4. ~Journaled(fs) /\ ~Journaled(g)
    BY <1>2, JournalTypes DEF Journaled
  <1>5. Coherent(g)
    BY <1>1, <1>2, <1>4 DEF Coherent
  <1>6. DiskStep
    BY <1>2, <1>3, <1>4, <1>5, SameOutput
  <1> QED BY <1>2, <1>3, <1>6 DEF Mutate

\* What the steps before the journal share.
LEMMA ClearedState ==
    ASSUME RegistrationIInv, NEW w \in Writers, pc[w] \in ClearedPc
    PROVE  /\ fs \in Entries /\ Coherent(fs) /\ job[w].tx \in TxId /\ ~Journaled(fs)
           /\ fs.journal = NoFile /\ fs.out = base[w]
           /\ job[w].effect = "updated" => Whole(fs.out)
           /\ pc[w] \in StagingPc =>
                 /\ job[w].root = "staged" /\ Old(w) = base[w]
                 /\ Old(w) \notin {Unreadable, New(w)} /\ job[w].old = JournalOldRoot(Old(w))
           /\ pc[w] = "inspect" => job[w].root = "staged"
           /\ pc[w] = "staging_flush" => fs.staging[job[w].tx] = New(w)
  <1>1. fs \in Entries /\ Coherent(fs) /\ job[w].tx \in TxId
    BY WriterState DEF RegistrationIInv, DiskIInv
  <1>2. /\ fs.journal = NoFile /\ fs.out = base[w]
        /\ job[w].effect = "updated" => Whole(fs.out)
        /\ pc[w] = "inspect" => job[w].root = "staged"
        /\ pc[w] \in StagingPc => job[w].root = "staged"
    BY DEF RegistrationIInv, WriterAt, RecoveringAt, ProgressAt, BeforeTransaction
  <1>3. /\ pc[w] \in StagingPc =>
              /\ Old(w) = base[w]
              /\ Old(w) \notin {Unreadable, New(w)} /\ job[w].old = JournalOldRoot(Old(w))
        /\ pc[w] = "staging_flush" => fs.staging[job[w].tx] = New(w)
    BY DEF RegistrationIInv, WriterAt, CommittingAt, ReplacingPc, StagingPc
  <1> QED BY <1>1, <1>2, <1>3, JournalTypes DEF Journaled

LEMMA ClearedFails ==
    ASSUME RegistrationIInv, NEW w \in Writers, pc[w] \in ClearedPc, NEW why,
           Finish(w, "error", EffectState(w), why), fs' = fs,
           durable' = durable \/ durable' = {fs},
           UNCHANGED history, invocations' = invocations
    PROVE  StepKeeps(w)
  <1>1. prior' = prior /\ base' = base /\ acked' = acked
    BY DEF history
  <1>2. DiskStep
    BY <1>1, QuietDisk DEF RegistrationIInv
  <1>3. WriterAt(w)'
    BY <1>1, ClearedState, RecoveryReports DEF RegistrationIInv
  <1> QED BY <1>2, <1>3 DEF StepKeeps

LEMMA InspectOutputKeeps ==
    ASSUME RegistrationIInv, NEW w \in Writers, InspectOutput(w), invocations' = invocations
    PROVE  StepKeeps(w)
  <1> USE DEF RegistrationIInv
  <1>1. /\ pc[w] = "inspect" /\ fs' = fs /\ durable' = durable /\ base' = base /\ acked' = acked
        /\ entry' = entry
    BY DEF InspectOutput, At, disk
  <1>2. /\ fs \in Entries /\ Coherent(fs) /\ job[w].tx \in TxId /\ ~Journaled(fs)
        /\ fs.journal = NoFile /\ fs.out = base[w] /\ job[w].root = "staged"
        /\ job[w].effect = "updated" => Whole(fs.out)
    BY <1>1, ClearedState DEF ClearedPc
  <1>3. CASE prior' = prior /\ Finish(w, "error", EffectState(w), "output_invalid")
    BY <1>1, <1>3, ClearedFails DEF ClearedPc, history
  <1>4. CASE /\ prior' = prior /\ fs.out = Complete(job[w].want)
             /\ Finish(w, "unchanged", EffectState(w), "none")
    <2>1. DiskStep
      BY <1>1, <1>4, QuietDisk
    <2>2. EffectState(w) # "indeterminate" /\ (EffectState(w) = "updated" => Whole(fs.out))
      BY <1>2, WriterState DEF EffectState, Job, Effect
    <2>3. WriterAt(w)'
      BY <1>1, <1>2, <1>4, <2>2, ReportsAt DEF New
    <2> QED BY <2>1, <2>3 DEF StepKeeps
  <1>5. CASE fs.out \notin {Unreadable, Complete(job[w].want)} /\ ReplaceOutput(w)
    <2>1. /\ pc'[w] = "mk_staging" /\ job'[w].tx = job[w].tx /\ job'[w].want = job[w].want
          /\ job'[w].old = JournalOldRoot(fs.out) /\ job'[w].effect = job[w].effect
          /\ job'[w].root = "staged"
      <3> DEFINE j == [job[w] EXCEPT !.old = JournalOldRoot(fs.out)]
      <3>1. job' = [job EXCEPT ![w] = j] /\ pc' = [pc EXCEPT ![w] = "mk_staging"]
        BY <1>5 DEF ReplaceOutput
      <3>2. /\ j.tx = job[w].tx /\ j.want = job[w].want /\ j.old = JournalOldRoot(fs.out)
            /\ j.effect = job[w].effect /\ j.root = job[w].root
        BY WriterState DEF Job
      <3> HIDE DEF j
      <3> QED BY <1>2, <3>1, <3>2, WriterState DEF LocalsOK
    <2>2. prior'[job[w].tx] = fs.out /\ \A n \in TxId : n # job[w].tx => prior'[n] = prior[n]
      BY <1>2, <1>5, WriterState DEF ReplaceOutput, HistoryOK
    <2>3. ASSUME NEW f \in durable, Journaled(f)
          PROVE  Replaced(f)' = Replaced(f)
      <3>1. f.journal.tx # job[w].tx
        BY <1>1, <2>3 DEF FreshIInv, BeforeTransaction
      <3>2. f.journal.tx \in TxId
        BY <2>3, RecordTypes DEF TypeIInv, TypeOK
      <3> QED BY <2>2, <3>1, <3>2 DEF Replaced
    <2>4. DiskIInv'
      <3>1. ASSUME NEW f \in durable
            PROVE  Coherent(f)'
        BY <2>3 DEF DiskIInv, Coherent, Kept, Moved, Installed, Planned, Journaled
      <3>2. ASSUME NEW f \in durable
            PROVE  Precedes(f, fs)'
        BY <1>1, <1>2, <2>3 DEF DiskIInv, Precedes, Planned, Journaled
      <3> QED BY <1>1, <3>1, <3>2 DEF DiskIInv, Journaled
    <2>5. DiskStep
      BY <1>1, <2>4 DEF DiskStep, NoNewRecord
    <2>6. Old(w)' = fs.out /\ New(w)' = New(w)
      BY <2>1, <2>2 DEF Old, New
    <2>7. WriterAt(w)'
      BY <1>1, <1>2, <1>5, <2>1, <2>6, ArrivesStaging DEF New
    <2> QED BY <2>5, <2>7 DEF StepKeeps
  <1> QED BY <1>3, <1>4, <1>5 DEF InspectOutput

\* Moving on to a later staging step.
LEMMA StagingMoves ==
    ASSUME RegistrationIInv, NEW w \in Writers, pc[w] \in ClearedPc \cap StagingPc,
           NEW l \in {"fill", "staging_flush", "unstage"}, Goto(w, l),
           DiskStep, fs'.journal = NoFile, fs'.out = fs.out,
           prior' = prior, base' = base,
           l = "staging_flush" => fs'.staging[job[w].tx] = New(w)
    PROVE  StepKeeps(w)
  <1>1. pc'[w] = l /\ job' = job
    BY LocalMoves DEF RegistrationIInv
  <1>2. Old(w)' = Old(w) /\ New(w)' = New(w)
    BY <1>1 DEF Old, New
  <1>3. CASE l = "unstage"
    BY <1>1, <1>3, ClearedState, ArrivesRecovering DEF RecoveryPc, ResolvedPc, StepKeeps
  <1>4. CASE l # "unstage"
    BY <1>1, <1>2, <1>4, ClearedState, ArrivesStaging DEF StepKeeps
  <1> QED BY <1>3, <1>4

LEMMA MakeStagingKeeps ==
    ASSUME RegistrationIInv, NEW w \in Writers, MakeStaging(w), invocations' = invocations
    PROVE  StepKeeps(w)
  <1>1. /\ pc[w] = "mk_staging" /\ UNCHANGED history /\ prior' = prior /\ base' = base
        /\ acked' = acked /\ pc[w] \in ClearedPc \cap StagingPc
    BY DEF MakeStaging, At, history, ClearedPc, StagingPc
  <1>2. fs.journal = NoFile /\ job[w].tx \in TxId
    BY <1>1, ClearedState
  <1>3. CASE Mutate([fs EXCEPT !.staging[job[w].tx] = Empty]) /\ Goto(w, "fill")
    BY <1>1, <1>2, <1>3, StagingWritten, StagingMoves DEF RegistrationIInv
  <1>4. CASE FailsWith(w, EffectState(w))
    BY <1>1, <1>4, ClearedFails DEF FailsWith, disk
  <1> QED BY <1>3, <1>4 DEF MakeStaging

LEMMA StagingFailsKeeps ==
    ASSUME RegistrationIInv, NEW w \in Writers, StagingFails(w), pc[w] \in ClearedPc \cap StagingPc,
           UNCHANGED history, invocations' = invocations
    PROVE  StepKeeps(w)
  <1>1. /\ fs' = fs /\ durable' = durable /\ prior' = prior /\ base' = base /\ acked' = acked
        /\ Goto(w, "unstage")
    BY DEF StagingFails, disk, history
  <1>2. DiskStep
    BY <1>1, QuietDisk DEF RegistrationIInv
  <1>3. fs'.journal = NoFile
    BY <1>1, ClearedState
  <1> QED BY <1>1, <1>2, <1>3, StagingMoves

LEMMA FillStagingKeeps ==
    ASSUME RegistrationIInv, NEW w \in Writers, FillStaging(w), invocations' = invocations
    PROVE  StepKeeps(w)
  <1>1. /\ pc[w] = "fill" /\ UNCHANGED history /\ prior' = prior /\ base' = base
        /\ acked' = acked /\ pc[w] \in ClearedPc \cap StagingPc
    BY DEF FillStaging, At, history, ClearedPc, StagingPc
  <1>2. fs.journal = NoFile /\ job[w].tx \in TxId
    BY <1>1, ClearedState
  <1>3. CASE Mutate([fs EXCEPT !.staging[job[w].tx] = Unreadable]) /\ Goto(w, "fill")
    BY <1>1, <1>2, <1>3, StagingWritten, StagingMoves DEF RegistrationIInv
  <1>4. CASE /\ Mutate([fs EXCEPT !.staging[job[w].tx] = Complete(job[w].want)])
             /\ Goto(w, "staging_flush")
    BY <1>1, <1>2, <1>4, StagingWritten, StagingMoves DEF RegistrationIInv, New
  <1>5. CASE StagingFails(w)
    BY <1>1, <1>5, StagingFailsKeeps
  <1> QED BY <1>3, <1>4, <1>5 DEF FillStaging

LEMMA CleanupKeeps ==
    ASSUME RegistrationIInv, NEW w \in Writers,
           CleanupFailedStaging(w) \/ CleanupFailedStagingFlush(w), invocations' = invocations
    PROVE  StepKeeps(w)
  <1>1. /\ UNCHANGED history /\ prior' = prior /\ base' = base
        /\ acked' = acked /\ pc[w] \in ClearedPc /\ pc[w] \in {"unstage", "unstage_flush"}
    BY DEF CleanupFailedStaging, CleanupFailedStagingFlush, At, history, ClearedPc
  <1>2. fs.journal = NoFile /\ ~Journaled(fs) /\ job[w].tx \in TxId
    BY <1>1, ClearedState
  <1>3. CASE UnlinkStaging(w, job[w].tx, "unstage_flush") /\ pc[w] = "unstage"
    <2>1. /\ DiskStep /\ fs'.journal = fs.journal /\ fs'.out = fs.out
          /\ Goto(w, pc[w]) \/ Goto(w, "unstage_flush")
      BY <1>1, <1>2, <1>3, StagingUnlinked DEF RegistrationIInv
    <2>2. pc'[w] \in {"unstage", "unstage_flush"} /\ job' = job
      BY <1>3, <2>1, LocalMoves DEF RegistrationIInv
    <2> QED
      BY <1>1, <1>2, <2>1, <2>2, ClearedState, ArrivesRecovering
      DEF StepKeeps, RecoveryPc, ResolvedPc
  <1>4. CASE FailsWith(w, EffectState(w))
    BY <1>1, <1>4, ClearedFails DEF FailsWith, disk
  <1>5. CASE SyncParent /\ Finish(w, "error", EffectState(w), "io")
    BY <1>1, <1>5, ClearedFails DEF SyncParent
  <1> QED BY <1>3, <1>4, <1>5 DEF CleanupFailedStaging, CleanupFailedStagingFlush, At
-----------------------------------------------------------------------------
(* commit_staging, effect by effect.                                        *)

Begun(w) ==
    /\ Old(w) = base[w] /\ Old(w) \notin {Unreadable, New(w)}
    /\ job[w].old = JournalOldRoot(Old(w))

LEMMA BegunKept ==
    ASSUME RegistrationIInv, NEW w \in Writers, pc[w] \in ReplacingPc,
           prior' = prior, base' = base,
           job'[w].tx = job[w].tx, job'[w].want = job[w].want, job'[w].old = job[w].old
    PROVE  /\ Begun(w) /\ Begun(w)' /\ Old(w)' = Old(w) /\ New(w)' = New(w)
           /\ job[w].old.kind = "absent" <=> Old(w) = Absent
           /\ Old(w) \in Tree /\ New(w) \in Tree /\ New(w) # Absent /\ Whole(New(w))
           /\ New(w) \notin Loose(Old(w)) /\ Old(w) \in Loose(Old(w))
           /\ Old(w) # Absent => Absent \notin Loose(Old(w))
  <1>1. Begun(w)
    BY DEF RegistrationIInv, WriterAt, CommittingAt, Begun
  <1>2. Old(w)' = Old(w) /\ New(w)' = New(w)
    BY DEF Old, New
  <1>3. Begun(w)'
    BY <1>1, <1>2 DEF Begun, JournalOldRoot
  <1>4. Old(w) \in Tree /\ New(w) \in Tree /\ New(w) # Absent /\ Whole(New(w))
    BY WriterState, CompleteTrees DEF RegistrationIInv, HistoryOK, Old, New, Whole
  <1>5. job[w].old.kind = "absent" <=> Old(w) = Absent
    BY <1>1, <1>4, OldKinds DEF Begun
  <1>6. New(w) \notin Loose(Old(w))
    BY <1>1, <1>4, LooseFacts, WriterState DEF Begun, New, RegistrationIInv
  <1> QED BY <1>1, <1>2, <1>3, <1>4, <1>5, <1>6, LooseFacts

LEMMA ArrivesCommitting ==
    ASSUME NEW w \in Writers, pc'[w] \in CommittingPc \cup {"journal_create"},
           CommittingAt(w)', ProgressAt(w)',
           pc'[w] \in {"journal_create", "drop_journal_flush"} => fs'.journal = NoFile
    PROVE  WriterAt(w)'
  <1>1. RecoveringAt(w)' /\ UndoingAt(w)' /\ ReportAt(w)'
    BY DEF RecoveringAt, UndoingAt, ReportAt, Reporting, FindingPc, ResolvedPc, ClearedPc,
       StagedPc, OldMovedPc, NewInstalledPc, BackupRemovedPc, UndonePc, CommittingPc
  <1> QED BY <1>1 DEF WriterAt

\* What the commit steps share.
LEMMA CommitState ==
    ASSUME RegistrationIInv, NEW w \in Writers, pc[w] \in CommittingPc \cup {"journal_create"}
    PROVE  /\ fs \in Entries /\ Coherent(fs) /\ fs \in durable /\ w \in Procs /\ job[w].tx \in TxId
           /\ pc[w] \in ReplacingPc
           /\ CommittingAt(w) /\ ProgressAt(w)
           /\ pc[w] \in {"journal_create", "drop_journal_flush"} =>
                 fs.journal = NoFile /\ ~Journaled(fs)
           /\ pc[w] = "journal_write" => ~Journaled(fs)
           /\ pc[w] \notin {"journal_create", "journal_write", "drop_journal_flush"} =>
                 /\ Own(w) /\ Journaled(fs) /\ fs.journal.tx = job[w].tx
                 /\ Replaced(fs) = Old(w) /\ Planned(fs) = New(w)
           /\ pc[w] \in StagedPc \cup {"journal_create"} =>
                 \A n \in TxId : fs.backup[n] = Absent
           /\ pc[w] \in NewInstalledPc => Installed(fs)
  <1>1. fs \in Entries /\ Coherent(fs) /\ fs \in durable /\ w \in Procs /\ job[w].tx \in TxId
    BY WriterState DEF RegistrationIInv, DiskIInv
  <1>2. CommittingAt(w) /\ ProgressAt(w) /\ RecoveringAt(w)
    BY DEF RegistrationIInv, WriterAt
  <1>3. pc[w] \in {"journal_create", "drop_journal_flush"} => fs.journal = NoFile /\ ~Journaled(fs)
    BY <1>2, JournalTypes DEF RecoveringAt, Journaled
  <1>4. pc[w] = "journal_write" => ~Journaled(fs)
    BY <1>2 DEF CommittingAt, Journaled, Torn
  <1>5. pc[w] \notin {"journal_create", "journal_write", "drop_journal_flush"} =>
                 /\ Own(w) /\ Journaled(fs) /\ fs.journal.tx = job[w].tx
                 /\ Replaced(fs) = Old(w) /\ Planned(fs) = New(w)
    BY <1>2 DEF CommittingAt, Own, Replaced, Planned, Old, New, CommittingPc, Journaled
  <1>6. pc[w] \in ReplacingPc
    BY DEF ReplacingPc, CommittingPc, StagingPc
  <1>7. Old(w) # New(w) /\ New(w) # Absent /\ New(w) \notin Loose(Old(w))
    <2>1. Old(w) # New(w)
      BY <1>2, <1>6 DEF CommittingAt
    <2>2. Old(w) \in Tree /\ job[w].want \in Content
      BY WriterState DEF RegistrationIInv, HistoryOK, Old
    <2> QED BY <2>1, <2>2, CompleteTrees, LooseFacts DEF New
  <1>8. pc[w] \in StagedPc \cup {"journal_create"} => \A n \in TxId : fs.backup[n] = Absent
    <2>1. pc[w] \in {"journal_create", "journal_write"} => \A n \in TxId : fs.backup[n] = Absent
      BY <1>1, <1>3, <1>4 DEF Coherent
    <2>2. ASSUME pc[w] \in {"journal_flush", "move_old"}
          PROVE  Kept(fs)
      <3>1. fs.out = Old(w) /\ Replaced(fs) = Old(w) /\ Planned(fs) = New(w) /\ Journaled(fs)
        BY <1>2, <1>5, <2>2 DEF CommittingAt, StagedPc
      <3> QED BY <1>1, <1>7, <3>1 DEF Coherent, Moved, Installed
    <2>3. pc[w] \in {"journal_flush", "move_old"} => \A n \in TxId : fs.backup[n] = Absent
      BY <1>1, <2>2 DEF Coherent, Kept
    <2> QED BY <2>1, <2>3 DEF StagedPc
  <1>9. pc[w] \in NewInstalledPc => Installed(fs)
    <2> SUFFICES ASSUME pc[w] \in NewInstalledPc
                 PROVE  Installed(fs)
      OBVIOUS
    <2>1. fs.out = New(w) /\ Replaced(fs) = Old(w) /\ Planned(fs) = New(w) /\ Journaled(fs)
      BY <1>2, <1>5 DEF CommittingAt, NewInstalledPc
    <2> QED BY <1>1, <1>7, <2>1 DEF Coherent, Kept, Moved
  <1> QED BY <1>1, <1>2, <1>3, <1>4, <1>5, <1>6, <1>8, <1>9

\* A commit step fails: the rollback of its progress begins.
LEMMA RollsBack ==
    ASSUME RegistrationIInv, NEW w \in Writers, pc[w] \in CommittingPc \cup {"journal_create"},
           NEW j, RollbackAfterCommit(w, j), j.tx = job[w].tx, j.want = job[w].want,
           j.old = job[w].old, j.root = job[w].root,
           prior' = prior, base' = base,
           fs'.out = fs.out, fs'.backup = fs.backup, fs'.staging = fs.staging,
           Journaled(fs') => fs'.journal.tx = job[w].tx /\ fs'.journal.new = job[w].want,
           pc[w] \notin {"journal_create", "journal_write", "drop_journal_flush"} => Journaled(fs'),
           pc[w] = "dropping_backup" => TornErrors
    PROVE  WriterAt(w)'
  <1>0. /\ job'[w] = j
        /\ j.root = "backup_removed" =>
              /\ pc'[w] = "ret" /\ outcome'[w].status = "error"
              /\ outcome'[w].state = "updated"
        /\ j.root = "new_installed" => pc'[w] = "rb_uninstall"
        /\ j.root = "old_moved" =>
              pc'[w] = IF j.old.kind # "absent" THEN "rb_restore" ELSE "rb_staging"
        /\ j.root = "staged" => pc'[w] = "rb_staging"
    BY LocalMoves DEF RegistrationIInv
  <1>1. /\ Coherent(fs) /\ CommittingAt(w) /\ ProgressAt(w) /\ job[w].tx \in TxId
        /\ pc[w] \in StagedPc \cup {"journal_create"} => \A n \in TxId : fs.backup[n] = Absent
        /\ pc[w] \notin {"journal_create", "journal_write", "drop_journal_flush"} =>
              Journaled(fs) /\ fs.journal.tx = job[w].tx
        /\ pc[w] \in ReplacingPc
    BY CommitState
  <1>2. /\ Begun(w) /\ Begun(w)' /\ Old(w)' = Old(w) /\ New(w)' = New(w)
        /\ job[w].old.kind = "absent" <=> Old(w) = Absent
        /\ Whole(New(w)) /\ Old(w) \in Loose(Old(w)) /\ Old(w) \in Tree
    BY <1>0, <1>1, BegunKept
  <1>3. /\ Loose(Old(w))' = Loose(Old(w))
        /\ Journaled(fs)' <=> Journaled(fs')
        /\ Journaled(fs') => Own(w)'
    BY <1>0, <1>2 DEF Loose, Remains, Journaled, Own
  <1>4. ASSUME pc'[w] \in {"rb_uninstall", "rb_restore", "rb_staging"}, UndoingAt(w)',
               pc'[w] \in {"rb_uninstall", "rb_restore"} => Own(w)',
               pc'[w] = "rb_restore" => Old(w) # Absent
        PROVE  WriterAt(w)'
    <2>1. CommittingAt(w)'
      BY <1>2, <1>4 DEF CommittingAt, Begun, ReplacingPc, StagingPc, StagedPc, OldMovedPc,
         NewInstalledPc, BackupRemovedPc, UndoingPc, UndonePc, CommittingPc, SyncedPc
    <2>2. RecoveringAt(w)' /\ ProgressAt(w)' /\ ReportAt(w)'
      BY <1>4 DEF RecoveringAt, ProgressAt, ReportAt, Reporting, FindingPc, ResolvedPc, ClearedPc,
         LockPc, StagingPc, StagedPc, OldMovedPc, NewInstalledPc, BackupRemovedPc, BeforeTransaction
    <2> QED BY <1>4, <2>1, <2>2 DEF WriterAt
  <1>5. CASE pc[w] \in StagedPc \cup {"journal_create"}
    <2>1. job[w].root = "staged" /\ fs.out = Old(w)
      BY <1>1, <1>5 DEF ProgressAt, CommittingAt, StagingPc
    <2>2. pc'[w] = "rb_staging"
      BY <1>0, <2>1
    <2>3. UndoingAt(w)'
      BY <1>1, <1>2, <1>3, <1>5, <2>1, <2>2 DEF UndoingAt, UndonePc
    <2> QED BY <1>4, <2>2, <2>3
  <1>6. CASE pc[w] \in OldMovedPc
    <2>1. /\ job[w].root = "old_moved" /\ fs.out = Absent /\ fs.backup[job[w].tx] = Old(w)
          /\ fs.staging[job[w].tx] = New(w) /\ Journaled(fs')
          /\ Journaled(fs) /\ fs.journal.tx = job[w].tx
      BY <1>1, <1>6 DEF ProgressAt, CommittingAt, OldMovedPc
    <2>2. CASE Old(w) = Absent
      <3>1. pc'[w] = "rb_staging"
        BY <1>0, <1>2, <2>1, <2>2
      <3>2. \A n \in TxId : fs.backup[n] = Absent
        BY <1>1, <2>1, <2>2 DEF Coherent
      <3>3. UndoingAt(w)'
        BY <1>1, <1>2, <1>3, <2>1, <2>2, <3>1, <3>2 DEF UndoingAt, UndonePc
      <3> QED BY <1>4, <3>1, <3>3
    <2>3. CASE Old(w) # Absent
      <3>1. pc'[w] = "rb_restore"
        BY <1>0, <1>2, <2>1, <2>3
      <3>2. UndoingAt(w)'
        BY <1>0, <1>2, <1>3, <2>1, <3>1 DEF UndoingAt, UndonePc
      <3> QED BY <1>3, <1>4, <2>1, <2>3, <3>1, <3>2
    <2> QED BY <2>2, <2>3
  <1>7. CASE pc[w] \in NewInstalledPc
    <2>1. job[w].root = "new_installed" /\ fs.out = New(w) /\ Journaled(fs')
      BY <1>1, <1>7 DEF ProgressAt, CommittingAt, NewInstalledPc
    <2>2. fs.backup[job[w].tx] \in Loose(Old(w))
      BY <1>1, <1>2, <1>7 DEF CommittingAt, Loose
    <2>3. pc'[w] = "rb_uninstall"
      BY <1>0, <2>1
    <2>4. UndoingAt(w)'
      BY <1>0, <1>2, <1>3, <2>1, <2>2, <2>3 DEF UndoingAt, UndonePc
    <2> QED BY <1>3, <1>4, <2>1, <2>3, <2>4
  <1>8. CASE pc[w] \in BackupRemovedPc
    <2>1. job[w].root = "backup_removed" /\ fs.out = New(w)
      BY <1>1, <1>8 DEF ProgressAt, CommittingAt
    <2>2. pc'[w] = "ret" /\ outcome'[w].status = "error" /\ outcome'[w].state = "updated"
      BY <1>0, <2>1
    <2>3. ReportAt(w)'
      BY <1>2, <2>1, <2>2 DEF ReportAt, Whole
    <2>4. RecoveringAt(w)' /\ CommittingAt(w)' /\ ProgressAt(w)' /\ UndoingAt(w)'
      BY <2>2 DEF RecoveringAt, CommittingAt, ProgressAt, UndoingAt,
         LockPc, FindingPc, ResolvedPc, ClearedPc, StagingPc, StagedPc, OldMovedPc, NewInstalledPc,
         BackupRemovedPc, UndoingPc, UndonePc, CommittingPc, ReplacingPc, SyncedPc,
         BeforeTransaction
    <2> QED BY <2>3, <2>4 DEF WriterAt
  <1> QED BY <1>5, <1>6, <1>7, <1>8 DEF CommittingPc

\* ... with the disk as it was.
LEMMA CommitFailsKeeps ==
    ASSUME RegistrationIInv, NEW w \in Writers, pc[w] \in CommittingPc \cup {"journal_create"},
           CommitFails(w) \/ (\E x : CommitFailsOwning(w, x)),
           prior' = prior, base' = base, acked' = acked, invocations' = invocations,
           pc[w] = "dropping_backup" => TornErrors
    PROVE  StepKeeps(w)
  <1>1. fs' = fs /\ durable' = durable
    BY DEF CommitFails, CommitFailsOwning, disk
  <1>2. DiskStep
    BY <1>1, QuietDisk DEF RegistrationIInv
  <1>3. \E j : /\ RollbackAfterCommit(w, j)
               /\ j.tx = job[w].tx /\ j.want = job[w].want
               /\ j.old = job[w].old /\ j.root = job[w].root
    <2>1. \A x : LET j == [job[w] EXCEPT !.ctl = x]
                 IN  /\ j.tx = job[w].tx /\ j.want = job[w].want
                     /\ j.old = job[w].old /\ j.root = job[w].root
      BY WriterState DEF RegistrationIInv, Job
    <2> QED BY <2>1 DEF CommitFails, CommitFailsOwning
  <1>4. /\ Journaled(fs) => fs.journal.tx = job[w].tx /\ fs.journal.new = job[w].want
        /\ pc[w] \notin {"journal_create", "journal_write", "drop_journal_flush"} => Journaled(fs)
    BY CommitState DEF Own
  <1>5. WriterAt(w)'
    BY <1>1, <1>3, <1>4, RollsBack
  <1> QED BY <1>2, <1>5 DEF StepKeeps

\* The parent is flushed, and the next step may rely on it.
LEMMA CommitSyncs ==
    ASSUME RegistrationIInv, NEW w \in Writers, SyncParent, NEW to, Goto(w, to),
           \/ pc[w] = "staging_flush" /\ to = "journal_create"
           \/ pc[w] \in {"move_old_flush", "old_flush"} /\ to \in {"old_temporary", "install"}
           \/ pc[w] = "install_flush" /\ to = "new_temporary"
           \/ pc[w] = "drop_backup_flush" /\ to = "drop_journal",
           prior' = prior, base' = base, acked' = acked, invocations' = invocations
    PROVE  StepKeeps(w)
  <1>1. pc'[w] = to /\ job' = job /\ fs' = fs /\ durable' = {fs}
    BY LocalMoves DEF SyncParent, RegistrationIInv
  <1>2. DiskStep
    BY <1>1, QuietDisk DEF RegistrationIInv
  <1>3. /\ pc[w] \in ReplacingPc /\ CommittingAt(w) /\ ProgressAt(w)
        /\ pc[w] = "staging_flush" => fs.journal = NoFile
    BY ClearedState
       DEF RegistrationIInv, WriterAt, ReplacingPc, StagingPc, CommittingPc, OldMovedPc,
           NewInstalledPc, BackupRemovedPc, ClearedPc
  <1>4. Begun(w)' /\ Old(w)' = Old(w) /\ New(w)' = New(w) /\ (Own(w)' <=> Own(w))
    BY <1>1, <1>3, BegunKept DEF Own, Journaled
  <1>5. CommittingAt(w)' /\ ProgressAt(w)'
    BY <1>1, <1>3, <1>4 DEF CommittingAt, ProgressAt, Begun, LockPc, BeforeTransaction, ReplacingPc,
       StagingPc, StagedPc, OldMovedPc, NewInstalledPc, BackupRemovedPc, UndoingPc, UndonePc,
       CommittingPc, SyncedPc
  <1>6. WriterAt(w)'
    BY <1>1, <1>3, <1>5, ArrivesCommitting
       DEF CommittingPc, OldMovedPc, NewInstalledPc, BackupRemovedPc
  <1> QED BY <1>2, <1>6 DEF StepKeeps

LEMMA JournalCreateKeeps ==
    ASSUME RegistrationIInv, NEW w \in Writers, JournalCreate(w), invocations' = invocations
    PROVE  StepKeeps(w)
  <1> DEFINE g == [fs EXCEPT !.journal = Torn]
  <1>1. /\ pc[w] = "journal_create" /\ prior' = prior /\ base' = base /\ acked' = acked
    BY DEF JournalCreate, At, history
  <1>2. /\ fs \in Entries /\ Coherent(fs) /\ pc[w] \in ReplacingPc /\ CommittingAt(w)
        /\ ProgressAt(w) /\ fs.journal = NoFile /\ ~Journaled(fs)
    BY <1>1, CommitState
  <1>3. CASE Mutate(g) /\ Goto(w, "journal_write")
    <2>1. /\ g.journal = Torn /\ g.out = fs.out /\ g.lock = fs.lock /\ g.backup = fs.backup
          /\ g.staging = fs.staging /\ ~Journaled(g) /\ fs = [g EXCEPT !.journal = NoFile]
      BY <1>2 DEF Entries, Journaled, Torn
    <2>2. Mutate(g)
      BY <1>3
    <2> HIDE DEF g
    <2>3. Coherent(g)
      BY <1>2, <2>1 DEF Coherent
    <2>4. DiskStep
      BY <1>1, <1>2, <2>1, <2>2, <2>3, SameOutput DEF RegistrationIInv
    <2>5. pc'[w] = "journal_write" /\ job' = job /\ fs' = g /\ durable' = durable \cup {g}
      BY <1>3, <2>2, LocalMoves DEF RegistrationIInv, Mutate
    <2>6. durable = {fs} /\ job[w].root = "staged" /\ fs.out = Old(w)
          /\ fs.staging[job[w].tx] = New(w)
      BY <1>1, <1>2 DEF CommittingAt, ProgressAt, SyncedPc, StagingPc
    <2>7. durable' \subseteq {fs', [fs' EXCEPT !.journal = NoFile]}
      BY <2>1, <2>5, <2>6
    <2>8. Begun(w)' /\ Old(w)' = Old(w) /\ New(w)' = New(w)
      BY <1>1, <1>2, <2>5, BegunKept
    <2>9. CommittingAt(w)' /\ ProgressAt(w)'
      BY <2>1, <2>5, <2>6, <2>7, <2>8 DEF CommittingAt, ProgressAt, Begun, LockPc, BeforeTransaction,
         ReplacingPc, StagingPc, StagedPc, OldMovedPc, NewInstalledPc, BackupRemovedPc, UndoingPc,
         UndonePc, CommittingPc, SyncedPc
    <2>10. WriterAt(w)'
      BY <2>5, <2>9, ArrivesCommitting DEF CommittingPc, StagedPc
    <2> QED BY <2>4, <2>10 DEF StepKeeps
  <1>4. CASE CommitFails(w)
    BY <1>1, <1>4, CommitFailsKeeps
  <1> QED BY <1>3, <1>4 DEF JournalCreate

\* The record is written: from here on a power loss may bring it back.
LEMMA JournalRecorded ==
    ASSUME RegistrationIInv, NEW w \in Writers, pc[w] = "journal_write",
           fs' = [fs EXCEPT !.journal = OwnRecord(w, "staged")],
           fs' \in durable',
           \A f \in durable' : f = fs' \/ f = fs \/ f = [fs EXCEPT !.journal = NoFile],
           prior' = prior, invocations' = invocations, acked' = FALSE
    PROVE  /\ RecordStep(w) /\ fs'.journal = OwnRecord(w, "staged")
           /\ fs'.out = fs.out /\ fs'.backup = fs.backup /\ fs'.staging = fs.staging
  <1> DEFINE n == job[w].tx
             g == fs'
             e == [fs EXCEPT !.journal = NoFile]
  <1>1. /\ fs \in Entries /\ Coherent(fs) /\ n \in TxId /\ CommittingAt(w) /\ ~Journaled(fs)
        /\ \A m \in TxId : fs.backup[m] = Absent
        /\ pc[w] \in ReplacingPc /\ w \in Procs
    BY CommitState DEF StagedPc, CommittingPc
  <1>2. /\ g.journal = OwnRecord(w, "staged") /\ g.out = fs.out /\ g.lock = fs.lock
        /\ g.backup = fs.backup /\ g.staging = fs.staging
        /\ e.journal = NoFile /\ e.out = fs.out /\ e.backup = fs.backup
    BY <1>1 DEF Entries
  <1> HIDE DEF g, e
  <1>3. /\ Journaled(g) /\ g.journal.tx = n /\ g.journal.new = job[w].want
        /\ g.journal.old = job[w].old /\ ~Journaled(e)
    BY <1>2, JournalTypes DEF OwnRecord, Record, Journaled
  <1>4. /\ fs.out = Old(w) /\ fs.staging[n] = New(w) /\ Old(w) \notin {Unreadable, New(w)}
        /\ job[w].old = JournalOldRoot(Old(w)) /\ Old(w) \in Loose(Old(w))
        /\ job[w].tx <= invocations
    <2>1. fs.out = Old(w) /\ fs.staging[n] = New(w) /\ Old(w) \notin {Unreadable, New(w)}
          /\ job[w].old = JournalOldRoot(Old(w))
      BY <1>1 DEF CommittingAt, StagedPc
    <2>2. job[w].tx <= invocations
      BY <1>1 DEF RegistrationIInv, FreshIInv
    <2> QED BY <2>1, <2>2 DEF Loose
  <1>5. Replaced(g) = Old(w) /\ Planned(g) = New(w)
    BY <1>3 DEF Replaced, Planned, Old, New
  <1>6. Coherent(g)
    BY <1>1, <1>2, <1>3, <1>4, <1>5 DEF Coherent, Kept
  <1>7. Coherent(e)
    BY <1>1, <1>2, <1>3 DEF Coherent
  <1>8. ASSUME NEW f \in durable'
        PROVE  Coherent(f) /\ Precedes(f, g) /\ (Journaled(f) => f.journal.tx = n)
    <2>1. f = g \/ (~Journaled(f) /\ f.out = g.out /\ Coherent(f))
      BY <1>1, <1>2, <1>3, <1>7 DEF g, e
    <2> QED BY <1>2, <1>3, <1>4, <1>5, <1>6, <2>1 DEF Precedes, SameTransaction
  <1>9. /\ \A f : Coherent(f) <=> Coherent(f)'
        /\ \A f : Precedes(f, g) <=> Precedes(f, fs)'
    BY DEF Coherent, Precedes, Journaled, Replaced, Planned, Kept, Moved, Installed, g
  <1>10. DiskIInv'
    BY <1>8, <1>9 DEF DiskIInv
  <1> QED BY <1>2, <1>8, <1>10 DEF RecordStep, g

LEMMA JournalWriteKeeps ==
    ASSUME RegistrationIInv, NEW w \in Writers, JournalWrite(w), invocations' = invocations
    PROVE  StepKeeps(w)
  <1> DEFINE record == OwnRecord(w, "staged")
             written(f) == [f EXCEPT !.journal = IF f.journal = Torn THEN record ELSE f.journal]
             g == [fs EXCEPT !.journal = record]
             e == [fs EXCEPT !.journal = NoFile]
  <1>1. /\ pc[w] = "journal_write" /\ prior' = prior /\ base' = base
    BY DEF JournalWrite, At
  <1>2. /\ fs \in Entries /\ fs \in durable /\ pc[w] \in ReplacingPc /\ CommittingAt(w)
        /\ ProgressAt(w) /\ fs.journal = Torn /\ durable \subseteq {fs, e}
        /\ job[w].root = "staged"
    BY <1>1, CommitState DEF CommittingAt, ProgressAt, StagedPc, CommittingPc
  <1>3. written(fs) = g /\ written(e) = e
    <2>1. e.journal = NoFile /\ e \in [{"lock", "journal", "temporary", "out", "staging", "backup"} ->
                                        {e.lock, e.journal, e.temporary, e.out, e.staging, e.backup}]
      BY <1>2 DEF Entries
    <2>2. [e EXCEPT !.journal = e.journal] = e
      BY <2>1
    <2>3. NoFile # Torn
      BY DEF NoFile, Torn
    <2> QED BY <1>2, <2>1, <2>2, <2>3
  <1>4. CASE /\ fs' = written(fs) /\ durable' = {written(f) : f \in durable}
             /\ Goto(w, "journal_flush") /\ acked' = FALSE
    <2>1. fs' = g /\ \A f \in durable' : f = g \/ f = e
      BY <1>2, <1>3, <1>4
    <2>2. fs' \in durable'
      BY <1>2, <1>4
    <2>3. /\ RecordStep(w) /\ fs'.journal = record
          /\ fs'.out = fs.out /\ fs'.backup = fs.backup /\ fs'.staging = fs.staging
      BY <1>1, <1>4, <2>1, <2>2, JournalRecorded
    <2>4. pc'[w] = "journal_flush" /\ job' = job
      BY <1>4, LocalMoves DEF RegistrationIInv
    <2>5. Begun(w)' /\ Old(w)' = Old(w) /\ New(w)' = New(w)
      BY <1>1, <1>2, <2>4, BegunKept
    <2>6. Own(w)'
      BY <2>3, <2>4 DEF Own, Journaled, OwnRecord, Record
    <2>7. fs.out = Old(w) /\ fs.staging[job[w].tx] = New(w)
      BY <1>1, <1>2 DEF CommittingAt, StagedPc
    <2> HIDE DEF record, written, g, e
    <2>8. CommittingAt(w)' /\ ProgressAt(w)'
      BY <1>2, <2>3, <2>4, <2>5, <2>6, <2>7 DEF CommittingAt, ProgressAt, Begun, LockPc,
         BeforeTransaction, ReplacingPc, StagingPc, StagedPc, OldMovedPc, NewInstalledPc,
         BackupRemovedPc, UndoingPc, UndonePc, CommittingPc, SyncedPc
    <2>9. WriterAt(w)'
      BY <2>4, <2>8, ArrivesCommitting DEF CommittingPc, StagedPc
    <2> QED BY <2>3, <2>9 DEF StepKeeps
  <1>5. CASE CommitFailsOwning(w, "journal") /\ acked' = acked
    BY <1>1, <1>5, CommitFailsKeeps DEF CommittingPc, StagedPc
  <1>6. CASE /\ Mutate(written(fs)) /\ acked' = FALSE
             /\ RollbackAfterCommit(w, [job[w] EXCEPT !.ctl = "journal"])
    <2>1. /\ fs' = g /\ fs' \in durable' /\ \A f \in durable' : f = g \/ f = fs \/ f = e
      BY <1>2, <1>3, <1>6 DEF Mutate
    <2>2. /\ RecordStep(w) /\ fs'.journal = record
          /\ fs'.out = fs.out /\ fs'.backup = fs.backup /\ fs'.staging = fs.staging
      BY <1>1, <1>6, <2>1, JournalRecorded
    <2>3. fs'.journal.tx = job[w].tx /\ fs'.journal.new = job[w].want
      BY <2>2 DEF OwnRecord, Record
    <2>4. LET j == [job[w] EXCEPT !.ctl = "journal"]
          IN  /\ j.tx = job[w].tx /\ j.want = job[w].want
              /\ j.old = job[w].old /\ j.root = job[w].root
      BY WriterState DEF RegistrationIInv, Job
    <2>5. WriterAt(w)'
      BY <1>1, <1>6, <2>2, <2>3, <2>4, RollsBack DEF CommittingPc, StagedPc
    <2> QED BY <2>2, <2>5 DEF StepKeeps
  <1> QED BY <1>4, <1>5, <1>6 DEF JournalWrite

LEMMA JournalFlushKeeps ==
    ASSUME RegistrationIInv, NEW w \in Writers, JournalFlush(w), invocations' = invocations
    PROVE  StepKeeps(w)
  <1>1. /\ pc[w] = "journal_flush" /\ prior' = prior /\ base' = base /\ acked' = acked
    BY DEF JournalFlush, At, history
  <1>2. /\ pc[w] \in ReplacingPc /\ CommittingAt(w) /\ ProgressAt(w) /\ Own(w)
        /\ \A n \in TxId : fs.backup[n] = Absent
        /\ job[w].tx \in TxId
    BY <1>1, CommitState DEF CommittingPc, StagedPc
  <1>3. CASE SyncParent /\ ~(\E x : CommitFailsOwning(w, x))
    <2>1. /\ \/ Advance(w, "old_moved", "journal", "old_temporary") /\ job[w].old.kind = "absent"
             \/ Advance(w, "staged", "journal", "move_old") /\ job[w].old.kind # "absent"
          /\ fs' = fs /\ durable' = {fs}
      BY <1>3 DEF JournalFlush, SyncParent
    <2>2. DiskStep
      BY <1>1, <2>1, QuietDisk DEF RegistrationIInv
    <2>3. /\ job'[w].tx = job[w].tx /\ job'[w].want = job[w].want /\ job'[w].old = job[w].old
          /\ \/ /\ pc'[w] = "old_temporary" /\ job'[w].root = "old_moved"
                /\ job[w].old.kind = "absent"
             \/ /\ pc'[w] = "move_old" /\ job'[w].root = "staged" /\ job[w].old.kind # "absent"
      BY <2>1, LocalMoves DEF RegistrationIInv
    <2>4. /\ Begun(w)' /\ Old(w)' = Old(w) /\ New(w)' = New(w)
          /\ job[w].old.kind = "absent" <=> Old(w) = Absent
      BY <1>1, <1>2, <2>3, BegunKept
    <2>5. Own(w)'
      BY <1>2, <2>1, <2>3 DEF Own, Journaled
    <2>6. /\ fs.out = Old(w) /\ fs.staging[job[w].tx] = New(w)
          /\ fs.backup[job[w].tx] = Absent
      BY <1>1, <1>2 DEF CommittingAt, StagedPc
    <2>7. CommittingAt(w)' /\ ProgressAt(w)'
      BY <2>1, <2>3, <2>4, <2>5, <2>6 DEF CommittingAt, ProgressAt, Begun, LockPc,
         BeforeTransaction, ReplacingPc, StagingPc, StagedPc, OldMovedPc, NewInstalledPc,
         BackupRemovedPc, UndoingPc, UndonePc, CommittingPc, SyncedPc
    <2>8. WriterAt(w)'
      BY <2>3, <2>7, ArrivesCommitting DEF CommittingPc, StagedPc, OldMovedPc
    <2> QED BY <2>2, <2>8 DEF StepKeeps
  <1>4. CASE \E x : CommitFailsOwning(w, x)
    BY <1>1, <1>4, CommitFailsKeeps DEF CommittingPc, StagedPc
  <1> QED BY <1>3, <1>4 DEF JournalFlush

\* The root is moved under a journal no power loss can take away.
LEMMA MoveOldRootKeeps ==
    ASSUME RegistrationIInv, NEW w \in Writers, MoveOldRoot(w), invocations' = invocations
    PROVE  StepKeeps(w)
  <1> DEFINE n == job[w].tx
             g == [fs EXCEPT !.out = Absent, !.backup[n] = fs.out]
  <1>1. /\ pc[w] = "move_old" /\ prior' = prior /\ base' = base /\ acked' = acked
    BY DEF MoveOldRoot, At, history
  <1>2. /\ fs \in Entries /\ Coherent(fs) /\ n \in TxId /\ pc[w] \in ReplacingPc
        /\ CommittingAt(w) /\ Own(w) /\ Journaled(fs) /\ fs.journal.tx = n
        /\ Replaced(fs) = Old(w) /\ Planned(fs) = New(w)
    BY <1>1, CommitState DEF CommittingPc, StagedPc
  <1>3. /\ fs.out = Old(w) /\ fs.staging[n] = New(w) /\ durable = {fs} /\ Old(w) # Absent
        /\ Old(w) \in Loose(Old(w))
    BY <1>1, <1>2 DEF CommittingAt, StagedPc, SyncedPc, Loose
  <1>4. CASE Mutate(g) /\ Advance(w, "old_moved", "journal", "move_old_flush")
    <2>1. /\ g.journal = fs.journal /\ g.lock = fs.lock /\ g.out = Absent /\ g.staging = fs.staging
          /\ g.backup[n] = Old(w) /\ \A m \in TxId : m # n => g.backup[m] = fs.backup[m]
      BY <1>2, <1>3 DEF Entries
    <2>2. Mutate(g)
      BY <1>4
    <2> HIDE DEF g
    <2>3. Journaled(g) /\ Replaced(g) = Old(w) /\ Planned(g) = New(w)
      BY <1>2, <2>1 DEF Journaled, Replaced, Planned
    <2>4. Moved(g)
      BY <1>2, <1>3, <2>1, <2>3 DEF Moved
    <2>5. Coherent(g)
      BY <1>2, <2>1, <2>3, <2>4 DEF Coherent
    <2>6. DiskStep
      BY <1>1, <1>2, <1>3, <2>1, <2>2, <2>5, MovedOutput DEF RegistrationIInv
    <2>7. /\ pc'[w] = "move_old_flush" /\ fs' = g /\ job'[w].root = "old_moved"
          /\ job'[w].tx = job[w].tx /\ job'[w].want = job[w].want /\ job'[w].old = job[w].old
      BY <1>4, <2>2, LocalMoves DEF RegistrationIInv, Mutate
    <2>8. Begun(w)' /\ Old(w)' = Old(w) /\ New(w)' = New(w)
      BY <1>1, <1>2, <2>7, BegunKept
    <2>9. Own(w)'
      BY <1>2, <2>1, <2>7 DEF Own, Journaled
    <2>10. CommittingAt(w)' /\ ProgressAt(w)'
      BY <1>3, <2>1, <2>7, <2>8, <2>9 DEF CommittingAt, ProgressAt, Begun, LockPc,
         BeforeTransaction, ReplacingPc, StagingPc, StagedPc, OldMovedPc, NewInstalledPc,
         BackupRemovedPc, UndoingPc, UndonePc, CommittingPc, SyncedPc
    <2>11. WriterAt(w)'
      BY <2>7, <2>10, ArrivesCommitting DEF CommittingPc, OldMovedPc
    <2> QED BY <2>6, <2>11 DEF StepKeeps
  <1>5. CASE CommitFails(w)
    BY <1>1, <1>5, CommitFailsKeeps DEF CommittingPc, StagedPc
  <1> QED BY <1>4, <1>5 DEF MoveOldRoot

LEMMA InstallNewRootKeeps ==
    ASSUME RegistrationIInv, NEW w \in Writers, InstallNewRoot(w), invocations' = invocations
    PROVE  StepKeeps(w)
  <1> DEFINE n == job[w].tx
             g == [fs EXCEPT !.out = fs.staging[n], !.staging[n] = Absent]
  <1>1. /\ pc[w] = "install" /\ prior' = prior /\ base' = base /\ acked' = acked
    BY DEF InstallNewRoot, At, history
  <1>2. /\ fs \in Entries /\ Coherent(fs) /\ n \in TxId /\ pc[w] \in ReplacingPc
        /\ CommittingAt(w) /\ Own(w) /\ Journaled(fs) /\ fs.journal.tx = n
        /\ Replaced(fs) = Old(w) /\ Planned(fs) = New(w)
    BY <1>1, CommitState DEF CommittingPc, OldMovedPc
  <1>3. /\ fs.staging[n] = New(w) /\ durable = {fs} /\ fs.backup[n] = Old(w)
    BY <1>1, <1>2 DEF CommittingAt, OldMovedPc, SyncedPc
  <1>4. CASE Mutate(g) /\ Advance(w, "new_installed", "journal", "install_flush")
    <2>1. /\ g.journal = fs.journal /\ g.lock = fs.lock /\ g.out = New(w) /\ g.backup = fs.backup
          /\ g.staging[n] = Absent
      BY <1>2, <1>3 DEF Entries
    <2>2. Mutate(g)
      BY <1>4
    <2> HIDE DEF g
    <2>3. Journaled(g) /\ Replaced(g) = Old(w) /\ Planned(g) = New(w)
      BY <1>2, <2>1 DEF Journaled, Replaced, Planned
    <2>4. Installed(g)
      BY <1>2, <1>3, <2>1, <2>3 DEF Installed
    <2>5. Coherent(g)
      BY <1>2, <2>1, <2>3, <2>4 DEF Coherent
    <2>6. DiskStep
      BY <1>1, <1>2, <1>3, <2>1, <2>2, <2>5, MovedOutput DEF RegistrationIInv
    <2>7. /\ pc'[w] = "install_flush" /\ fs' = g /\ job'[w].root = "new_installed"
          /\ job'[w].tx = job[w].tx /\ job'[w].want = job[w].want /\ job'[w].old = job[w].old
      BY <1>4, <2>2, LocalMoves DEF RegistrationIInv, Mutate
    <2>8. Begun(w)' /\ Old(w)' = Old(w) /\ New(w)' = New(w)
      BY <1>1, <1>2, <2>7, BegunKept
    <2>9. Own(w)'
      BY <1>2, <2>1, <2>7 DEF Own, Journaled
    <2>10. CommittingAt(w)' /\ ProgressAt(w)'
      BY <1>3, <2>1, <2>7, <2>8, <2>9 DEF CommittingAt, ProgressAt, Begun, LockPc,
         BeforeTransaction, ReplacingPc, StagingPc, StagedPc, OldMovedPc, NewInstalledPc,
         BackupRemovedPc, UndoingPc, UndonePc, CommittingPc, SyncedPc
    <2>11. WriterAt(w)'
      BY <2>7, <2>10, ArrivesCommitting DEF CommittingPc, NewInstalledPc
    <2> QED BY <2>6, <2>11 DEF StepKeeps
  <1>5. CASE CommitFails(w)
    BY <1>1, <1>5, CommitFailsKeeps DEF CommittingPc, OldMovedPc
  <1> QED BY <1>4, <1>5 DEF InstallNewRoot

LEMMA JournalTemporaryKeeps ==
    ASSUME RegistrationIInv, NEW w \in Writers, NEW phase \in Phase, NEW from, NEW to,
           JournalTemporary(w, phase, from, to),
           \/ from = "old_temporary" /\ to = "old_replace"
           \/ from = "new_temporary" /\ to = "new_replace",
           invocations' = invocations
    PROVE  StepKeeps(w)
  <1> DEFINE n == job[w].tx
             record == OwnRecord(w, phase)
  <1>1. /\ pc[w] = from /\ prior' = prior /\ base' = base /\ acked' = acked
        /\ pc[w] \in CommittingPc /\ pc[w] \in {"old_temporary", "new_temporary"}
    BY DEF JournalTemporary, At, history, CommittingPc, OldMovedPc, NewInstalledPc
  <1>2. /\ fs \in Entries /\ n \in TxId /\ pc[w] \in ReplacingPc /\ CommittingAt(w)
        /\ ProgressAt(w) /\ Own(w) /\ Journaled(fs)
    BY <1>1, CommitState
  <1>3. ASSUME Mutate([fs EXCEPT !.temporary[n] = record])
        PROVE  /\ DiskStep /\ fs'.journal = fs.journal /\ fs'.out = fs.out
               /\ fs'.backup = fs.backup /\ fs'.staging = fs.staging /\ fs'.temporary[n] = record
    BY <1>1, <1>2, <1>3, TemporaryChanges DEF RegistrationIInv
  <1> HIDE DEF record
  <1>4. CASE Mutate([fs EXCEPT !.temporary[n] = record]) /\ Goto(w, to)
    <2>1. pc'[w] = to /\ job' = job
      BY <1>4, LocalMoves DEF RegistrationIInv
    <2>2. Begun(w)' /\ Old(w)' = Old(w) /\ New(w)' = New(w)
      BY <1>1, <1>2, <2>1, BegunKept
    <2>3. Own(w)'
      BY <1>2, <1>3, <1>4, <2>1 DEF Own, Journaled
    <2>4. fs'.temporary[n] \in {OwnRecord(w, p) : p \in Phase}'
      BY <1>3, <1>4, <2>1 DEF record, OwnRecord
    <2>5. CommittingAt(w)' /\ ProgressAt(w)'
      BY <1>1, <1>2, <1>3, <1>4, <2>1, <2>2, <2>3, <2>4 DEF CommittingAt, ProgressAt, Begun, LockPc,
         BeforeTransaction, ReplacingPc, StagingPc, StagedPc, OldMovedPc, NewInstalledPc,
         BackupRemovedPc, UndoingPc, UndonePc, CommittingPc, SyncedPc
    <2>6. WriterAt(w)'
      BY <2>1, <2>5, ArrivesCommitting DEF CommittingPc, OldMovedPc, NewInstalledPc
    <2> QED BY <1>3, <1>4, <2>6 DEF StepKeeps
  <1>5. CASE CommitFails(w)
    BY <1>1, <1>5, CommitFailsKeeps
  <1>6. CASE /\ Mutate([fs EXCEPT !.temporary[n] = record])
             /\ RollbackAfterCommit(w, [job[w] EXCEPT !.ctl = "both"])
    <2>1. LET j == [job[w] EXCEPT !.ctl = "both"]
          IN  /\ j.tx = job[w].tx /\ j.want = job[w].want
              /\ j.old = job[w].old /\ j.root = job[w].root
      BY WriterState DEF RegistrationIInv, Job
    <2>2. Journaled(fs') /\ fs'.journal.tx = n /\ fs'.journal.new = job[w].want
      BY <1>2, <1>3, <1>6 DEF Own, Journaled
    <2>3. WriterAt(w)'
      BY <1>1, <1>3, <1>6, <2>1, <2>2, RollsBack
    <2> QED BY <1>3, <1>6, <2>3 DEF StepKeeps
  <1> QED BY <1>4, <1>5, <1>6 DEF JournalTemporary, record

LEMMA JournalReplaceKeeps ==
    ASSUME RegistrationIInv, NEW w \in Writers, NEW from, NEW to, JournalReplace(w, from, to),
           \/ from = "old_replace" /\ to = "old_flush"
           \/ from = "new_replace" /\ to = "new_flush",
           invocations' = invocations
    PROVE  StepKeeps(w)
  <1> DEFINE n == job[w].tx
             g == [fs EXCEPT !.journal = fs.temporary[n], !.temporary[n] = NoFile]
  <1>1. /\ pc[w] = from /\ prior' = prior /\ base' = base /\ acked' = acked
        /\ pc[w] \in CommittingPc /\ pc[w] \in {"old_replace", "new_replace"}
    BY DEF JournalReplace, At, history, CommittingPc, OldMovedPc, NewInstalledPc
  <1>2. /\ fs \in Entries /\ Coherent(fs) /\ n \in TxId /\ pc[w] \in ReplacingPc
        /\ CommittingAt(w) /\ ProgressAt(w) /\ Own(w) /\ Journaled(fs) /\ fs.journal.tx = n
        /\ Replaced(fs) = Old(w) /\ Planned(fs) = New(w)
    BY <1>1, CommitState
  <1>3. PICK phase \in Phase : fs.temporary[n] = OwnRecord(w, phase)
    BY <1>1, <1>2 DEF CommittingAt
  <1>4. CASE Mutate(g) /\ Goto(w, to)
    <2>1. /\ g.journal = OwnRecord(w, phase) /\ g.lock = fs.lock /\ g.out = fs.out
          /\ g.backup = fs.backup /\ g.staging = fs.staging
      BY <1>2, <1>3 DEF Entries
    <2>2. Mutate(g)
      BY <1>4
    <2> HIDE DEF g
    <2>3. /\ Journaled(g) /\ g.journal.tx = n /\ g.journal.new = job[w].want
          /\ g.journal.old = job[w].old
      BY <2>1 DEF Journaled, OwnRecord, Record
    <2>4. /\ Replaced(g) = Old(w) /\ Planned(g) = New(w) /\ SameTransaction(g, fs)
          /\ fs.journal.old = g.journal.old
      BY <1>2, <2>3 DEF Replaced, Planned, Old, New, SameTransaction, Own, Coherent, CommittingAt
    <2>5. Coherent(g)
      BY <1>2, <2>1, <2>3, <2>4 DEF Coherent, Kept, Moved, Installed
    <2>6. DiskStep
      BY <1>1, <1>2, <2>1, <2>2, <2>3, <2>4, <2>5, SameOutput DEF RegistrationIInv
    <2>7. pc'[w] = to /\ job' = job /\ fs' = g
      BY <1>4, <2>2, LocalMoves DEF RegistrationIInv, Mutate
    <2>8. Begun(w)' /\ Old(w)' = Old(w) /\ New(w)' = New(w)
      BY <1>1, <1>2, <2>7, BegunKept
    <2>9. Own(w)'
      BY <2>3, <2>7 DEF Own, Journaled
    <2>10. CommittingAt(w)' /\ ProgressAt(w)'
      BY <1>1, <1>2, <2>1, <2>7, <2>8, <2>9 DEF CommittingAt, ProgressAt, Begun, LockPc,
         BeforeTransaction, ReplacingPc, StagingPc, StagedPc, OldMovedPc, NewInstalledPc,
         BackupRemovedPc, UndoingPc, UndonePc, CommittingPc, SyncedPc
    <2>11. WriterAt(w)'
      BY <2>7, <2>10, ArrivesCommitting DEF CommittingPc, OldMovedPc, NewInstalledPc
    <2> QED BY <2>6, <2>11 DEF StepKeeps
  <1>5. CASE CommitFailsOwning(w, "both")
    BY <1>1, <1>5, CommitFailsKeeps
  <1> QED BY <1>4, <1>5 DEF JournalReplace

LEMMA NewInstalledFlushKeeps ==
    ASSUME RegistrationIInv, NEW w \in Writers, NewInstalledFlush(w), invocations' = invocations
    PROVE  StepKeeps(w)
  <1>1. /\ pc[w] = "new_flush" /\ prior' = prior /\ base' = base /\ acked' = acked
    BY DEF NewInstalledFlush, At, history
  <1>2. /\ pc[w] \in ReplacingPc /\ CommittingAt(w) /\ Own(w)
    BY <1>1, CommitState DEF CommittingPc, NewInstalledPc
  <1>3. CASE SyncParent /\ ~CommitFails(w)
    <2>1. /\ \/ Advance(w, "backup_removed", "journal", "drop_journal")
                  /\ job[w].old.kind = "absent"
             \/ Advance(w, "new_installed", "journal", "drop_backup")
                  /\ job[w].old.kind # "absent"
          /\ fs' = fs /\ durable' = {fs}
      BY <1>3 DEF NewInstalledFlush, SyncParent
    <2>2. DiskStep
      BY <1>1, <2>1, QuietDisk DEF RegistrationIInv
    <2>3. /\ job'[w].tx = job[w].tx /\ job'[w].want = job[w].want /\ job'[w].old = job[w].old
          /\ \/ /\ pc'[w] = "drop_journal" /\ job'[w].root = "backup_removed"
                /\ job[w].old.kind = "absent"
             \/ /\ pc'[w] = "drop_backup" /\ job'[w].root = "new_installed"
                /\ job[w].old.kind # "absent"
      BY <2>1, LocalMoves DEF RegistrationIInv
    <2>4. /\ Begun(w)' /\ Old(w)' = Old(w) /\ New(w)' = New(w)
          /\ job[w].old.kind = "absent" <=> Old(w) = Absent
      BY <1>1, <1>2, <2>3, BegunKept
    <2>5. Own(w)'
      BY <1>2, <2>1, <2>3 DEF Own, Journaled
    <2>6. fs.out = New(w) /\ fs.backup[job[w].tx] = Old(w)
      BY <1>1, <1>2 DEF CommittingAt, NewInstalledPc
    <2>7. CommittingAt(w)' /\ ProgressAt(w)'
      BY <2>1, <2>3, <2>4, <2>5, <2>6 DEF CommittingAt, ProgressAt, Begun, LockPc,
         BeforeTransaction, ReplacingPc, StagingPc, StagedPc, OldMovedPc, NewInstalledPc,
         BackupRemovedPc, UndoingPc, UndonePc, CommittingPc, SyncedPc
    <2>8. WriterAt(w)'
      BY <2>3, <2>7, ArrivesCommitting DEF CommittingPc, NewInstalledPc, BackupRemovedPc
    <2> QED BY <2>2, <2>8 DEF StepKeeps
  <1>4. CASE CommitFails(w)
    BY <1>1, <1>4, CommitFailsKeeps DEF CommittingPc, NewInstalledPc
  <1> QED BY <1>3, <1>4 DEF NewInstalledFlush

LEMMA RemoveBackupKeeps ==
    ASSUME RegistrationIInv, NEW w \in Writers, RemoveBackup(w), invocations' = invocations
    PROVE  StepKeeps(w)
  <1> DEFINE n == job[w].tx
  <1>1. /\ pc[w] = "drop_backup" /\ prior' = prior /\ base' = base /\ acked' = acked
    BY DEF RemoveBackup, At, history
  <1>2. /\ pc[w] \in ReplacingPc /\ CommittingAt(w) /\ ProgressAt(w) /\ Own(w)
        /\ Journaled(fs) /\ fs.journal.tx = n /\ Installed(fs)
    BY <1>1, CommitState DEF CommittingPc, NewInstalledPc
  <1>3. /\ fs.out = New(w) /\ fs.backup[n] = Old(w) /\ Old(w) # Absent
        /\ job[w].root = "new_installed"
    BY <1>1, <1>2 DEF CommittingAt, ProgressAt, NewInstalledPc
  <1>4. CASE /\ \E t \in Remains(fs.backup[n]) : Mutate([fs EXCEPT !.backup[n] = t])
             /\ Goto(w, "dropping_backup")
    <2>1. PICK t \in Remains(fs.backup[n]) : Mutate([fs EXCEPT !.backup[n] = t])
      BY <1>4
    <2>2. /\ DiskStep /\ fs'.journal = fs.journal /\ fs'.out = fs.out /\ fs'.backup[n] = t
      BY <1>1, <1>2, <2>1, BackupChanges DEF RegistrationIInv
    <2>3. pc'[w] = "dropping_backup" /\ job' = job
      BY <1>4, LocalMoves DEF RegistrationIInv
    <2>4. Begun(w)' /\ Old(w)' = Old(w) /\ New(w)' = New(w)
      BY <1>1, <1>2, <2>3, BegunKept
    <2>5. Own(w)' /\ Remains(Old(w))' = Remains(Old(w))
      BY <1>2, <2>2, <2>3, <2>4 DEF Own, Journaled, Remains
    <2>6. CommittingAt(w)' /\ ProgressAt(w)'
      BY <1>3, <2>1, <2>2, <2>3, <2>4, <2>5 DEF CommittingAt, ProgressAt, Begun, LockPc,
         BeforeTransaction, ReplacingPc, StagingPc, StagedPc, OldMovedPc, NewInstalledPc,
         BackupRemovedPc, UndoingPc, UndonePc, CommittingPc, SyncedPc
    <2>7. WriterAt(w)'
      BY <2>3, <2>6, ArrivesCommitting DEF CommittingPc, NewInstalledPc
    <2> QED BY <2>2, <2>7 DEF StepKeeps
  <1>5. CASE CommitFails(w)
    BY <1>1, <1>5, CommitFailsKeeps DEF CommittingPc, NewInstalledPc
  <1> QED BY <1>4, <1>5 DEF RemoveBackup

LEMMA FinishRemoveBackupKeeps ==
    ASSUME RegistrationIInv, NEW w \in Writers, FinishRemoveBackup(w), invocations' = invocations
    PROVE  StepKeeps(w)
  <1> DEFINE n == job[w].tx
  <1>1. /\ pc[w] = "dropping_backup" /\ prior' = prior /\ base' = base /\ acked' = acked
    BY DEF FinishRemoveBackup, At, history
  <1>2. /\ pc[w] \in ReplacingPc /\ CommittingAt(w) /\ Own(w)
        /\ Journaled(fs) /\ fs.journal.tx = n /\ Installed(fs)
    BY <1>1, CommitState DEF CommittingPc, NewInstalledPc
  <1>3. fs.out = New(w)
    BY <1>1, <1>2 DEF CommittingAt, NewInstalledPc
  <1>4. CASE /\ Mutate([fs EXCEPT !.backup[n] = Absent])
             /\ Advance(w, "backup_removed", "journal", "drop_backup_flush")
    <2>1. /\ DiskStep /\ fs'.journal = fs.journal /\ fs'.out = fs.out /\ fs'.backup[n] = Absent
      BY <1>1, <1>2, <1>4, BackupChanges DEF RegistrationIInv
    <2>2. /\ pc'[w] = "drop_backup_flush" /\ job'[w].root = "backup_removed"
          /\ job'[w].tx = job[w].tx /\ job'[w].want = job[w].want /\ job'[w].old = job[w].old
      BY <1>4, LocalMoves DEF RegistrationIInv
    <2>3. Begun(w)' /\ Old(w)' = Old(w) /\ New(w)' = New(w)
      BY <1>1, <1>2, <2>2, BegunKept
    <2>4. Own(w)'
      BY <1>2, <2>1, <2>2 DEF Own, Journaled
    <2>5. CommittingAt(w)' /\ ProgressAt(w)'
      BY <1>3, <2>1, <2>2, <2>3, <2>4 DEF CommittingAt, ProgressAt, Begun, LockPc,
         BeforeTransaction, ReplacingPc, StagingPc, StagedPc, OldMovedPc, NewInstalledPc,
         BackupRemovedPc, UndoingPc, UndonePc, CommittingPc, SyncedPc
    <2>6. WriterAt(w)'
      BY <2>2, <2>5, ArrivesCommitting DEF CommittingPc, BackupRemovedPc
    <2> QED BY <2>1, <2>6 DEF StepKeeps
  <1>5. CASE TornErrors /\ CommitFails(w)
    BY <1>1, <1>5, CommitFailsKeeps DEF CommittingPc, NewInstalledPc
  <1> QED BY <1>4, <1>5 DEF FinishRemoveBackup

LEMMA RemoveJournalKeeps ==
    ASSUME RegistrationIInv, NEW w \in Writers, RemoveJournal(w), invocations' = invocations
    PROVE  StepKeeps(w)
  <1>1. /\ pc[w] = "drop_journal" /\ prior' = prior /\ base' = base /\ acked' = acked
    BY DEF RemoveJournal, At, history
  <1>2. /\ pc[w] \in ReplacingPc /\ CommittingAt(w) /\ fs.journal.tx = job[w].tx
        /\ job[w].tx \in TxId
    BY <1>1, CommitState DEF CommittingPc, BackupRemovedPc
  <1>3. fs.out = New(w) /\ fs.backup[job[w].tx] = Absent
    BY <1>1, <1>2 DEF CommittingAt, BackupRemovedPc
  <1>4. CASE /\ Mutate([fs EXCEPT !.journal = NoFile])
             /\ Advance(w, "backup_removed", "none", "drop_journal_flush")
    <2>1. /\ DiskStep /\ fs'.journal = NoFile /\ fs'.out = fs.out
          /\ fs'.backup[job[w].tx] = Absent
      BY <1>1, <1>2, <1>3, <1>4, JournalRemoved DEF RegistrationIInv
    <2>2. /\ pc'[w] = "drop_journal_flush" /\ job'[w].root = "backup_removed"
          /\ job'[w].tx = job[w].tx /\ job'[w].want = job[w].want /\ job'[w].old = job[w].old
      BY <1>4, LocalMoves DEF RegistrationIInv
    <2>3. Begun(w)' /\ Old(w)' = Old(w) /\ New(w)' = New(w)
      BY <1>1, <1>2, <2>2, BegunKept
    <2>4. CommittingAt(w)' /\ ProgressAt(w)'
      BY <1>3, <2>1, <2>2, <2>3 DEF CommittingAt, ProgressAt, Begun, LockPc,
         BeforeTransaction, ReplacingPc, StagingPc, StagedPc, OldMovedPc, NewInstalledPc,
         BackupRemovedPc, UndoingPc, UndonePc, CommittingPc, SyncedPc
    <2>5. WriterAt(w)'
      BY <2>1, <2>2, <2>4, ArrivesCommitting DEF CommittingPc, BackupRemovedPc
    <2> QED BY <2>1, <2>5 DEF StepKeeps
  <1>5. CASE CommitFails(w)
    BY <1>1, <1>5, CommitFailsKeeps DEF CommittingPc, BackupRemovedPc
  <1> QED BY <1>4, <1>5 DEF RemoveJournal

\* The write is reported: no power loss can reopen its transaction.
LEMMA RemoveJournalFlushKeeps ==
    ASSUME RegistrationIInv, NEW w \in Writers, RemoveJournalFlush(w), invocations' = invocations
    PROVE  StepKeeps(w)
  <1>1. /\ pc[w] = "drop_journal_flush" /\ prior' = prior /\ base' = base
    BY DEF RemoveJournalFlush, At
  <1>2. /\ pc[w] \in ReplacingPc /\ CommittingAt(w) /\ fs.journal = NoFile /\ ~Journaled(fs)
        /\ fs.out = New(w) /\ Coherent(fs) /\ fs \in durable /\ Precedes(fs, fs)
    BY <1>1, CommitState DEF CommittingPc, BackupRemovedPc, CommittingAt, RegistrationIInv, DiskIInv
  <1>3. CASE SyncParent /\ Finish(w, "written", "updated", "none")
    <2>1. fs' = fs /\ durable' = {fs}
      BY <1>3 DEF SyncParent
    <2>2. DiskIInv'
      BY <1>1, <1>2, <2>1, DiskAfter DEF RegistrationIInv, DiskIInv
    <2>3. DiskStep
      BY <1>2, <2>1, <2>2 DEF DiskStep, NoNewRecord
    <2>4. Whole(fs.out)
      BY <1>2, WriterState DEF Whole, New, RegistrationIInv
    <2>5. WriterAt(w)'
      BY <1>1, <1>2, <1>3, <2>1, <2>4, ReportsAt DEF RegistrationIInv
    <2> QED BY <2>3, <2>5 DEF StepKeeps
  <1>4. CASE CommitFails(w) /\ acked' = acked
    BY <1>1, <1>4, CommitFailsKeeps DEF CommittingPc, BackupRemovedPc
  <1> QED BY <1>3, <1>4 DEF RemoveJournalFlush

LEMMA CommitFlushKeeps ==
    ASSUME RegistrationIInv, NEW w \in Writers, NEW from, NEW to, CommitFlush(w, from, to),
           \/ from = "move_old_flush" /\ to = "old_temporary"
           \/ from = "old_flush" /\ to = "install"
           \/ from = "install_flush" /\ to = "new_temporary"
           \/ from = "drop_backup_flush" /\ to = "drop_journal",
           invocations' = invocations
    PROVE  StepKeeps(w)
  <1>1. /\ pc[w] = from /\ prior' = prior /\ base' = base /\ acked' = acked
        /\ pc[w] \in CommittingPc /\ pc[w] # "dropping_backup"
    BY DEF CommitFlush, At, history, CommittingPc, OldMovedPc, NewInstalledPc, BackupRemovedPc
  <1>2. CASE SyncParent /\ Goto(w, to)
    BY <1>1, <1>2, CommitSyncs
  <1>3. CASE CommitFails(w)
    BY <1>1, <1>3, CommitFailsKeeps
  <1> QED BY <1>2, <1>3 DEF CommitFlush

LEMMA CommitStepKeeps ==
    ASSUME RegistrationIInv, NEW w \in Writers, CommitStep(w), invocations' = invocations
    PROVE  StepKeeps(w)
  <1>1. CASE MoveOldRootFlush(w)    BY <1>1, CommitFlushKeeps DEF MoveOldRootFlush
  <1>2. CASE OldMovedFlush(w)       BY <1>2, CommitFlushKeeps DEF OldMovedFlush
  <1>3. CASE InstallNewRootFlush(w) BY <1>3, CommitFlushKeeps DEF InstallNewRootFlush
  <1>4. CASE RemoveBackupFlush(w)   BY <1>4, CommitFlushKeeps DEF RemoveBackupFlush
  <1>5. CASE OldMovedTemporary(w) \/ NewInstalledTemporary(w)
    BY <1>5, JournalTemporaryKeeps DEF OldMovedTemporary, NewInstalledTemporary, Phase
  <1>6. CASE OldMovedReplace(w) \/ NewInstalledReplace(w)
    BY <1>6, JournalReplaceKeeps DEF OldMovedReplace, NewInstalledReplace
  <1> QED
    BY <1>1, <1>2, <1>3, <1>4, <1>5, <1>6, JournalCreateKeeps, JournalWriteKeeps,
       JournalFlushKeeps, MoveOldRootKeeps, InstallNewRootKeeps, NewInstalledFlushKeeps,
       RemoveBackupKeeps, FinishRemoveBackupKeeps, RemoveJournalKeeps, RemoveJournalFlushKeeps
    DEF CommitStep

LEMMA FlushStagingKeeps ==
    ASSUME RegistrationIInv, NEW w \in Writers, FlushStaging(w), invocations' = invocations
    PROVE  StepKeeps(w)
  <1>1. /\ pc[w] = "staging_flush" /\ UNCHANGED history /\ prior' = prior /\ base' = base
        /\ acked' = acked /\ pc[w] \in ClearedPc \cap StagingPc
    BY DEF FlushStaging, At, history, ClearedPc, StagingPc
  <1>2. CASE SyncParent /\ Goto(w, "journal_create")
    BY <1>1, <1>2, CommitSyncs
  <1>3. CASE StagingFails(w)
    BY <1>1, <1>3, StagingFailsKeeps
  <1> QED BY <1>2, <1>3 DEF FlushStaging

LEMMA StagingStepKeeps ==
    ASSUME RegistrationIInv, NEW w \in Writers, StagingStep(w), invocations' = invocations
    PROVE  StepKeeps(w)
  BY InspectOutputKeeps, MakeStagingKeeps, FillStagingKeeps, FlushStagingKeeps, CleanupKeeps
  DEF StagingStep
-----------------------------------------------------------------------------
(* rollback_after_commit, effect by effect.                                 *)

LEMMA ArrivesUndoing ==
    ASSUME NEW w \in Writers, pc'[w] \in UndoingPc \cup UndonePc, Begun(w)', UndoingAt(w)',
           pc'[w] \in UndoingPc => Own(w)', pc'[w] = "rb_restore" => Old(w)' # Absent
    PROVE  WriterAt(w)'
  <1>1. CommittingAt(w)'
    BY DEF CommittingAt, Begun, ReplacingPc, StagingPc, StagedPc, OldMovedPc,
       NewInstalledPc, BackupRemovedPc, UndoingPc, UndonePc, CommittingPc, SyncedPc
  <1>2. RecoveringAt(w)' /\ ProgressAt(w)' /\ ReportAt(w)'
    BY DEF RecoveringAt, ProgressAt, ReportAt, Reporting, FindingPc, ResolvedPc, ClearedPc,
       LockPc, StagingPc, StagedPc, OldMovedPc, NewInstalledPc, BackupRemovedPc, BeforeTransaction,
       UndoingPc, UndonePc
  <1> QED BY <1>1, <1>2 DEF WriterAt

\* What the rollback steps share.
LEMMA UndoState ==
    ASSUME RegistrationIInv, NEW w \in Writers, pc[w] \in UndoingPc \cup UndonePc
    PROVE  /\ fs \in Entries /\ Coherent(fs) /\ w \in Procs /\ job[w].tx \in TxId
           /\ pc[w] \in ReplacingPc /\ Begun(w) /\ UndoingAt(w)
           /\ pc[w] \in UndoingPc => Own(w)
           /\ Own(w) => /\ Journaled(fs) /\ fs.journal.tx = job[w].tx
                        /\ Replaced(fs) = Old(w) /\ Planned(fs) = New(w)
           /\ pc[w] = "rb_restore" => Old(w) # Absent
           /\ pc[w] = "rb_uninstall" => Installed(fs)
           /\ Journaled(fs) /\ pc[w] \in UndonePc => Own(w) /\ Kept(fs)
  <1>1. fs \in Entries /\ Coherent(fs) /\ w \in Procs /\ job[w].tx \in TxId
    BY WriterState DEF RegistrationIInv, DiskIInv
  <1>2. /\ UndoingAt(w) /\ pc[w] \in ReplacingPc /\ Begun(w)
        /\ pc[w] \in UndoingPc => Own(w)
        /\ pc[w] = "rb_restore" => Old(w) # Absent
    BY DEF RegistrationIInv, WriterAt, CommittingAt, ReplacingPc, Begun, UndoingPc
  <1>3. Own(w) => /\ Journaled(fs) /\ fs.journal.tx = job[w].tx
                  /\ Replaced(fs) = Old(w) /\ Planned(fs) = New(w)
    BY DEF Own, Replaced, Planned, Old, New
  <1>4. /\ New(w) # Absent /\ New(w) \notin Loose(Old(w))
        /\ Old(w) # Absent => Absent \notin Loose(Old(w))
    <2>1. Old(w) \in Tree /\ job[w].want \in Content
      BY WriterState DEF RegistrationIInv, HistoryOK, Old
    <2> QED BY <1>2, <2>1, CompleteTrees, LooseFacts DEF New, Begun
  <1>5. pc[w] = "rb_uninstall" => Installed(fs)
    BY <1>1, <1>2, <1>3, <1>4 DEF UndoingAt, UndoingPc, Coherent, Kept, Moved
  <1>6. Journaled(fs) /\ pc[w] \in UndonePc => Own(w) /\ Kept(fs)
    BY <1>1, <1>2, <1>3, <1>4 DEF UndoingAt, Coherent, Installed, Moved
  <1> QED BY <1>1, <1>2, <1>3, <1>5, <1>6

\* A rollback step fails before the old root is back: its journal stays.
LEMMA UndoFails ==
    ASSUME RegistrationIInv, NEW w \in Writers, pc[w] \in UndoingPc,
           FailsWith(w, "indeterminate"), UNCHANGED history, invocations' = invocations
    PROVE  StepKeeps(w)
  <1>1. /\ fs' = fs /\ durable' = durable /\ prior' = prior /\ base' = base /\ acked' = acked
        /\ Finish(w, "error", "indeterminate", "io")
    BY DEF FailsWith, disk, history
  <1>2. DiskStep
    BY <1>1, QuietDisk DEF RegistrationIInv
  <1>3. /\ fs \in Entries /\ Coherent(fs) /\ UndoingAt(w) /\ Journaled(fs) /\ Own(w)
        /\ fs.journal.tx = job[w].tx /\ Replaced(fs) = Old(w) /\ Planned(fs) = New(w)
    BY UndoState
  <1>4. Old(w) \in Tree /\ New(w) # Absent
    BY <1>3, RecordTypes, CompleteTrees DEF RegistrationIInv, Planned
  <1>5. ~TornErrors => SettledRoot(fs) \in {Replaced(fs), Planned(fs)}
    <2> SUFFICES ASSUME ~TornErrors PROVE SettledRoot(fs) \in {Old(w), New(w)}
      BY <1>3
    <2>1. Loose(Old(w)) = {Old(w)}
      BY <1>4, LooseFacts
    <2>2. CASE pc[w] = "rb_uninstall"
      BY <1>3, <1>4, <2>2, SettledOut DEF UndoingAt, RegistrationIInv
    <2>3. CASE pc[w] \in {"rb_uninstall_flush", "rb_restore"}
      <3>1. fs.out = Absent /\ fs.backup[job[w].tx] = Old(w) /\ fs.staging[job[w].tx] = New(w)
        BY <1>3, <2>1, <2>3 DEF UndoingAt
      <3>2. CASE Old(w) = Absent
        BY <1>3, <3>1, <3>2, SettledOut DEF RegistrationIInv
      <3>3. CASE Old(w) # Absent
        <4>1. Moved(fs)
          BY <1>3, <2>1, <3>1, <3>3 DEF Moved
        <4> QED BY <1>3, <3>1, <4>1, SettledOut DEF RegistrationIInv
      <3> QED BY <3>2, <3>3
    <2>4. CASE pc[w] = "rb_restore_flush"
      <3>1. fs.out = Old(w) /\ fs.backup[fs.journal.tx] = Absent
        BY <1>3, <2>1, <2>4, RecordTypes DEF UndoingAt, UndonePc, RegistrationIInv
      <3> QED BY <1>3, <3>1, SettledOut DEF RegistrationIInv
    <2> QED BY <2>2, <2>3, <2>4 DEF UndoingPc
  <1>6. WriterAt(w)'
    BY <1>1, <1>3, <1>5, ReportsAt DEF RegistrationIInv
  <1> QED BY <1>2, <1>6 DEF StepKeeps

\* The rollback's outcome is reported with the old root in its place.
LEMMA UndoneReports ==
    ASSUME RegistrationIInv, NEW w \in Writers, pc[w] \in UndonePc,
           Finish(w, "error", RollbackState(w), "io"), fs' = fs,
           durable' = durable \/ durable' = {fs},
           UNCHANGED history, invocations' = invocations
    PROVE  StepKeeps(w)
  <1>1. prior' = prior /\ base' = base /\ acked' = acked
    BY DEF history
  <1>2. DiskStep
    BY <1>1, QuietDisk DEF RegistrationIInv
  <1>3. /\ fs \in Entries /\ Coherent(fs) /\ fs.out \in Loose(Old(w)) /\ Old(w) = base[w]
        /\ \A n \in TxId : fs.backup[n] = Absent
        /\ Old(w) \in Tree
    BY UndoState, WriterState DEF UndoingAt, Begun, RegistrationIInv, Old, HistoryOK
  <1>4. ~TornErrors => SettledRoot(fs) = base[w]
    <2>1. SettledRoot(fs) = fs.out
      BY <1>3, SettledOut, RecordTypes DEF RegistrationIInv
    <2> QED BY <1>3, <2>1, LooseFacts
  <1>5. RollbackState(w) \in {"unchanged", "restored"}
    BY DEF RollbackState
  <1>6. WriterAt(w)'
    BY <1>1, <1>4, <1>5, ReportsAt DEF RegistrationIInv
  <1> QED BY <1>2, <1>6 DEF StepKeeps

\* The old root stays in its place while what is left is cleaned up.
LEMMA UndoneMoves ==
    ASSUME RegistrationIInv, NEW w \in Writers, pc[w] \in UndonePc,
           NEW l \in UndonePc \ {"rb_restore_flush"}, Goto(w, l), DiskStep,
           fs'.out = fs.out, \A n \in TxId : fs'.backup[n] = Absent,
           Journaled(fs') => fs'.journal = fs.journal,
           prior' = prior, base' = base
    PROVE  StepKeeps(w)
  <1>1. pc'[w] = l /\ job' = job
    BY LocalMoves DEF RegistrationIInv
  <1>2. pc[w] \in ReplacingPc /\ UndoingAt(w) /\ (Journaled(fs) => Own(w))
    BY UndoState
  <1>3. Begun(w)' /\ Old(w)' = Old(w) /\ New(w)' = New(w)
    BY <1>1, <1>2, BegunKept
  <1>4. Loose(Old(w))' = Loose(Old(w)) /\ (Journaled(fs') => Own(w)')
        /\ (Journaled(fs)' <=> Journaled(fs'))
    BY <1>1, <1>2, <1>3 DEF Loose, Remains, Own, Journaled
  <1>5. UndoingAt(w)'
    BY <1>1, <1>2, <1>3, <1>4 DEF UndoingAt, UndonePc
  <1>6. WriterAt(w)'
    BY <1>1, <1>3, <1>5, ArrivesUndoing DEF UndoingPc, UndonePc
  <1> QED BY <1>6 DEF StepKeeps

LEMMA RollbackUninstallKeeps ==
    ASSUME RegistrationIInv, NEW w \in Writers, RollbackUninstall(w), invocations' = invocations
    PROVE  StepKeeps(w)
  <1> DEFINE n == job[w].tx
             g == [fs EXCEPT !.out = Absent, !.staging[n] = fs.out]
  <1>1. /\ pc[w] = "rb_uninstall" /\ UNCHANGED history
        /\ prior' = prior /\ base' = base /\ acked' = acked /\ pc[w] \in UndoingPc
    BY DEF RollbackUninstall, At, history, UndoingPc
  <1>2. /\ fs \in Entries /\ Coherent(fs) /\ n \in TxId /\ pc[w] \in ReplacingPc /\ Own(w)
        /\ Journaled(fs) /\ fs.journal.tx = n /\ Replaced(fs) = Old(w) /\ Planned(fs) = New(w)
        /\ Installed(fs) /\ fs.out = New(w) /\ fs.backup[n] \in Loose(Old(w))
        /\ Old(w) # New(w) /\ Old(w) \in Tree
    <2>1. Old(w) \in Tree
      BY WriterState DEF RegistrationIInv, HistoryOK, Old
    <2> QED BY <1>1, <2>1, UndoState DEF UndoingAt, Begun
  <1>3. CASE Mutate(g) /\ Goto(w, "rb_uninstall_flush")
    <2>1. /\ g.journal = fs.journal /\ g.lock = fs.lock /\ g.out = Absent /\ g.backup = fs.backup
          /\ g.staging[n] = New(w)
      BY <1>2 DEF Entries
    <2>2. Mutate(g)
      BY <1>3
    <2> HIDE DEF g
    <2>3. Journaled(g) /\ Replaced(g) = Old(w) /\ Planned(g) = New(w)
      BY <1>2, <2>1 DEF Journaled, Replaced, Planned
    <2>4. Kept(g) \/ Moved(g)
      BY <1>2, <2>1, <2>3, LooseFacts DEF Kept, Moved
    <2>5. Coherent(g)
      BY <1>2, <2>1, <2>3, <2>4 DEF Coherent
    <2>6. DiskStep
      BY <1>1, <1>2, <2>1, <2>2, <2>5, MovedOutput DEF RegistrationIInv
    <2>7. /\ pc'[w] = "rb_uninstall_flush" /\ fs' = g /\ job' = job
      BY <1>3, <2>2, LocalMoves DEF RegistrationIInv, Mutate
    <2>8. Begun(w)' /\ Old(w)' = Old(w) /\ New(w)' = New(w)
      BY <1>1, <1>2, <2>7, BegunKept
    <2>9. Own(w)' /\ Loose(Old(w))' = Loose(Old(w))
      BY <1>2, <2>1, <2>7, <2>8 DEF Own, Journaled, Loose, Remains
    <2>10. UndoingAt(w)'
      BY <1>2, <2>1, <2>7, <2>8, <2>9 DEF UndoingAt, UndonePc
    <2>11. WriterAt(w)'
      BY <2>7, <2>8, <2>9, <2>10, ArrivesUndoing DEF UndoingPc
    <2> QED BY <2>6, <2>11 DEF StepKeeps
  <1>4. CASE FailsWith(w, "indeterminate")
    BY <1>1, <1>4, UndoFails
  <1> QED BY <1>3, <1>4 DEF RollbackUninstall

LEMMA RollbackUninstallFlushKeeps ==
    ASSUME RegistrationIInv, NEW w \in Writers, RollbackUninstallFlush(w),
           invocations' = invocations
    PROVE  StepKeeps(w)
  <1> DEFINE n == job[w].tx
  <1>1. /\ pc[w] = "rb_uninstall_flush" /\ UNCHANGED history
        /\ prior' = prior /\ base' = base /\ acked' = acked /\ pc[w] \in UndoingPc
    BY DEF RollbackUninstallFlush, Flush, At, history, UndoingPc
  <1>2. /\ fs \in Entries /\ Coherent(fs) /\ n \in TxId /\ pc[w] \in ReplacingPc /\ Own(w)
        /\ Journaled(fs) /\ fs.journal.tx = n
        /\ fs.out = Absent /\ fs.staging[n] = New(w) /\ fs.backup[n] \in Loose(Old(w))
    BY <1>1, UndoState DEF UndoingAt
  <1>3. ASSUME SyncParent, NEW l, Goto(w, l),
               l = IF job[w].old.kind = "absent" THEN "rb_staging" ELSE "rb_restore"
        PROVE  StepKeeps(w)
    <2>1. pc'[w] = l /\ job' = job /\ fs' = fs /\ durable' = {fs}
      BY <1>3, LocalMoves DEF SyncParent, RegistrationIInv
    <2>2. DiskStep
      BY <1>1, <2>1, QuietDisk DEF RegistrationIInv
    <2>3. /\ Begun(w)' /\ Old(w)' = Old(w) /\ New(w)' = New(w)
          /\ job[w].old.kind = "absent" <=> Old(w) = Absent
          /\ Old(w) \in Tree
      BY <1>1, <1>2, <2>1, BegunKept
    <2>4. Own(w)' /\ Loose(Old(w))' = Loose(Old(w))
      BY <1>2, <2>1, <2>3 DEF Own, Journaled, Loose, Remains
    <2>5. Old(w) = Absent => \A m \in TxId : fs.backup[m] = Absent
      BY <1>2, <2>3, LooseFacts DEF Coherent
    <2>6. UndoingAt(w)'
      BY <1>2, <1>3, <2>1, <2>3, <2>4, <2>5, LooseFacts DEF UndoingAt, UndonePc
    <2>7. WriterAt(w)'
      BY <1>3, <2>1, <2>3, <2>4, <2>6, ArrivesUndoing DEF UndoingPc, UndonePc
    <2> QED BY <2>2, <2>7 DEF StepKeeps
  <1>4. CASE FailsWith(w, "indeterminate")
    BY <1>1, <1>4, UndoFails
  <1> QED BY <1>3, <1>4 DEF RollbackUninstallFlush, Flush

LEMMA RollbackRestoreKeeps ==
    ASSUME RegistrationIInv, NEW w \in Writers, RollbackRestore(w), invocations' = invocations
    PROVE  StepKeeps(w)
  <1> DEFINE n == job[w].tx
             g == [fs EXCEPT !.out = fs.backup[n], !.backup[n] = Absent]
  <1>1. /\ pc[w] = "rb_restore" /\ UNCHANGED history
        /\ prior' = prior /\ base' = base /\ acked' = acked /\ pc[w] \in UndoingPc
    BY DEF RollbackRestore, At, history, UndoingPc
  <1>2. /\ fs \in Entries /\ Coherent(fs) /\ n \in TxId /\ pc[w] \in ReplacingPc /\ Own(w)
        /\ Journaled(fs) /\ fs.journal.tx = n /\ Replaced(fs) = Old(w) /\ Planned(fs) = New(w)
        /\ fs.out = Absent /\ fs.staging[n] = New(w) /\ fs.backup[n] \in Loose(Old(w))
        /\ Old(w) # Absent
    BY <1>1, UndoState DEF UndoingAt
  <1>3. CASE Mutate(g) /\ Goto(w, "rb_restore_flush")
    <2>1. /\ g.journal = fs.journal /\ g.lock = fs.lock /\ g.out = fs.backup[n]
          /\ g.staging = fs.staging /\ g.backup[n] = Absent
          /\ \A m \in TxId : m # n => g.backup[m] = fs.backup[m]
      BY <1>2 DEF Entries
    <2>2. Mutate(g)
      BY <1>3
    <2> HIDE DEF g
    <2>3. Journaled(g) /\ Replaced(g) = Old(w) /\ Planned(g) = New(w)
      BY <1>2, <2>1 DEF Journaled, Replaced, Planned
    <2>4. Kept(g)
      BY <1>2, <2>1, <2>3 DEF Kept
    <2>5. Coherent(g) /\ \A m \in TxId : g.backup[m] = Absent
      BY <1>2, <2>1, <2>3, <2>4 DEF Coherent
    <2>6. DiskStep
      BY <1>1, <1>2, <2>1, <2>2, <2>5, MovedOutput DEF RegistrationIInv
    <2>7. /\ pc'[w] = "rb_restore_flush" /\ fs' = g /\ job' = job
      BY <1>3, <2>2, LocalMoves DEF RegistrationIInv, Mutate
    <2>8. Begun(w)' /\ Old(w)' = Old(w) /\ New(w)' = New(w)
      BY <1>1, <1>2, <2>7, BegunKept
    <2>9. Own(w)' /\ Loose(Old(w))' = Loose(Old(w))
      BY <1>2, <2>1, <2>7, <2>8 DEF Own, Journaled, Loose, Remains
    <2>10. UndoingAt(w)'
      BY <1>2, <2>1, <2>5, <2>7, <2>8, <2>9 DEF UndoingAt
    <2>11. WriterAt(w)'
      BY <2>7, <2>8, <2>9, <2>10, ArrivesUndoing DEF UndoingPc
    <2> QED BY <2>6, <2>11 DEF StepKeeps
  <1>4. CASE FailsWith(w, "indeterminate")
    BY <1>1, <1>4, UndoFails
  <1> QED BY <1>3, <1>4 DEF RollbackRestore

LEMMA RollbackRestoreFlushKeeps ==
    ASSUME RegistrationIInv, NEW w \in Writers, RollbackRestoreFlush(w), invocations' = invocations
    PROVE  StepKeeps(w)
  <1>1. /\ pc[w] = "rb_restore_flush" /\ UNCHANGED history /\ prior' = prior /\ base' = base
        /\ acked' = acked /\ pc[w] \in UndoingPc \cap UndonePc
    BY DEF RollbackRestoreFlush, Flush, At, history, UndoingPc, UndonePc
  <1>2. CASE SyncParent /\ Goto(w, "rb_staging")
    <2>1. DiskStep /\ fs' = fs
      BY <1>1, <1>2, QuietDisk DEF RegistrationIInv, SyncParent
    <2>2. \A n \in TxId : fs.backup[n] = Absent
      BY <1>1, UndoState DEF UndoingAt
    <2> QED BY <1>1, <1>2, <2>1, <2>2, UndoneMoves DEF UndonePc
  <1>3. CASE FailsWith(w, "indeterminate")
    BY <1>1, <1>3, UndoFails
  <1> QED BY <1>2, <1>3 DEF RollbackRestoreFlush, Flush

LEMMA RollbackCleansUp ==
    ASSUME RegistrationIInv, NEW w \in Writers,
           RollbackStaging(w) \/ RollbackTemporary(w) \/ RollbackJournal(w) \/ RollbackFlush(w),
           invocations' = invocations
    PROVE  StepKeeps(w)
  <1>1. /\ pc[w] \in UndonePc /\ pc[w] # "rb_restore_flush" /\ UNCHANGED history
        /\ prior' = prior /\ base' = base /\ acked' = acked
    BY DEF RollbackStaging, RollbackTemporary, RollbackJournal, RollbackFlush, At, history, UndonePc
  <1>2. /\ fs \in Entries /\ job[w].tx \in TxId /\ \A n \in TxId : fs.backup[n] = Absent
        /\ Journaled(fs) => fs.journal.tx = job[w].tx /\ fs.journal.tx \in TxId /\ Kept(fs)
    BY <1>1, UndoState DEF UndoingAt
  <1>3. ASSUME FailsWith(w, RollbackState(w))
        PROVE  StepKeeps(w)
    BY <1>1, <1>3, UndoneReports DEF FailsWith, disk
  <1>4. ASSUME NEW l \in UndonePc \ {"rb_restore_flush"}, Skip(w, l)
        PROVE  StepKeeps(w)
    <2>1. DiskStep /\ fs' = fs /\ Goto(w, l)
      BY <1>1, <1>4, QuietDisk DEF RegistrationIInv, Skip, disk
    <2> QED BY <1>1, <1>2, <2>1, UndoneMoves
  <1>5. CASE UnlinkStaging(w, job[w].tx, "rb_temporary")
    <2>1. /\ DiskStep /\ fs'.journal = fs.journal /\ fs'.out = fs.out /\ fs'.backup = fs.backup
          /\ Goto(w, pc[w]) \/ Goto(w, "rb_temporary")
      BY <1>1, <1>2, <1>5, StagingUnlinked DEF RegistrationIInv
    <2> QED BY <1>1, <1>2, <2>1, UndoneMoves DEF UndonePc
  <1>6. CASE Mutate([fs EXCEPT !.temporary[job[w].tx] = NoFile]) /\ Goto(w, "rb_journal")
    <2>1. /\ DiskStep /\ fs'.journal = fs.journal /\ fs'.out = fs.out /\ fs'.backup = fs.backup
      BY <1>1, <1>2, <1>6, TemporaryChanges DEF RegistrationIInv
    <2> QED BY <1>1, <1>2, <1>6, <2>1, UndoneMoves DEF UndonePc
  <1>7. CASE Mutate([fs EXCEPT !.journal = NoFile]) /\ Goto(w, "rb_flush")
    <2>1. /\ DiskStep /\ fs'.journal = NoFile /\ fs'.out = fs.out
          /\ \A n \in TxId : fs'.backup[n] = Absent
      BY <1>1, <1>2, <1>7, JournalRemoved DEF RegistrationIInv
    <2>2. ~Journaled(fs')
      BY <2>1, JournalTypes DEF Journaled
    <2> QED BY <1>1, <1>7, <2>1, <2>2, UndoneMoves DEF UndonePc
  <1>8. CASE SyncParent /\ Finish(w, "error", RollbackState(w), "io")
    BY <1>1, <1>8, UndoneReports DEF SyncParent
  <1> QED
    BY <1>3, <1>4, <1>5, <1>6, <1>7, <1>8
    DEF RollbackStaging, RollbackTemporary, RollbackJournal, RollbackFlush, UndonePc

LEMMA RollbackStepKeeps ==
    ASSUME RegistrationIInv, NEW w \in Writers, RollbackStep(w), invocations' = invocations
    PROVE  StepKeeps(w)
  BY RollbackUninstallKeeps, RollbackUninstallFlushKeeps, RollbackRestoreKeeps,
     RollbackRestoreFlushKeeps, RollbackCleansUp
  DEF RollbackStep
-----------------------------------------------------------------------------
(* The rest of the system: writers outside the lock, checkers, and the      *)
(* steps that start, end or kill processes.                                 *)

\* A writer that is not past the lock relies on nothing yet.
LEMMA OutsideWriter ==
    ASSUME NEW v \in Writers, pc'[v] \notin CriticalPc, ~Reporting(v)',
           pc'[v] \in LockPc => job'[v].effect = "none" /\ job'[v].root = "staged"
    PROVE  WriterAt(v)'
  <1>1. RecoveringAt(v)' /\ CommittingAt(v)' /\ ProgressAt(v)' /\ UndoingAt(v)'
    BY DEF RecoveringAt, CommittingAt, ProgressAt, UndoingAt, CriticalPc,
       LockPc, FindingPc, ResolvedPc, ClearedPc, StagingPc, StagedPc, OldMovedPc, NewInstalledPc,
       BackupRemovedPc, UndoingPc, UndonePc, CommittingPc, ReplacingPc, SyncedPc, BeforeTransaction
  <1>2. ReportAt(v)'
    BY DEF ReportAt
  <1> QED BY <1>1, <1>2 DEF WriterAt

\* A writer whose view of the disk and whose locals are as they were.
LEMMA WriterUnchanged ==
    ASSUME NEW v \in Writers, WriterAt(v), fs' = fs, durable' = durable, prior' = prior,
           pc'[v] = pc[v], job'[v] = job[v], outcome'[v] = outcome[v], base'[v] = base[v],
           v \in held' <=> v \in held
    PROVE  WriterAt(v)'
  <1>1. /\ Old(v)' = Old(v) /\ New(v)' = New(v) /\ (Own(v)' <=> Own(v))
        /\ SettledRoot(fs)' = SettledRoot(fs) /\ (Whole(fs.out)' <=> Whole(fs.out))
        /\ (Journaled(fs)' <=> Journaled(fs)) /\ Replaced(fs)' = Replaced(fs)
        /\ Planned(fs)' = Planned(fs)
    BY DEF Old, New, Own, SettledRoot, Whole, Journaled, Replaced, Planned
  <1>2. /\ Moved(fs)' <=> Moved(fs)
        /\ Installed(fs)' <=> Installed(fs)
        /\ Loose(Old(v))' = Loose(Old(v)) /\ Remains(Old(v))' = Remains(Old(v))
        /\ JournalOldRoot(Old(v))' = JournalOldRoot(Old(v))
    BY <1>1 DEF Moved, Installed, Loose, Remains, JournalOldRoot, Replaced, Planned
  <1>3. \A phase : OwnRecord(v, phase)' = OwnRecord(v, phase)
    BY DEF OwnRecord
  <1>4. RecoveringAt(v)'
    BY <1>1, <1>2 DEF WriterAt, RecoveringAt
  <1>5. CommittingAt(v)'
    BY <1>1, <1>2, <1>3 DEF WriterAt, CommittingAt
  <1>6. ProgressAt(v)'
    BY DEF WriterAt, ProgressAt
  <1>7. UndoingAt(v)'
    BY <1>1, <1>2 DEF WriterAt, UndoingAt
  <1>8. ReportAt(v)'
    BY <1>1, <1>2 DEF WriterAt, ReportAt, Reporting
  <1> QED BY <1>4, <1>5, <1>6, <1>7, <1>8 DEF WriterAt

\* A step past the lock: everyone else is outside it.
LEMMA LocalStepKeeps ==
    ASSUME RegistrationIInv, NEW w \in Writers, LocalStep(w), StepKeeps(w),
           TypeIInv', invocations' = invocations, view' = view
    PROVE  RegistrationIInv'
  <1>1. /\ w \in held /\ held = {w} /\ held' = {w} /\ fs'.lock # "none" /\ w \in Procs
        /\ pc[w] \in CriticalPc /\ pc'[w] \in CriticalPc \cup {"ret"}
        /\ \A q \in Procs : q # w => pc'[q] = pc[q] /\ job'[q] = job[q]
        /\ job'[w].tx = job[w].tx
    BY DEF RegistrationIInv, HeldIInv, LocalStep, StepKeeps, DiskStep, RecordStep, Procs
  <1>2. DiskIInv'
    BY DEF StepKeeps, DiskStep, RecordStep
  <1>3. HeldIInv'
    <2>1. \A p \in Procs : pc'[p] \in {"await", "created", "ck_await"} => fs'.lock # "none"
      BY <1>1
    <2>2. \A v \in Writers : pc'[v] \in CriticalPc => v \in held'
      BY <1>1 DEF RegistrationIInv, HeldIInv, Procs
    <2>3. \A v \in Writers : pc'[v] \in LockPc \cup {"idle"} => v \notin held'
      BY <1>1 DEF RegistrationIInv, HeldIInv, Procs, LockPc, CriticalPc
    <2> QED BY <1>1, <2>1, <2>2, <2>3 DEF HeldIInv
  <1>4. FreshIInv'
    <2>1. pc[w] # "idle" /\ pc'[w] # "idle"
      BY <1>1 DEF CriticalPc
    <2>2. \A p \in Procs : job'[p].tx = job[p].tx /\ (pc'[p] = "idle" <=> pc[p] = "idle")
      BY <1>1, <2>1
    <2>3. /\ \A p \in Procs : pc'[p] # "idle" => job'[p].tx <= invocations'
          /\ \A p, q \in Procs :
                pc'[p] # "idle" /\ pc'[q] # "idle" /\ job'[p].tx = job'[q].tx => p = q
      BY <2>2 DEF RegistrationIInv, FreshIInv
    <2>4. ASSUME NEW v \in Writers, pc'[v] \in BeforeTransaction, NEW f \in durable', Journaled(f)
          PROVE  f.journal.tx # job'[v].tx
      <3>0. v \in Procs
        BY DEF Procs
      <3>1. pc[v] \in BeforeTransaction
        BY <1>1, <2>4, <3>0 DEF LocalStep
      <3>2. CASE DiskStep
        <4>1. PICK g \in durable : Journaled(g) /\ g.journal.tx = f.journal.tx
          BY <2>4, <3>2 DEF DiskStep, NoNewRecord
        <4> QED BY <2>2, <3>0, <3>1, <4>1 DEF RegistrationIInv, FreshIInv
      <3>3. CASE RecordStep(w)
        <4>1. f.journal.tx = job[w].tx /\ pc[w] = "journal_write"
          BY <2>4, <3>3 DEF RecordStep
        <4>2. v # w /\ pc[v] # "idle"
          BY <3>1, <4>1 DEF BeforeTransaction, LockPc
        <4> QED BY <1>1, <2>1, <2>2, <3>0, <4>1, <4>2 DEF RegistrationIInv, FreshIInv
      <3> QED BY <3>2, <3>3 DEF StepKeeps
    <2>5. \A f : Journaled(f)' <=> Journaled(f)
      BY DEF Journaled
    <2> QED BY <2>3, <2>4, <2>5 DEF FreshIInv
  <1>5. CheckerIInv'
    BY <1>1, ProcsAssumption DEF CheckerIInv
  <1>6. ASSUME NEW v \in Writers
        PROVE  WriterAt(v)'
    <2>1. CASE v = w
      BY <2>1 DEF StepKeeps
    <2>2. CASE v # w
      <3>1. v \in Procs /\ v \notin held /\ pc'[v] = pc[v] /\ job'[v] = job[v]
        BY <1>1, <2>2 DEF Procs
      <3>2. pc'[v] \notin CriticalPc
        BY <3>1 DEF RegistrationIInv, HeldIInv
      <3>3. pc'[v] \in LockPc => job'[v].effect = "none" /\ job'[v].root = "staged"
        BY <3>1 DEF RegistrationIInv, WriterAt, ProgressAt, BeforeTransaction
      <3>4. ~Reporting(v)'
        BY <1>1, <2>2 DEF Reporting
      <3> QED BY <3>2, <3>3, <3>4, OutsideWriter
    <2> QED BY <2>1, <2>2
  <1> QED BY <1>2, <1>3, <1>4, <1>5, <1>6 DEF RegistrationIInv

\* A writer looks for the lock file or creates it; the lock is not held yet.
LEMMA ApproachKeeps ==
    ASSUME RegistrationIInv, NEW w \in Writers, LookupLock(w) \/ CreateLock(w),
           TypeIInv', invocations' = invocations, view' = view
    PROVE  RegistrationIInv'
  <1> USE DEF RegistrationIInv
  <1>1. /\ pc[w] \in {"lookup", "create"} /\ held' = held /\ prior' = prior /\ base' = base
        /\ acked' = acked /\ w \in Procs /\ fs \in Entries
    BY WriterState DEF LookupLock, CreateLock, At, history
  <1>2. /\ DiskStep
        /\ (fs' = fs /\ durable' = durable) \/ (held = {} /\ fs'.lock # "none")
    <2>1. CASE fs' = fs /\ durable' = durable
      BY <1>1, <2>1, QuietDisk
    <2>2. CASE fs.lock = "none" /\ Mutate([fs EXCEPT !.lock = "torn"])
      <3>1. DiskStep
        BY <1>1, <2>2, LockWritten
      <3>2. fs'.lock = "torn" /\ held = {}
        BY <1>1, <2>2 DEF Mutate, Entries, HeldIInv
      <3> QED BY <3>1, <3>2
    <2> QED BY <2>1, <2>2 DEF LookupLock, CreateLock, FailsWith, disk
  <1>3. /\ pc'[w] \in {"lookup", "await", "create", "created", "ret"}
        /\ pc'[w] \in {"await", "created"} => fs'.lock # "none"
        /\ \A q \in Procs : q # w => pc'[q] = pc[q] /\ outcome'[q] = outcome[q]
        /\ job' = job
    <2>1. CASE LookupLock(w)
      <3>1. /\ Goto(w, IF fs.lock = "none" THEN "create" ELSE "await") /\ fs' = fs
        BY <2>1 DEF LookupLock, disk
      <3> QED BY <3>1, LocalMoves
    <2>2. CASE CreateLock(w)
      <3>1. CASE Mutate([fs EXCEPT !.lock = "torn"]) /\ Goto(w, "created")
        <4>1. fs'.lock = "torn"
          BY <1>1, <3>1 DEF Mutate, Entries
        <4> QED BY <3>1, <4>1, LocalMoves
      <3>2. CASE Goto(w, "lookup")
        BY <3>2, LocalMoves
      <3>3. CASE Finish(w, "error", "unchanged", "io")
        BY <3>3, LocalMoves
      <3> QED BY <2>2, <3>1, <3>2, <3>3 DEF CreateLock, FailsWith
    <2> QED BY <2>1, <2>2
  <1>4. DiskIInv'
    BY <1>2 DEF DiskStep
  <1>5. pc[w] \notin CriticalPc /\ pc'[w] \notin CriticalPc /\ pc[w] \in BeforeTransaction
    BY <1>1, <1>3 DEF CriticalPc, BeforeTransaction, LockPc
  <1>6. HeldIInv'
    <2>1. \A p \in Procs : pc'[p] \in {"await", "created", "ck_await"} => fs'.lock # "none"
      BY <1>2, <1>3 DEF HeldIInv, DiskStep
    <2>2. \A v \in Writers : pc'[v] \in CriticalPc => v \in held'
      BY <1>1, <1>3, <1>5 DEF HeldIInv, Procs
    <2>3. \A v \in Writers : pc'[v] \in LockPc \cup {"idle"} => v \notin held'
      BY <1>1, <1>3, <1>5 DEF HeldIInv, Procs, LockPc
    <2> QED BY <1>1, <1>2, <2>1, <2>2, <2>3 DEF HeldIInv, DiskStep
  <1>7. FreshIInv'
    <2>1. \A p \in Procs : pc'[p] = "idle" <=> pc[p] = "idle"
      BY <1>1, <1>3
    <2>2. ASSUME NEW v \in Writers, pc'[v] \in BeforeTransaction, NEW f \in durable', Journaled(f)
          PROVE  f.journal.tx # job'[v].tx
      <3>1. pc[v] \in BeforeTransaction
        BY <1>3, <1>5, <2>2 DEF Procs
      <3>2. PICK g \in durable : Journaled(g) /\ g.journal.tx = f.journal.tx
        BY <1>2, <2>2 DEF DiskStep, NoNewRecord
      <3> QED BY <1>3, <3>1, <3>2 DEF FreshIInv
    <2>3. \A f : Journaled(f)' <=> Journaled(f)
      BY DEF Journaled
    <2> QED BY <1>3, <2>1, <2>2, <2>3 DEF FreshIInv
  <1>8. CheckerIInv'
    <2> SUFFICES ASSUME NEW c \in Checkers, pc'[c] = "ck_verify", c \in held' \/ fs'.lock = "none"
                 PROVE  view'[c] = fs'.out
      BY DEF CheckerIInv
    <2>1. c # w /\ c \in Procs
      BY ProcsAssumption DEF Procs
    <2> QED BY <1>1, <1>2, <1>3, <2>1 DEF CheckerIInv
  <1>9. ASSUME NEW v \in Writers
        PROVE  WriterAt(v)'
    <2>1. CASE v = w
      <3>1. w \notin held
        BY <1>1 DEF HeldIInv, LockPc
      <3>2. job[w].effect = "none" /\ job[w].root = "staged"
        BY <1>1, <1>5 DEF WriterAt, ProgressAt, LockPc
      <3> QED BY <1>1, <1>3, <1>5, <2>1, <3>1, <3>2, OutsideWriter DEF Reporting
    <2>2. CASE v # w /\ fs' = fs /\ durable' = durable
      BY <1>1, <1>3, <2>2, WriterUnchanged DEF Procs
    <2>3. CASE v # w /\ held = {}
      BY <1>1, <1>3, <2>3, OutsideWriter
      DEF Procs, HeldIInv, Reporting, WriterAt, ProgressAt, BeforeTransaction
    <2> QED BY <1>2, <2>1, <2>2, <2>3
  <1> QED BY <1>4, <1>6, <1>7, <1>8, <1>9

\* The disk and the history a step leaves alone still fit together.
LEMMA DiskUntouched ==
    ASSUME DiskIInv, fs' = fs, durable' = durable, prior' = prior, acked' = acked,
           invocations \in Nat, invocations' \in Nat, invocations <= invocations',
           \A f \in durable : Journaled(f) => f.journal.tx \in Nat
    PROVE  DiskIInv'
  <1>1. ASSUME NEW f \in durable
        PROVE  Coherent(f)'
    <2>1. /\ Journaled(f)' <=> Journaled(f)
          /\ Replaced(f)' = Replaced(f) /\ Planned(f)' = Planned(f)
          /\ Kept(f)' <=> Kept(f)
          /\ Moved(f)' <=> Moved(f)
          /\ Installed(f)' <=> Installed(f)
          /\ JournalOldRoot(Replaced(f))' = JournalOldRoot(Replaced(f))
      BY DEF Journaled, Replaced, Planned, Kept, Moved, Installed, Loose, JournalOldRoot
    <2>2. Journaled(f) => f.journal.tx <= invocations'
      BY DEF DiskIInv, Coherent
    <2> QED BY <2>1, <2>2 DEF DiskIInv, Coherent
  <1>2. ASSUME NEW f \in durable
        PROVE  Precedes(f, fs)'
    BY DEF DiskIInv, Precedes, Journaled, Replaced, Planned
  <1> QED BY <1>1, <1>2 DEF DiskIInv, Journaled

\* The lock is granted: its writer is alone, and remembers the root it found.
LEMMA AcquireKeeps ==
    ASSUME RegistrationIInv, NEW w \in Writers, AwaitLock(w) \/ LockCreated(w),
           TypeIInv', invocations' = invocations, view' = view
    PROVE  RegistrationIInv'
  <1> USE DEF RegistrationIInv
  <1>1. /\ pc[w] \in {"await", "created"} /\ held = {} /\ held' = {w} /\ w \in Procs
        /\ fs' = fs /\ durable' = durable /\ prior' = prior /\ acked' = acked
        /\ base' = [base EXCEPT ![w] = SettledRoot(fs)] /\ base \in [Procs -> Tree]
        /\ Goto(w, "read_lock") \/ Goto(w, "init_lock")
    BY WriterState DEF AwaitLock, LockCreated, Exclusive, RememberRoot, At, disk, HistoryOK
  <1>2. /\ pc'[w] \in {"read_lock", "init_lock"} /\ job' = job /\ outcome' = outcome
        /\ \A q \in Procs : q # w => pc'[q] = pc[q]
        /\ base'[w] = SettledRoot(fs)
    BY <1>1, LocalMoves
  <1>3. DiskIInv'
    <2>1. DiskStep
      BY <1>1, QuietDisk
    <2> QED BY <2>1 DEF DiskStep
  <1>4. fs.lock # "none" /\ job[w].effect = "none" /\ job[w].root = "staged"
    BY <1>1 DEF HeldIInv, WriterAt, ProgressAt, LockPc, BeforeTransaction
  <1>5. \A v \in Writers : pc[v] \notin CriticalPc /\ v \in Procs
    BY <1>1 DEF HeldIInv, Procs
  <1>6. HeldIInv'
    <2>1. \A p \in Procs : pc'[p] \in {"await", "created", "ck_await"} => fs'.lock # "none"
      BY <1>1, <1>4
    <2>2. \A v \in Writers : pc'[v] \in CriticalPc => v \in held'
      BY <1>1, <1>2, <1>5
    <2>3. \A v \in Writers : pc'[v] \in LockPc \cup {"idle"} => v \notin held'
      BY <1>1, <1>2 DEF LockPc
    <2> QED BY <1>1, <1>4, <2>1, <2>2, <2>3 DEF HeldIInv
  <1>7. FreshIInv'
    <2>1. \A p \in Procs : pc'[p] = "idle" <=> pc[p] = "idle"
      BY <1>1, <1>2
    <2>2. \A v \in Writers : pc'[v] \in BeforeTransaction => pc[v] \in BeforeTransaction
      BY <1>1, <1>2, <1>5 DEF BeforeTransaction, LockPc
    <2>3. \A f : Journaled(f)' <=> Journaled(f)
      BY DEF Journaled
    <2> QED BY <1>1, <1>2, <2>1, <2>2, <2>3 DEF FreshIInv
  <1>8. CheckerIInv'
    BY <1>1, <1>4, ProcsAssumption DEF CheckerIInv
  <1>9. ASSUME NEW v \in Writers
        PROVE  WriterAt(v)'
    <2>1. CASE v = w
      <3>1. pc'[w] \in FindingPc
        BY <1>2 DEF FindingPc
      <3>2. SettledRoot(fs') = base'[w]
        BY <1>1, <1>2
      <3> QED BY <1>2, <1>4, <2>1, <3>1, <3>2, ArrivesFinding
    <2>2. CASE v # w
      <3>1. pc'[v] \notin CriticalPc
        BY <1>2, <1>5, <2>2
      <3>2. pc'[v] \in LockPc => job'[v].effect = "none" /\ job'[v].root = "staged"
        BY <1>2, <1>5, <2>2 DEF WriterAt, ProgressAt, BeforeTransaction
      <3>3. ~Reporting(v)'
        BY <1>1, <2>2 DEF Reporting
      <3> QED BY <3>1, <3>2, <3>3, OutsideWriter
    <2> QED BY <2>1, <2>2
  <1> QED BY <1>3, <1>6, <1>7, <1>8, <1>9

\* A process is started: its transaction id is one no record names.
LEMMA StartKeeps ==
    ASSUME RegistrationIInv, NEW p \in Procs, Start(p), TypeIInv'
    PROVE  RegistrationIInv'
  <1> USE DEF RegistrationIInv
  <1>1. PICK c \in Content : job' = [job EXCEPT ![p] = NewJob(c, invocations')]
    BY DEF Start
  <1>2. /\ pc[p] = "idle" /\ pc'[p] \in {"lookup", "ck_lookup"}
        /\ pc'[p] = "lookup" <=> p \in Writers
        /\ \A q \in Procs : q # p => /\ pc'[q] = pc[q] /\ job'[q] = job[q]
                                     /\ outcome'[q] = outcome[q]
        /\ job'[p].tx = invocations' /\ job'[p].effect = "none" /\ job'[p].root = "staged"
        /\ invocations \in Nat /\ invocations' = invocations + 1
        /\ fs' = fs /\ durable' = durable /\ prior' = prior /\ acked' = acked
        /\ held' = held /\ view' = view /\ base' = base
    <2>1. job \in [Procs -> Job] /\ pc \in [Procs -> Pc] /\ outcome \in [Procs -> Outcome]
      BY DEF TypeIInv, TypeOK
    <2>2. invocations \in Nat
      BY MaxInvocationsAssumption DEF TypeIInv, TypeOK
    <2>3. job'[p] = NewJob(c, invocations') /\ \A q \in Procs : q # p => job'[q] = job[q]
      BY <1>1, <2>1
    <2>4. job'[p].tx = invocations' /\ job'[p].effect = "none" /\ job'[p].root = "staged"
      BY <2>3 DEF NewJob
    <2> QED BY <2>1, <2>2, <2>3, <2>4 DEF Start, At, disk, history
  <1>3. \A f \in durable : Journaled(f) => f.journal.tx \in Nat /\ f.journal.tx <= invocations
    <2> SUFFICES ASSUME NEW f \in durable, Journaled(f)
                 PROVE  f.journal.tx \in Nat /\ f.journal.tx <= invocations
      OBVIOUS
    <2>1. f.journal.tx \in TxId
      BY RecordTypes DEF TypeIInv, TypeOK
    <2> QED BY <2>1, MaxInvocationsAssumption DEF DiskIInv, Coherent, TxId
  <1>4. DiskIInv'
    BY <1>2, <1>3, DiskUntouched
  <1>5. p \notin held \/ p \notin Writers
    BY <1>2 DEF HeldIInv
  <1>6. HeldIInv'
    <2>1. \A q \in Procs : pc'[q] \in {"await", "created", "ck_await"} => fs'.lock # "none"
      BY <1>2 DEF HeldIInv
    <2>2. \A v \in Writers : pc'[v] \in CriticalPc => v \in held'
      BY <1>2 DEF HeldIInv, CriticalPc, Procs
    <2>3. \A v \in Writers : pc'[v] \in LockPc \cup {"idle"} => v \notin held'
      BY <1>2, <1>5 DEF HeldIInv, Procs
    <2> QED BY <1>2, <2>1, <2>2, <2>3 DEF HeldIInv
  <1>7. FreshIInv'
    <2>1. \A q \in Procs : q # p /\ pc[q] # "idle" => job[q].tx \in Nat /\ job[q].tx <= invocations
      <3>1. \A q \in Procs : job[q] \in Job
        BY DEF TypeIInv, TypeOK
      <3>2. \A q \in Procs : job[q].tx \in Nat
        <4>1. TxId \subseteq Nat
          BY MaxInvocationsAssumption DEF TxId
        <4> QED BY <3>1, <4>1 DEF Job
      <3> QED BY <3>2 DEF FreshIInv
    <2>2. \A q \in Procs : pc'[q] # "idle" => job'[q].tx <= invocations'
      BY <1>2, <2>1
    <2>3. \A q, r \in Procs :
             pc'[q] # "idle" /\ pc'[r] # "idle" /\ job'[q].tx = job'[r].tx => q = r
      <3> SUFFICES ASSUME NEW q \in Procs, NEW r \in Procs, pc'[q] # "idle", pc'[r] # "idle",
                          job'[q].tx = job'[r].tx
                   PROVE  q = r
        OBVIOUS
      <3>1. CASE q = p /\ r # p
        BY <1>2, <2>1, <3>1
      <3>2. CASE q # p /\ r = p
        BY <1>2, <2>1, <3>2
      <3>3. CASE q # p /\ r # p
        BY <1>2, <3>3 DEF FreshIInv
      <3> QED BY <3>1, <3>2, <3>3
    <2>4. ASSUME NEW v \in Writers, pc'[v] \in BeforeTransaction, NEW f \in durable', Journaled(f)
          PROVE  f.journal.tx # job'[v].tx
      <3>1. CASE v = p
        BY <1>2, <1>3, <2>4, <3>1
      <3>2. CASE v # p
        BY <1>2, <2>4, <3>2 DEF FreshIInv, Procs
      <3> QED BY <3>1, <3>2
    <2>5. \A f : Journaled(f)' <=> Journaled(f)
      BY DEF Journaled
    <2> QED BY <2>2, <2>3, <2>4, <2>5 DEF FreshIInv
  <1>8. CheckerIInv'
    BY <1>2 DEF CheckerIInv, Procs
  <1>9. ASSUME NEW v \in Writers
        PROVE  WriterAt(v)'
    <2>1. CASE v = p
      BY <1>2, <2>1, OutsideWriter DEF CriticalPc, Reporting
    <2>2. CASE v # p
      BY <1>2, <2>2, WriterUnchanged DEF Procs
    <2> QED BY <2>1, <2>2
  <1> QED BY <1>4, <1>6, <1>7, <1>8, <1>9

\* Processes become idle and drop their locks; the disk is as it was.
LEMMA IdleKeeps ==
    ASSUME RegistrationIInv, NEW p \in Procs, Return(p) \/ Crash(p), TypeIInv'
    PROVE  RegistrationIInv'
  <1> USE DEF RegistrationIInv
  <1>1. /\ Idle({p}) /\ fs' = fs /\ durable' = durable /\ prior' = prior /\ acked' = acked
        /\ invocations' = invocations
    BY DEF Return, Crash, disk
  <1>2. /\ pc'[p] = "idle" /\ held' = held \ {p}
        /\ \A q \in Procs : q # p => /\ pc'[q] = pc[q] /\ job'[q] = job[q] /\ view'[q] = view[q]
                                     /\ outcome'[q] = outcome[q] /\ base'[q] = base[q]
    BY <1>1 DEF Idle
  <1>3. DiskIInv'
    <2>1. DiskStep
      BY <1>1, QuietDisk
    <2> QED BY <2>1 DEF DiskStep
  <1>4. HeldIInv'
    <2>1. \A v \in Writers : v \in held' => held' = {v}
      BY <1>2 DEF HeldIInv
    <2>2. \A q \in Procs : pc'[q] \in {"await", "created", "ck_await"} => fs'.lock # "none"
      BY <1>1, <1>2 DEF HeldIInv
    <2>3. \A v \in Writers : pc'[v] \in CriticalPc => v \in held'
      BY <1>2 DEF HeldIInv, CriticalPc, Procs
    <2>4. \A v \in Writers : pc'[v] \in LockPc \cup {"idle"} => v \notin held'
      BY <1>2 DEF HeldIInv, Procs
    <2>5. held' # {} => fs'.lock # "none"
      BY <1>1, <1>2 DEF HeldIInv
    <2> QED BY <2>1, <2>2, <2>3, <2>4, <2>5 DEF HeldIInv
  <1>5. FreshIInv'
    <2>1. \A f : Journaled(f)' <=> Journaled(f)
      BY DEF Journaled
    <2>2. \A v \in Writers : pc'[v] \in BeforeTransaction => v # p /\ v \in Procs
      BY <1>2 DEF BeforeTransaction, LockPc, Procs
    <2> QED BY <1>1, <1>2, <2>1, <2>2 DEF FreshIInv
  <1>6. CheckerIInv'
    BY <1>1, <1>2 DEF CheckerIInv, Procs
  <1>7. ASSUME NEW v \in Writers
        PROVE  WriterAt(v)'
    <2>1. CASE v = p
      BY <1>2, <2>1, OutsideWriter DEF CriticalPc, LockPc, Reporting
    <2>2. CASE v # p
      BY <1>1, <1>2, <2>2, WriterUnchanged DEF Procs
    <2> QED BY <2>1, <2>2
  <1> QED BY <1>3, <1>4, <1>5, <1>6, <1>7

\* Power is lost: any state the disk may be left in is one to start from.
LEMMA PowerLossKeeps ==
    ASSUME RegistrationIInv, PowerLoss, TypeIInv'
    PROVE  RegistrationIInv'
  <1> USE DEF RegistrationIInv
  <1>1. PICK f \in durable : fs' = f /\ durable' = {f}
    BY DEF PowerLoss
  <1>2. /\ \A p \in Procs : pc'[p] = "idle"
        /\ held' = {} /\ prior' = prior /\ acked' = acked /\ invocations' = invocations
    BY DEF PowerLoss, Idle, TypeIInv, TypeOK
  <1>3. DiskIInv'
    <2>1. Coherent(f) /\ Precedes(f, f) /\ (acked' => ~Journaled(f))
      BY <1>2 DEF DiskIInv, Precedes, SameTransaction
    <2>2. Coherent(f)' <=> Coherent(f)
      BY <1>2 DEF Coherent, Journaled, Replaced, Planned, Kept, Moved, Installed
    <2>3. Precedes(f, f)' <=> Precedes(f, f)
      BY <1>2 DEF Precedes, Journaled, Replaced, Planned
    <2> QED BY <1>1, <2>1, <2>2, <2>3 DEF DiskIInv, Journaled
  <1>4. HeldIInv'
    BY <1>2 DEF HeldIInv, CriticalPc, Procs
  <1>5. FreshIInv'
    BY <1>2 DEF FreshIInv, BeforeTransaction, LockPc, Procs
  <1>6. CheckerIInv'
    BY <1>2 DEF CheckerIInv, Procs
  <1>7. \A v \in Writers : WriterAt(v)'
    BY <1>2, OutsideWriter DEF CriticalPc, LockPc, Reporting, Procs
  <1> QED BY <1>3, <1>4, <1>5, <1>6, <1>7

\* A checker reads the disk and shares the lock, never together with a writer.
LEMMA CheckKeeps ==
    ASSUME RegistrationIInv, NEW c \in Checkers, Check(c), TypeIInv'
    PROVE  RegistrationIInv'
  <1> USE DEF RegistrationIInv
  <1>1. /\ c \in Procs /\ c \notin Writers
        /\ fs' = fs /\ durable' = durable /\ prior' = prior /\ acked' = acked
        /\ base' = base /\ invocations' = invocations
        /\ pc \in [Procs -> Pc] /\ outcome \in [Procs -> Outcome] /\ view \in [Procs -> Tree]
    BY ProcsAssumption DEF Check, disk, history, Procs, TypeIInv, TypeOK
  <1>2. /\ job' = job
        /\ \A q \in Procs : q # c => /\ pc'[q] = pc[q] /\ outcome'[q] = outcome[q]
                                     /\ view'[q] = view[q]
        /\ pc[c] # "idle" /\ pc'[c] # "idle" /\ pc'[c] \notin {"await", "created"}
        /\ pc'[c] = "ck_await" => fs.lock # "none"
        /\ held' = held \/ (held \cap Writers = {} /\ held' = held \cup {c} /\ pc[c] = "ck_await")
        /\ pc'[c] = "ck_verify" => view'[c] = fs.out
    BY <1>1 DEF Check, CheckLookup, CheckAwait, CheckRead, CheckScan, CheckVerify, Shared,
                Goto, Finish, At
  <1>3. DiskIInv'
    <2>1. DiskStep
      BY <1>1, QuietDisk
    <2> QED BY <2>1 DEF DiskStep
  <1>4. HeldIInv'
    <2>1. \A v \in Writers : (v \in held' <=> v \in held) /\ v # c /\ v \in Procs
      BY <1>1, <1>2 DEF Procs
    <2>2. \A v \in Writers : v \in held' => held' = {v}
      BY <1>2, <2>1 DEF HeldIInv
    <2>3. held' # {} => fs'.lock # "none"
      BY <1>1, <1>2 DEF HeldIInv
    <2>4. \A q \in Procs : pc'[q] \in {"await", "created", "ck_await"} => fs'.lock # "none"
      BY <1>1, <1>2 DEF HeldIInv
    <2> QED BY <1>2, <2>1, <2>2, <2>3, <2>4 DEF HeldIInv
  <1>5. FreshIInv'
    <2>1. \A f : Journaled(f)' <=> Journaled(f)
      BY DEF Journaled
    <2>2. \A q \in Procs : pc'[q] = "idle" <=> pc[q] = "idle"
      BY <1>2
    <2> QED BY <1>1, <1>2, <2>1, <2>2 DEF FreshIInv, Procs
  <1>6. CheckerIInv'
    <2> SUFFICES ASSUME NEW d \in Checkers, pc'[d] = "ck_verify", d \in held' \/ fs'.lock = "none"
                 PROVE  view'[d] = fs'.out
      BY DEF CheckerIInv
    <2>1. CASE d = c
      BY <1>1, <1>2, <2>1
    <2>2. CASE d # c
      BY <1>1, <1>2, <2>2 DEF CheckerIInv, Procs
    <2> QED BY <2>1, <2>2
  <1>7. ASSUME NEW v \in Writers
        PROVE  WriterAt(v)'
    BY <1>1, <1>2, WriterUnchanged DEF Procs
  <1> QED BY <1>3, <1>4, <1>5, <1>6, <1>7

-----------------------------------------------------------------------------
(* The invariant, and what it gives.                                        *)

LEMMA InitRecovers ==
    ASSUME Init
    PROVE  RegistrationIInv
  <1> USE DEF Init
  <1>1. TypeIInv
    BY InitTyped
  <1>2. /\ fs.lock = "none" /\ fs.journal = NoFile /\ \A n \in TxId : fs.backup[n] = Absent
        /\ ~Journaled(fs) /\ durable = {fs} /\ held = {} /\ ~acked
        /\ \A p \in Procs : pc[p] = "idle"
    BY JournalTypes DEF Journaled
  <1>3. DiskIInv
    BY <1>2 DEF DiskIInv, Coherent, Precedes
  <1>4. HeldIInv
    BY <1>2 DEF HeldIInv, CriticalPc, Procs
  <1>5. FreshIInv
    BY <1>2 DEF FreshIInv, BeforeTransaction, LockPc, Procs
  <1>6. CheckerIInv
    BY <1>2 DEF CheckerIInv, Procs
  <1>7. ASSUME NEW w \in Writers
        PROVE  WriterAt(w)
    <2>1. pc[w] = "idle"
      BY <1>2 DEF Procs
    <2>2. RecoveringAt(w) /\ CommittingAt(w) /\ ProgressAt(w) /\ UndoingAt(w) /\ ReportAt(w)
      BY <2>1 DEF RecoveringAt, CommittingAt, ProgressAt, UndoingAt, ReportAt, Reporting,
         LockPc, FindingPc, ResolvedPc, ClearedPc, StagingPc, StagedPc, OldMovedPc, NewInstalledPc,
         BackupRemovedPc, UndoingPc, UndonePc, CommittingPc, ReplacingPc, SyncedPc, BeforeTransaction
    <2> QED BY <2>2 DEF WriterAt
  <1> QED BY <1>1, <1>3, <1>4, <1>5, <1>6, <1>7 DEF RegistrationIInv

LEMMA WriteKeeps ==
    ASSUME RegistrationIInv, NEW w \in Writers, Write(w), TypeIInv'
    PROVE  RegistrationIInv'
  <1>1. invocations' = invocations /\ view' = view /\ TypeIInv
    BY DEF Write, RegistrationIInv
  <1>2. CASE LookupLock(w) \/ CreateLock(w)
    BY <1>1, <1>2, ApproachKeeps
  <1>3. CASE AwaitLock(w) \/ LockCreated(w)
    BY <1>1, <1>3, AcquireKeeps
  <1>4. CASE ReadLock(w) \/ InitializeLock(w) \/ FlushLock(w)
    BY <1>1, <1>4, LockRecordIsLocal, LockRecordKeeps, InitializeLockKeeps, LocalStepKeeps
  <1>5. CASE RecoveryStep(w)
    BY <1>1, <1>5, RecoveryIsLocal, RecoveryStepKeeps, LocalStepKeeps
  <1>6. CASE StagingStep(w)
    BY <1>1, <1>6, StagingIsLocal, StagingStepKeeps, LocalStepKeeps
  <1>7. CASE CommitStep(w)
    BY <1>1, <1>7, CommitIsLocal, CommitStepKeeps, LocalStepKeeps
  <1>8. CASE RollbackStep(w)
    BY <1>1, <1>8, RollbackIsLocal, RollbackStepKeeps, LocalStepKeeps
  <1> QED BY <1>2, <1>3, <1>4, <1>5, <1>6, <1>7, <1>8 DEF Write, LockStep

LEMMA RegistrationIsInductive ==
    ASSUME RegistrationIInv, TypeIInv', [Next]_vars
    PROVE  RegistrationIInv'
  <1>1. CASE UNCHANGED vars
    <2>1. /\ fs' = fs /\ durable' = durable /\ held' = held /\ pc' = pc /\ job' = job
          /\ outcome' = outcome /\ view' = view /\ invocations' = invocations
          /\ base' = base /\ prior' = prior /\ acked' = acked
      BY <1>1 DEF vars, disk, locals, history
    <2>2. DiskIInv'
      <3>1. DiskStep
        BY <2>1, QuietDisk DEF RegistrationIInv
      <3> QED BY <3>1 DEF DiskStep
    <2>3. HeldIInv'
      BY <2>1 DEF RegistrationIInv, HeldIInv
    <2>4. FreshIInv' /\ CheckerIInv'
      BY <2>1 DEF RegistrationIInv, FreshIInv, CheckerIInv, Journaled
    <2>5. \A w \in Writers : WriterAt(w)'
      BY <2>1, WriterUnchanged DEF RegistrationIInv
    <2> QED BY <2>2, <2>3, <2>4, <2>5 DEF RegistrationIInv
  <1>2. ASSUME NEW p \in Procs, Start(p) \/ Return(p) \/ Crash(p)
        PROVE  RegistrationIInv'
    BY <1>2, StartKeeps, IdleKeeps
  <1>3. ASSUME NEW w \in Writers, Write(w)
        PROVE  RegistrationIInv'
    BY <1>3, WriteKeeps
  <1>4. ASSUME NEW c \in Checkers, Check(c)
        PROVE  RegistrationIInv'
    BY <1>4, CheckKeeps
  <1>5. CASE PowerLoss
    BY <1>5, PowerLossKeeps
  <1>6. Quiescent => UNCHANGED vars
    BY DEF Quiescent
  <1> QED BY <1>1, <1>2, <1>3, <1>4, <1>5, <1>6 DEF Next

\* The inductive invariant holds: everything below is read off it.
LEMMA RegistrationInvariant == Spec => []RegistrationIInv
  <1>1. Init => RegistrationIInv
    BY InitRecovers
  <1>2. RegistrationIInv /\ TypeIInv' /\ [Next]_vars => RegistrationIInv'
    BY RegistrationIsInductive
  <1> QED BY <1>1, <1>2, TypeInvariant, PTL DEF Spec

(* Whatever fails, dies or loses power, a directory at a backup name has    *)
(* the journal that says how to put it back: commit, rollback and recovery  *)
(* all remove the journal last.                                             *)
THEOREM BackupAlwaysHasJournal == Spec => []BackupHasJournal
  <1>1. RegistrationIInv => BackupHasJournal
    BY DEF RegistrationIInv, DiskIInv, Coherent, BackupHasJournal, Journaled
  <1> QED BY <1>1, RegistrationInvariant, PTL

(* Write-ahead journalling: every rename at the output happens under a      *)
(* journal no power loss can take away.                                     *)
THEOREM WriteAhead == Spec => []OutputChangeIsJournaled
  <1>1. RegistrationIInv => OutputChangeIsJournaled
    BY DEF RegistrationIInv, DiskIInv, Precedes, OutputChangeIsJournaled, Journaled
  <1> QED BY <1>1, RegistrationInvariant, PTL

\* The root the journal of a coherent disk settles to, when nothing is torn.
LEMMA OpenRoot ==
    ASSUME ~TornErrors, TypeIInv, NEW f \in Entries, Coherent(f), Journaled(f)
    PROVE  SettledRoot(f) \in {Replaced(f), Planned(f)}
  <1>1. /\ Replaced(f) \in Tree /\ Loose(Replaced(f)) = {Replaced(f)}
        /\ f.journal.old.kind = "absent" <=> Replaced(f) = Absent
    BY RecordTypes, OldKinds, LooseFacts DEF Coherent
  <1>2. CASE Kept(f)
    BY <1>1, <1>2 DEF Kept, SettledRoot
  <1>3. CASE Moved(f)
    BY <1>1, <1>3, SettledOut DEF Moved
  <1>4. CASE Installed(f)
    <2>1. Planned(f) # Absent
      BY RecordTypes, CompleteTrees DEF Planned
    <2> QED BY <1>4, <2>1 DEF Installed, SettledRoot
  <1> QED BY <1>2, <1>3, <1>4 DEF Coherent

LEMMA WholeIsRecoverable ==
    ASSUME TypeIInv, NEW f \in Entries, Coherent(f), Journaled(f), Observable(Replaced(f)),
           f.out \in {Absent, Planned(f), Replaced(f)},
           f.staging[f.journal.tx] \in {Absent, Planned(f)},
           f.backup[f.journal.tx] \in {Absent, Replaced(f)}
    PROVE  RecoveryCase(f) # "ambiguous"
  <1> DEFINE old == Replaced(f)
             new == Planned(f)
             backup == f.backup[f.journal.tx]
             staging == f.staging[f.journal.tx]
  <1>1. /\ old \in Tree /\ old # new /\ new # Absent /\ f.journal.old = JournalOldRoot(old)
        /\ f.journal.new \in Content /\ new = Complete(f.journal.new)
        /\ Observable(new) /\ Observable(Absent) /\ MatchesManifest(new, f.journal.new)
        /\ MatchesOldRoot(old, f.journal.old)
        /\ f.journal.old.kind = "absent" <=> old = Absent
        /\ old # Absent => Absent \notin Loose(old)
        /\ new \notin Loose(old)
        /\ old = Absent => Loose(old) = {Absent}
    BY RecordTypes, CompleteTrees, OldKinds, LooseFacts
    DEF Coherent, Planned, MatchesOldRoot, Observable
  <1>2. /\ Observable(f.out) /\ Observable(staging) /\ Observable(backup)
        /\ staging = Absent \/ MatchesManifest(staging, f.journal.new)
    BY <1>1
  <1>3. CASE Kept(f)
    <2>1. f.out = old /\ backup = Absent
      BY <1>1, <1>3 DEF Kept
    <2> QED BY <1>1, <1>2, <2>1 DEF RecoveryCase
  <1>4. CASE Moved(f)
    <2>1. f.out = Absent /\ backup = old /\ old # Absent
      BY <1>1, <1>4 DEF Moved
    <2> QED BY <1>1, <1>2, <2>1 DEF RecoveryCase
  <1>5. CASE Installed(f)
    <2>1. f.out = new /\ staging = Absent /\ backup \in {Absent, old}
      BY <1>5 DEF Installed
    <2> QED BY <1>1, <1>2, <2>1 DEF RecoveryCase
  <1> QED BY <1>3, <1>4, <1>5 DEF Coherent

(* Whenever what the journal names is whole, on any disk a power loss may   *)
(* leave, one of the branches of recover_prior_transaction applies to the   *)
(* participants: the protocol never strands a run in the ambiguous case.    *)
THEOREM WholeParticipantsRecover == Spec => []WholeParticipantsAreRecoverable
  <1>1. ASSUME RegistrationIInv
        PROVE  WholeParticipantsAreRecoverable
    BY <1>1, WholeIsRecoverable
    DEF RegistrationIInv, DiskIInv, TypeIInv, TypeOK, WholeParticipantsAreRecoverable,
        Journaled, Replaced, Planned
  <1> QED BY <1>1, RegistrationInvariant, PTL

(* A write reported written or unchanged has the expected set installed and *)
(* no transaction left; a written one survives any power loss.              *)
THEOREM SuccessInstalls == Spec => []SuccessIsInstalled
  <1>1. RegistrationIInv => SuccessIsInstalled
    BY DEF RegistrationIInv, WriterAt, ReportAt, SuccessIsInstalled
  <1> QED BY <1>1, RegistrationInvariant, PTL

(* Whoever completed the update, a result that claims one leaves a tree     *)
(* that matches its own manifest at the output.                             *)
THEOREM UpdatedInstalls == Spec => []UpdatedIsComplete
  <1>1. ASSUME RegistrationIInv
        PROVE  UpdatedIsComplete
    <2> SUFFICES ASSUME NEW w \in Writers, Reporting(w), outcome[w].state = "updated"
                 PROVE  MatchesManifest(fs.out, fs.out.fp)
      BY DEF UpdatedIsComplete
    <2>1. PICK c \in Content : fs.out = Complete(c)
      BY <1>1 DEF RegistrationIInv, WriterAt, ReportAt, Whole
    <2> QED BY <2>1, CompleteTrees
  <1> QED BY <1>1, RegistrationInvariant, PTL

(* As long as a failed remove_dir_all removes nothing, an error reported    *)
(* unchanged or restored leaves the root the writer found, wherever the     *)
(* commit failed and however far rollback or recovery got.                  *)
THEOREM FailureRestores ==
    ASSUME ~TornErrors
    PROVE  Spec => []FailureKeepsPriorRoot
  <1>1. RegistrationIInv => FailureKeepsPriorRoot
    BY DEF RegistrationIInv, WriterAt, ReportAt, FailureKeepsPriorRoot
  <1> QED BY <1>1, RegistrationInvariant, PTL

-----------------------------------------------------------------------------
(* What an interrupted rollback or recovery leaves for the next one.  As    *)
(* long as a removal that fails removes nothing, damage comes only from the *)
(* removals at the end of a commit, a rollback or a recovery: while a       *)
(* rename is still due, or was just made, no disk a power loss may leave    *)
(* has a damaged participant.                                               *)
Intact(f) ==
    /\ Journaled(f)
    /\ f.staging[f.journal.tx] \in {Absent, Planned(f)}
    /\ f.backup[f.journal.tx] \in {Absent, Replaced(f)}
AllIntact == \A f \in durable : Intact(f)

OpenMoved == Journaled(fs) /\ Moved(fs)
RenamingPc == {"move_old"} \cup OldMovedPc \cup (NewInstalledPc \ {"dropping_backup"}) \cup UndoingPc
Exposed(w) ==
    \/ pc[w] \in RenamingPc \cup {"rc_rename_flush"}
    \/ Reporting(w) /\ outcome[w].state = "indeterminate"
IntactIInv == OpenMoved \/ (\E w \in Writers : Exposed(w)) => AllIntact

\* Where a writer is with no rename due: the replaced root is not set aside.
UnmovedPc ==
    (ResolvedPc \ {"rc_rename_flush"}) \cup {"rc_backup"} \cup ClearedPc
      \cup {"journal_create", "journal_write", "journal_flush", "dropping_backup"}
      \cup BackupRemovedPc \cup (UndonePc \ {"rb_restore_flush"})

Settles(w) == AllIntact' \/ (~OpenMoved' /\ ~Exposed(w)')

\* What the invariant says of the tree being replaced, after a step.
LEMMA ReplacingAfter ==
    ASSUME RegistrationIInv', NEW w \in Writers, pc'[w] \in ReplacingPc, Own(w)'
    PROVE  /\ Journaled(fs)' /\ fs'.journal.tx = job'[w].tx
           /\ Replaced(fs)' = Old(w)' /\ Planned(fs)' = New(w)' /\ Coherent(fs)'
           /\ New(w)' # Absent /\ New(w)' # Old(w)' /\ New(w)' \notin Loose(Old(w)')
           /\ ~TornErrors => Loose(Old(w)') = {Old(w)'}
  <1>1. Journaled(fs)' /\ fs'.journal.tx = job'[w].tx /\ Coherent(fs)'
    BY DEF Own, RegistrationIInv, DiskIInv
  <1>2. Replaced(fs)' = Old(w)' /\ Planned(fs)' = New(w)'
    BY DEF Own, Replaced, Planned, Old, New
  <1>3. Old(w)' # New(w)'
    BY DEF RegistrationIInv, WriterAt, CommittingAt
  <1>4. Old(w)' \in Tree /\ job'[w].want \in Content
    BY DEF RegistrationIInv, TypeIInv, TypeOK, Job, Procs, Old
  <1>5. New(w)' = Complete(job'[w].want)
    BY DEF New
  <1> QED BY <1>1, <1>2, <1>3, <1>4, <1>5, CompleteTrees, LooseFacts

LEMMA RenamingIsIntact ==
    ASSUME ~TornErrors, RegistrationIInv', NEW w \in Writers,
           pc'[w] \in RenamingPc \ {"rb_restore_flush"}
    PROVE  Intact(fs)'
  <1>1. pc'[w] \in ReplacingPc /\ CommittingAt(w)' /\ UndoingAt(w)'
    BY DEF RegistrationIInv, WriterAt, RenamingPc, ReplacingPc, CommittingPc, StagedPc
  <1>2. Own(w)'
    BY <1>1 DEF CommittingAt, RenamingPc, CommittingPc, StagedPc, OldMovedPc, NewInstalledPc,
       UndoingPc
  <1>3. /\ Journaled(fs)' /\ fs'.journal.tx = job'[w].tx
        /\ Replaced(fs)' = Old(w)' /\ Planned(fs)' = New(w)' /\ Coherent(fs)'
        /\ New(w)' # Absent /\ New(w)' # Old(w)' /\ New(w)' \notin Loose(Old(w)')
        /\ Loose(Old(w)') = {Old(w)'} /\ Loose(Replaced(fs))' = Loose(Replaced(fs)')
    BY <1>1, <1>2, ReplacingAfter DEF Loose, Remains
  <1>4. CASE pc'[w] = "move_old"
    <2>1. /\ fs'.staging[job'[w].tx] = New(w)' /\ fs'.out = Old(w)'
      BY <1>1, <1>4 DEF CommittingAt, StagedPc
    <2>2. Kept(fs)'
      BY <1>3, <2>1 DEF Coherent, Moved, Installed
    <2> QED BY <1>3, <2>1, <2>2 DEF Intact, Kept
  <1>5. CASE pc'[w] \in OldMovedPc
    <2>1. /\ fs'.staging[job'[w].tx] = New(w)' /\ fs'.backup[job'[w].tx] = Old(w)'
      BY <1>1, <1>5 DEF CommittingAt
    <2> QED BY <1>3, <2>1 DEF Intact
  <1>6. CASE pc'[w] \in (NewInstalledPc \ {"dropping_backup"}) \cup {"rb_uninstall"}
    <2>1. /\ fs'.out = New(w)' /\ fs'.backup[job'[w].tx] \in {Old(w)'} \cup Loose(Old(w)')
      BY <1>1, <1>6 DEF CommittingAt, UndoingAt, Loose
    <2>2. Installed(fs)'
      BY <1>3, <2>1 DEF Coherent, Kept, Moved
    <2> QED BY <1>3, <2>1, <2>2 DEF Intact, Installed
  <1>7. CASE pc'[w] \in {"rb_uninstall_flush", "rb_restore"}
    <2>1. /\ fs'.staging[job'[w].tx] = New(w)' /\ fs'.backup[job'[w].tx] \in Loose(Old(w)')
      BY <1>1, <1>7 DEF UndoingAt, Loose, Remains
    <2> QED BY <1>3, <2>1 DEF Intact
  <1> QED BY <1>4, <1>5, <1>6, <1>7 DEF RenamingPc, UndoingPc

LEMMA UnmovedSettles ==
    ASSUME RegistrationIInv', NEW w \in Writers, pc'[w] \in UnmovedPc
    PROVE  Settles(w)
  <1>1. ~Exposed(w)'
    BY DEF Exposed, Reporting, UnmovedPc, RenamingPc, ResolvedPc, ClearedPc, BackupRemovedPc,
       UndonePc, OldMovedPc, NewInstalledPc, UndoingPc
  <1>2. SUFFICES ASSUME Journaled(fs)', Moved(fs)'
                 PROVE  FALSE
    BY <1>1 DEF Settles, OpenMoved
  <1>3. RecoveringAt(w)' /\ CommittingAt(w)' /\ UndoingAt(w)' /\ Coherent(fs)' /\ fs' \in Entries
    BY DEF RegistrationIInv, WriterAt, DiskIInv, TypeIInv, TypeOK
  <1>4. fs'.journal.tx \in TxId /\ fs'.journal.new \in Content /\ Replaced(fs)' \in Tree
    BY <1>2, <1>3, EntryTypes, JournalTypes
    DEF Journaled, Replaced, RegistrationIInv, TypeIInv, TypeOK
  <1>5. fs'.out = Absent /\ Replaced(fs)' # Absent /\ fs'.backup[fs'.journal.tx] # Absent
    <2>1. Loose(Replaced(fs))' = Loose(Replaced(fs)')
      BY DEF Loose, Remains
    <2> QED BY <1>2, <1>4, <2>1, LooseFacts DEF Moved
  <1>6. CASE pc'[w] \in ResolvedPc
    BY <1>3, <1>5, <1>6 DEF RecoveringAt
  <1>7. CASE pc'[w] = "rc_backup"
    BY <1>3, <1>4, <1>5, <1>7, CompleteTrees DEF RecoveringAt, Installed, Planned
  <1>8. CASE pc'[w] \in ClearedPc \cup {"journal_create", "drop_journal_flush"}
    BY <1>2, <1>3, <1>8, JournalTypes DEF RecoveringAt, Journaled
  <1>9. CASE pc'[w] = "journal_write"
    BY <1>2, <1>3, <1>9, JournalTypes DEF CommittingAt, Journaled
  <1>10. CASE pc'[w] \in {"journal_flush", "dropping_backup", "drop_backup_flush", "drop_journal"}
    <2>1. pc'[w] \in ReplacingPc /\ Own(w)'
      BY <1>3, <1>10 DEF CommittingAt, ReplacingPc, CommittingPc, StagedPc, NewInstalledPc,
         BackupRemovedPc
    <2>2. fs'.out = Old(w)' \/ fs'.out = New(w)'
      BY <1>3, <1>10 DEF CommittingAt, StagedPc, NewInstalledPc, BackupRemovedPc
    <2> QED BY <1>5, <2>1, <2>2, ReplacingAfter
  <1>11. CASE pc'[w] \in UndonePc
    BY <1>3, <1>4, <1>5, <1>11 DEF UndoingAt
  <1> QED BY <1>6, <1>7, <1>8, <1>9, <1>10, <1>11 DEF UnmovedPc, BackupRemovedPc

\* The disk is left as it is, or flushed.
LEMMA QuietSettles ==
    ASSUME RegistrationIInv, IntactIInv, NEW w \in Writers,
           UNCHANGED disk \/ SyncParent, prior' = prior, Exposed(w)' => Exposed(w) \/ OpenMoved
    PROVE  Settles(w)
  <1>1. fs' = fs /\ \A f \in durable' : f \in durable
    BY DEF disk, SyncParent, RegistrationIInv, DiskIInv
  <1>2. OpenMoved' <=> OpenMoved
    BY <1>1 DEF OpenMoved, Journaled, Moved, Replaced, Planned
  <1>3. AllIntact => AllIntact'
    BY <1>1 DEF AllIntact, Intact, Journaled, Planned, Replaced
  <1> QED BY <1>2, <1>3 DEF Settles, IntactIInv

\* A call fails, and the result does not leave the rest to recovery.
LEMMA FailureSettles ==
    ASSUME RegistrationIInv, IntactIInv, NEW w \in Writers, prior' = prior,
           NEW status, NEW state, NEW why, Finish(w, status, state, why),
           UNCHANGED disk \/ SyncParent, state # "indeterminate" \/ Exposed(w) \/ OpenMoved
    PROVE  Settles(w)
  <1>1. pc'[w] = "ret" /\ outcome'[w] = [status |-> status, state |-> state, why |-> why]
    BY LocalMoves DEF RegistrationIInv
  <1>2. Exposed(w)' => state = "indeterminate"
    BY <1>1 DEF Exposed, RenamingPc, OldMovedPc, NewInstalledPc, UndoingPc
  <1> QED BY <1>2, QuietSettles

\* Between two renames the disk gains only the entries the step leaves.
LEMMA RenamingSettles ==
    ASSUME ~TornErrors, RegistrationIInv, RegistrationIInv', IntactIInv, NEW w \in Writers,
           Exposed(w) \/ OpenMoved \/ durable' = {fs'}, \A f \in durable' : f \in durable \/ f = fs',
           prior' = prior, pc'[w] \in RenamingPc \ {"rb_restore_flush"} \/ Intact(fs')
    PROVE  Settles(w)
  <1>1. Intact(fs)'
    <2>1. Intact(fs') => Intact(fs)'
      BY DEF Intact, Journaled, Planned, Replaced
    <2> QED BY <2>1, RenamingIsIntact
  <1>2. \A f : Intact(f) => Intact(f)'
    BY DEF Intact, Journaled, Planned, Replaced
  <1>3. ASSUME NEW f \in durable'
        PROVE  Intact(f)'
    <2>1. CASE f = fs'
      <3>1. Intact(fs)' => Intact(f)'
        BY <2>1 DEF Intact, Journaled, Planned, Replaced
      <3> QED BY <1>1, <3>1
    <2>2. CASE f # fs'
      BY <1>2, <1>3, <2>2 DEF IntactIInv, AllIntact
    <2> QED BY <2>1, <2>2
  <1> QED BY <1>3 DEF Settles, AllIntact

LEMMA LockRecordSettles ==
    ASSUME RegistrationIInv, IntactIInv, NEW w \in Writers,
           ReadLock(w) \/ InitializeLock(w) \/ FlushLock(w)
    PROVE  Settles(w)
  <1>1. prior' = prior /\ fs \in Entries /\ durable \subseteq Entries
    BY WriterState DEF ReadLock, InitializeLock, FlushLock, history, RegistrationIInv, TypeIInv, TypeOK
  <1>0. TypeIInv
    BY DEF RegistrationIInv
  <1>2. \A l : Goto(w, l) /\ l \in {"recover", "lock_flush"} => ~Exposed(w)'
    <2>1. \A l : Goto(w, l) => pc'[w] = l
      BY <1>0, LocalMoves
    <2> QED BY <2>1 DEF Exposed, Reporting, RenamingPc, OldMovedPc, NewInstalledPc, UndoingPc
  <1>3. \A status, why : Finish(w, status, "unchanged", why) => ~Exposed(w)'
    <2>1. \A status, why : Finish(w, status, "unchanged", why) =>
             pc'[w] = "ret" /\ outcome'[w] = [status |-> status, state |-> "unchanged", why |-> why]
      BY <1>0, LocalMoves
    <2>2. "ret" \notin RenamingPc \cup {"rc_rename_flush"}
      BY DEF RenamingPc, OldMovedPc, NewInstalledPc, UndoingPc
    <2>3. \A status, why : [status |-> status, state |-> "unchanged", why |-> why].state = "unchanged"
      OBVIOUS
    <2> QED BY <2>1, <2>2, <2>3 DEF Exposed
  <1>4. CASE ReadLock(w) \/ FlushLock(w)
    BY <1>1, <1>2, <1>3, <1>4, QuietSettles DEF ReadLock, FlushLock, Flush, FailsWith, disk
  <1>5. CASE InitializeLock(w)
    <2>1. CASE UNCHANGED disk
      BY <1>1, <1>2, <1>3, <1>5, <2>1, QuietSettles DEF InitializeLock, FailsWith, disk
    <2>2. CASE ~UNCHANGED disk
      <3>1. /\ \A f, g : f \in Entries /\ (\E l : g = [f EXCEPT !.lock = l]) =>
                  /\ g.journal = f.journal /\ g.out = f.out /\ g.staging = f.staging
                  /\ g.backup = f.backup
        BY DEF Entries
      <3>2. /\ \E l : fs' = [fs EXCEPT !.lock = l]
            /\ \A g \in durable' : g \in durable \/ \E f \in durable : \E l : g = [f EXCEPT !.lock = l]
        BY <1>5, <2>2 DEF InitializeLock, FailsWith, Mutate, RegistrationIInv, DiskIInv
      <3>3. OpenMoved' => OpenMoved
        BY <1>1, <3>1, <3>2 DEF OpenMoved, Journaled, Moved, Replaced, Planned
      <3>4. AllIntact => AllIntact'
        BY <1>1, <3>1, <3>2 DEF AllIntact, Intact, Journaled, Planned, Replaced
      <3>5. ~Exposed(w)'
        BY <1>2, <1>3, <1>5, <2>2 DEF InitializeLock, FailsWith
      <3> QED BY <3>3, <3>4, <3>5 DEF Settles, IntactIInv
    <2> QED BY <2>1, <2>2
  <1> QED BY <1>4, <1>5

LEMMA RecoverySettles ==
    ASSUME ~TornErrors, RegistrationIInv, RegistrationIInv', IntactIInv, NEW w \in Writers,
           RecoveryStep(w)
    PROVE  Settles(w)
  <1>0. \A status, state, why : Finish(w, status, state, why) =>
           /\ pc'[w] = "ret"
           /\ outcome'[w] = [status |-> status, state |-> state, why |-> why]
    BY LocalMoves DEF RegistrationIInv
  <1> USE DEF At, Flush, Skip, FailsWith, history
  <1>1. \A l : Goto(w, l) => pc'[w] = l
    BY LocalMoves DEF RegistrationIInv
  <1>2. \A l \in (ResolvedPc \ {"rc_rename_flush"}) \cup {"rc_flush", "inspect"} :
           Goto(w, l) => Settles(w)
    BY <1>1, UnmovedSettles DEF UnmovedPc, ClearedPc
  <1>3. EffectState(w) # "indeterminate"
    BY WriterState DEF RegistrationIInv, EffectState, Job, Effect
  <1>4. \A status, why : prior' = prior /\ UNCHANGED disk /\ Finish(w, status, EffectState(w), why)
           => Settles(w)
    BY <1>3, FailureSettles
  <1> USE DEF ResolvedPc
  <1>5. CASE RecoverPriorTransaction(w)
    <2>1. ~Exposed(w)'
      <3>1. CASE \E why : Finish(w, "error", "unchanged", why)
        <4>1. PICK why : Finish(w, "error", "unchanged", why)
          BY <3>1
        <4>2. /\ pc'[w] = "ret"
              /\ outcome'[w] = [status |-> "error", state |-> "unchanged", why |-> why]
          BY <1>0, <4>1
        <4> QED BY <4>2 DEF Exposed, RenamingPc, OldMovedPc, NewInstalledPc, UndoingPc
      <3>2. CASE pc'[w] \in {"inspect", "rc_staging", "rc_rename", "rc_backup"}
        BY <3>2 DEF Exposed, Reporting, RenamingPc, OldMovedPc, NewInstalledPc, UndoingPc
      <3>3. RecoveryCase(fs) # "ambiguous" =>
               RecoverEntry[RecoveryCase(fs)] \in {"rc_staging", "rc_rename", "rc_backup"}
        BY DEF RecoverEntry, RecoveryCase
      <3> QED BY <1>1, <1>5, <3>1, <3>2, <3>3, WriterState
              DEF RecoverPriorTransaction, RegistrationIInv, LocalsOK
    <2> QED BY <1>5, <2>1, QuietSettles DEF RecoverPriorTransaction
  <1>6. CASE RecoveryRename(w)
    <2>1. OpenMoved
      <3>1. pc[w] = "rc_rename" /\ w \in Procs
        BY <1>6 DEF RecoveryRename, Procs
      <3>2. Moved(fs)
        BY <3>1 DEF RegistrationIInv, WriterAt, RecoveringAt
      <3>3. Journaled(fs)
        BY <3>1 DEF RegistrationIInv, TypeIInv, RecoveryHasJournal, RecoveringPc, Journaled
      <3> QED BY <3>2, <3>3 DEF OpenMoved
    <2>2. CASE FailsWith(w, "indeterminate")
      BY <1>6, <2>1, <2>2, FailureSettles DEF RecoveryRename
    <2>3. CASE Mutate([fs EXCEPT !.out = fs.backup[fs.journal.tx], !.backup[fs.journal.tx] = Absent])
      <3>1. fs \in Entries /\ fs.journal.tx \in TxId
        BY <2>1, WriterState, RecordTypes DEF RegistrationIInv, OpenMoved
      <3>2. Intact(fs')
        <4>1. /\ Journaled(fs) /\ fs.staging[fs.journal.tx] = Planned(fs)
              /\ fs' = [fs EXCEPT !.out = fs.backup[fs.journal.tx], !.backup[fs.journal.tx] = Absent]
          BY <2>1, <2>3 DEF Mutate, OpenMoved, Moved
        <4>2. /\ fs'.journal = fs.journal /\ fs'.staging = fs.staging
              /\ fs'.backup[fs.journal.tx] = Absent
          BY <3>1, <4>1 DEF Entries
        <4> QED BY <4>1, <4>2 DEF Intact, Journaled, Planned
      <3> QED BY <1>6, <2>1, <2>3, <3>2, RenamingSettles DEF RecoveryRename, Mutate
    <2> QED BY <1>6, <2>2, <2>3 DEF RecoveryRename
  <1>7. CASE RecoveryRenameFlush(w)
    BY <1>7, QuietSettles DEF RecoveryRenameFlush, Exposed
  <1>8. CASE RecoveryStaging(w)        BY <1>2, <1>4, <1>8 DEF RecoveryStaging, UnlinkStaging, Unlink
  <1>9. CASE RecoveryStagingFlush(w)   BY <1>2, <1>4, <1>9 DEF RecoveryStagingFlush
  <1>10. CASE RecoveryBackup(w)
    <2>1. pc'[w] = "rc_backup" => Settles(w)
      BY UnmovedSettles DEF UnmovedPc
    <2> QED BY <1>1, <1>2, <1>4, <1>10, <2>1 DEF RecoveryBackup, UnlinkBackup, Unlink
  <1>11. CASE RecoveryBackupFlush(w)   BY <1>2, <1>4, <1>11 DEF RecoveryBackupFlush
  <1>12. CASE RecoveryTemporary(w)     BY <1>2, <1>4, <1>12 DEF RecoveryTemporary
  <1>13. CASE RecoveryJournal(w)       BY <1>2, <1>4, <1>13 DEF RecoveryJournal
  <1>14. CASE RecoveryFlush(w)         BY <1>2, <1>4, <1>14 DEF RecoveryFlush
  <1> QED
    BY <1>5, <1>6, <1>7, <1>8, <1>9, <1>10, <1>11, <1>12, <1>13, <1>14 DEF RecoveryStep

LEMMA StagingSettles ==
    ASSUME RegistrationIInv, RegistrationIInv', IntactIInv, NEW w \in Writers, StagingStep(w)
    PROVE  Settles(w)
  <1> USE DEF At, FailsWith, history
  <1>1. \A l \in ClearedPc \cup {"journal_create"} : pc'[w] = l => Settles(w)
    BY UnmovedSettles DEF UnmovedPc
  <1>2. \A l \in ClearedPc \cup {"journal_create"} : Goto(w, l) => Settles(w)
    BY <1>1, LocalMoves DEF RegistrationIInv
  <1>3. EffectState(w) # "indeterminate"
    BY WriterState DEF RegistrationIInv, EffectState, Job, Effect
  <1>4. \A status, why : prior' = prior /\ (UNCHANGED disk \/ SyncParent)
                           /\ Finish(w, status, EffectState(w), why) => Settles(w)
    BY <1>3, FailureSettles
  <1> USE DEF ClearedPc
  <1>5. CASE InspectOutput(w)
    <2>1. ReplaceOutput(w) => pc'[w] = "mk_staging"
      BY WriterState DEF ReplaceOutput, RegistrationIInv, LocalsOK
    <2> QED BY <1>1, <1>4, <1>5, <2>1 DEF InspectOutput
  <1>6. CASE MakeStaging(w)                 BY <1>2, <1>4, <1>6 DEF MakeStaging
  <1>7. CASE FillStaging(w)                 BY <1>2, <1>7 DEF FillStaging, StagingFails
  <1>8. CASE FlushStaging(w)                BY <1>2, <1>8 DEF FlushStaging, StagingFails
  <1>9. CASE CleanupFailedStaging(w)
    BY <1>2, <1>4, <1>9 DEF CleanupFailedStaging, UnlinkStaging, Unlink
  <1>10. CASE CleanupFailedStagingFlush(w)  BY <1>4, <1>10 DEF CleanupFailedStagingFlush
  <1> QED BY <1>5, <1>6, <1>7, <1>8, <1>9, <1>10 DEF StagingStep

\* A commit step fails with the disk as it was, or the rename undone next.
LEMMA CommitFailureSettles ==
    ASSUME ~TornErrors, RegistrationIInv, RegistrationIInv', IntactIInv, NEW w \in Writers,
           pc[w] \in (CommittingPc \cup {"journal_create"}) \ {"dropping_backup"},
           NEW j, RollbackAfterCommit(w, j), j.root = job[w].root, prior' = prior,
           \A f \in durable' : f \in durable \/ f = fs',
           UNCHANGED disk \/ pc[w] \notin BackupRemovedPc
    PROVE  Settles(w)
  <1>1. /\ j.root = "backup_removed" => pc'[w] = "ret" /\ outcome'[w].state = "updated"
        /\ j.root = "new_installed" => pc'[w] = "rb_uninstall"
        /\ j.root = "old_moved" =>
              pc'[w] = IF j.old.kind # "absent" THEN "rb_restore" ELSE "rb_staging"
        /\ j.root = "staged" => pc'[w] = "rb_staging"
    BY LocalMoves DEF RegistrationIInv
  <1>2. ProgressAt(w) /\ CommittingAt(w)
    BY DEF RegistrationIInv, WriterAt
  <1>3. pc'[w] = "rb_staging" => Settles(w)
    BY UnmovedSettles DEF UnmovedPc, UndonePc
  <1>4. CASE pc[w] \in StagedPc \cup {"journal_create"}
    BY <1>1, <1>2, <1>3, <1>4 DEF ProgressAt, StagingPc
  <1>5. CASE pc[w] \in OldMovedPc \cup (NewInstalledPc \ {"dropping_backup"})
    <2>1. Exposed(w)
      BY <1>5 DEF Exposed, RenamingPc
    <2>2. pc'[w] \in {"rb_uninstall", "rb_restore", "rb_staging"}
      BY <1>1, <1>2, <1>5 DEF ProgressAt
    <2> QED BY <1>3, <2>1, <2>2, RenamingSettles DEF RenamingPc, UndoingPc
  <1>6. CASE pc[w] \in BackupRemovedPc
    <2>1. pc'[w] = "ret" /\ outcome'[w].state = "updated"
      BY <1>1, <1>2, <1>6 DEF ProgressAt
    <2>2. ~Exposed(w)'
      BY <2>1 DEF Exposed, RenamingPc, OldMovedPc, NewInstalledPc, UndoingPc
    <2> QED BY <1>6, <2>2, QuietSettles
  <1> QED BY <1>4, <1>5, <1>6 DEF CommittingPc

LEMMA CommitSettles ==
    ASSUME ~TornErrors, RegistrationIInv, RegistrationIInv', IntactIInv, NEW w \in Writers,
           CommitStep(w)
    PROVE  Settles(w)
  <1> USE DEF At, history
  <1>1. /\ \A l : Goto(w, l) => pc'[w] = l
        /\ \A root, controls, l : Advance(w, root, controls, l) => pc'[w] = l
    BY LocalMoves DEF RegistrationIInv
  <1>2. \A l \in {"journal_write", "journal_flush", "dropping_backup"} \cup BackupRemovedPc :
           pc'[w] = l => Settles(w)
    BY UnmovedSettles DEF UnmovedPc
  <1>3. ASSUME pc[w] \in (CommittingPc \cup {"journal_create"}) \ {"dropping_backup"}, prior' = prior
        PROVE  /\ CommitFails(w) => Settles(w)
               /\ \A x : CommitFailsOwning(w, x) => Settles(w)
               /\ \A x, f : /\ pc[w] \notin BackupRemovedPc
                            /\ Mutate(f) /\ RollbackAfterCommit(w, [job[w] EXCEPT !.ctl = x])
                            => Settles(w)
    <2>1. \A x : [job[w] EXCEPT !.ctl = x].root = job[w].root
      BY WriterState DEF RegistrationIInv, Job
    <2> QED BY <1>3, <2>1, CommitFailureSettles DEF CommitFails, CommitFailsOwning, Mutate, disk
  <1>4. ASSUME pc[w] \in RenamingPc, prior' = prior, pc'[w] \in RenamingPc \ {"rb_restore_flush"},
               SyncParent \/ \E f : Mutate(f)
        PROVE  Settles(w)
    BY <1>4, RenamingSettles DEF Exposed, SyncParent, Mutate
  <1> USE DEF CommittingPc, StagedPc, OldMovedPc, NewInstalledPc, BackupRemovedPc
  <1>5. CASE JournalCreate(w)   BY <1>1, <1>2, <1>3, <1>5 DEF JournalCreate
  <1>6. CASE JournalWrite(w)    BY <1>1, <1>2, <1>3, <1>6 DEF JournalWrite
  <1>7. CASE JournalFlush(w)
    <2>1. CASE SyncParent /\ pc'[w] \in {"move_old", "old_temporary"}
      BY <1>7, <2>1, RenamingSettles DEF JournalFlush, SyncParent, RenamingPc
    <2> QED BY <1>1, <1>3, <1>7, <2>1 DEF JournalFlush
  <1>8. CASE MoveOldRoot(w)     BY <1>1, <1>3, <1>4, <1>8 DEF MoveOldRoot, RenamingPc
  <1>9. CASE InstallNewRoot(w)  BY <1>1, <1>3, <1>4, <1>9 DEF InstallNewRoot, RenamingPc
  <1>10. CASE MoveOldRootFlush(w) \/ OldMovedFlush(w) \/ InstallNewRootFlush(w)
    BY <1>1, <1>3, <1>4, <1>10
    DEF MoveOldRootFlush, OldMovedFlush, InstallNewRootFlush, CommitFlush, RenamingPc
  <1>11. CASE OldMovedTemporary(w) \/ NewInstalledTemporary(w)
    BY <1>1, <1>3, <1>4, <1>11
    DEF OldMovedTemporary, NewInstalledTemporary, JournalTemporary, RenamingPc
  <1>12. CASE OldMovedReplace(w) \/ NewInstalledReplace(w)
    BY <1>1, <1>3, <1>4, <1>12
    DEF OldMovedReplace, NewInstalledReplace, JournalReplace, RenamingPc
  <1>13. CASE NewInstalledFlush(w)
    BY <1>1, <1>2, <1>3, <1>4, <1>13 DEF NewInstalledFlush, RenamingPc
  <1>14. CASE RemoveBackup(w)        BY <1>1, <1>2, <1>3, <1>14 DEF RemoveBackup
  <1>15. CASE FinishRemoveBackup(w)  BY <1>1, <1>2, <1>15 DEF FinishRemoveBackup
  <1>16. CASE RemoveBackupFlush(w)   BY <1>1, <1>2, <1>3, <1>16 DEF RemoveBackupFlush, CommitFlush
  <1>17. CASE RemoveJournal(w)       BY <1>1, <1>2, <1>3, <1>17 DEF RemoveJournal
  <1>18. CASE RemoveJournalFlush(w)
    BY <1>3, <1>18, FailureSettles DEF RemoveJournalFlush
  <1> QED
    BY <1>5, <1>6, <1>7, <1>8, <1>9, <1>10, <1>11, <1>12, <1>13, <1>14, <1>15, <1>16, <1>17, <1>18
    DEF CommitStep

LEMMA RollbackSettles ==
    ASSUME ~TornErrors, RegistrationIInv, RegistrationIInv', IntactIInv, NEW w \in Writers,
           RollbackStep(w)
    PROVE  Settles(w)
  <1> USE DEF At, Flush, Skip, FailsWith, history
  <1>1. \A l : Goto(w, l) => pc'[w] = l
    BY LocalMoves DEF RegistrationIInv
  <1>2. \A l \in UndonePc \ {"rb_restore_flush"} : Goto(w, l) => Settles(w)
    BY <1>1, UnmovedSettles DEF UnmovedPc
  <1>3. RollbackState(w) # "indeterminate"
    BY DEF RollbackState
  <1>4. \A status, state, why :
           /\ prior' = prior /\ (UNCHANGED disk \/ SyncParent)
           /\ Finish(w, status, state, why)
           /\ state = RollbackState(w) \/ pc[w] \in UndoingPc
           => Settles(w)
    BY <1>3, FailureSettles DEF Exposed, RenamingPc
  <1> USE DEF UndoingPc, UndonePc
  <1>5. CASE RollbackUninstall(w)
    <2>1. ASSUME NEW f, Mutate(f), Goto(w, "rb_uninstall_flush")
          PROVE  Settles(w)
      BY <1>1, <1>5, <2>1, RenamingSettles DEF RollbackUninstall, Mutate, Exposed, RenamingPc
    <2> QED BY <1>4, <1>5, <2>1 DEF RollbackUninstall
  <1>6. CASE RollbackUninstallFlush(w)
    <2>1. ASSUME SyncParent, pc'[w] = "rb_restore"
          PROVE  Settles(w)
      BY <1>6, <2>1, RenamingSettles DEF RollbackUninstallFlush, SyncParent, Exposed, RenamingPc
    <2> QED BY <1>1, <1>2, <1>4, <1>6, <2>1 DEF RollbackUninstallFlush
  <1>7. CASE RollbackRestore(w)
    <2> DEFINE n == job[w].tx
               g == [fs EXCEPT !.out = fs.backup[n], !.backup[n] = Absent]
    <2>1. ASSUME Mutate(g), Goto(w, "rb_restore_flush")
          PROVE  Settles(w)
      <3>1. /\ fs \in Entries /\ n \in TxId /\ Own(w) /\ fs.staging[n] = New(w)
            /\ Journaled(fs) /\ fs.journal.tx = n /\ Planned(fs) = New(w)
        BY <1>7, UndoState DEF RollbackRestore, UndoingAt
      <3>2. Intact(g)
        <4>1. g.journal = fs.journal /\ g.staging = fs.staging /\ g.backup[n] = Absent
          BY <3>1 DEF Entries
        <4> HIDE DEF g
        <4> QED BY <3>1, <4>1 DEF Intact, Journaled, Planned
      <3>3. fs' = g /\ durable' = durable \cup {g}
        BY <2>1 DEF Mutate
      <3> HIDE DEF g
      <3> QED BY <1>7, <3>2, <3>3, RenamingSettles DEF RollbackRestore, Exposed, RenamingPc
    <2> QED BY <1>4, <1>7, <2>1 DEF RollbackRestore
  <1>8. CASE RollbackRestoreFlush(w)
    BY <1>2, <1>4, <1>8 DEF RollbackRestoreFlush
  <1>9. CASE RollbackStaging(w)
    <2>1. pc'[w] = "rb_staging" => Settles(w)
      BY UnmovedSettles DEF UnmovedPc
    <2> QED BY <1>1, <1>2, <1>4, <1>9, <2>1 DEF RollbackStaging, UnlinkStaging, Unlink
  <1>10. CASE RollbackTemporary(w)  BY <1>2, <1>4, <1>10 DEF RollbackTemporary
  <1>11. CASE RollbackJournal(w)    BY <1>2, <1>4, <1>11 DEF RollbackJournal
  <1>12. CASE RollbackFlush(w)      BY <1>4, <1>12 DEF RollbackFlush
  <1> QED BY <1>5, <1>6, <1>7, <1>8, <1>9, <1>10, <1>11, <1>12 DEF RollbackStep

\* A step past the lock is the only one that can expose its writer.
LEMMA LocalSettles ==
    ASSUME RegistrationIInv, NEW w \in Writers, LocalStep(w), Settles(w)
    PROVE  IntactIInv'
  <1>1. w \in held /\ held = {w} /\ held' = {w} /\ w \in Procs
    BY DEF RegistrationIInv, HeldIInv, LocalStep, Procs
  <1>2. ASSUME NEW v \in Writers, v # w
        PROVE  ~Exposed(v)'
    <2>1. pc'[v] = pc[v] /\ v \notin held /\ v \notin held'
      BY <1>1, <1>2 DEF LocalStep, Procs
    <2>2. pc[v] \notin CriticalPc
      BY <2>1 DEF RegistrationIInv, HeldIInv
    <2> QED BY <2>1, <2>2 DEF Exposed, Reporting, RenamingPc, OldMovedPc, NewInstalledPc, UndoingPc,
           CriticalPc
  <1>3. CASE AllIntact'
    BY <1>3 DEF IntactIInv
  <1>4. CASE ~OpenMoved' /\ ~Exposed(w)'
    BY <1>2, <1>4 DEF IntactIInv
  <1> QED BY <1>3, <1>4 DEF Settles

\* Every other step leaves the participants alone and exposes nobody.
LEMMA OutsideSettles ==
    ASSUME IntactIInv, prior' = prior,
           /\ fs'.journal = fs.journal /\ fs'.out = fs.out
           /\ fs'.staging = fs.staging /\ fs'.backup = fs.backup,
           \A g \in durable' : \E f \in durable :
               /\ g.journal = f.journal /\ g.staging = f.staging /\ g.backup = f.backup,
           \A v \in Writers : Exposed(v)' => Exposed(v)
    PROVE  IntactIInv'
  <1>1. OpenMoved' => OpenMoved
    BY DEF OpenMoved, Journaled, Moved, Replaced, Planned
  <1>2. AllIntact => AllIntact'
    BY DEF AllIntact, Intact, Journaled, Planned, Replaced
  <1> QED BY <1>1, <1>2 DEF IntactIInv

\* Who stays where it was, with the lock it had, is exposed as before.
LEMMA ExposedBefore ==
    ASSUME NEW v \in Writers, pc'[v] = pc[v], outcome'[v] = outcome[v], v \in held' => v \in held
    PROVE  Exposed(v)' => Exposed(v)
  BY DEF Exposed, Reporting

LEMMA ApproachSettles ==
    ASSUME RegistrationIInv, IntactIInv, NEW w \in Writers,
           LookupLock(w) \/ AwaitLock(w) \/ CreateLock(w) \/ LockCreated(w)
    PROVE  IntactIInv'
  <1>1. TypeIInv /\ fs \in Entries /\ fs \in durable /\ w \in Procs
    BY DEF RegistrationIInv, TypeIInv, TypeOK, DiskIInv, Procs
  <1>2. Finish(w, "error", "unchanged", "io") =>
           /\ pc'[w] = "ret"
           /\ \A q \in Procs : q # w => pc'[q] = pc[q] /\ outcome'[q] = outcome[q]
    BY <1>1, LocalMoves
  <1>3. \A l : Goto(w, l) =>
           /\ pc'[w] = l /\ outcome' = outcome
           /\ \A q \in Procs : q # w => pc'[q] = pc[q]
    BY <1>1, LocalMoves
  <1> USE DEF LookupLock, AwaitLock, CreateLock, LockCreated, FailsWith, history
  <1>4. prior' = prior
    BY DEF RememberRoot
  <1>5. /\ fs'.journal = fs.journal /\ fs'.out = fs.out
        /\ fs'.staging = fs.staging /\ fs'.backup = fs.backup
        /\ \A g \in durable' : \E f \in durable :
               /\ g.journal = f.journal /\ g.staging = f.staging /\ g.backup = f.backup
    <2>1. CASE Mutate([fs EXCEPT !.lock = "torn"])
      BY <1>1, <2>1 DEF Mutate, Entries
    <2> QED BY <2>1 DEF disk
  <1>6. ASSUME NEW v \in Writers, Exposed(v)'
        PROVE  Exposed(v)
    <2>1. /\ pc'[w] \in {"ret", "create", "await", "read_lock", "lookup", "created", "init_lock"}
          /\ \A q \in Procs : q # w => pc'[q] = pc[q] /\ outcome'[q] = outcome[q]
          /\ pc'[w] = "ret" => held' = held
      <3>1. (\E l : Goto(w, l) /\ l \in {"create", "await", "read_lock", "lookup", "created",
                                        "init_lock"})
              \/ (Finish(w, "error", "unchanged", "io") /\ held' = held)
        OBVIOUS
      <3> QED BY <1>2, <1>3, <3>1
    <2>2. v # w
      <3>1. pc[w] \in LockPc
        BY DEF At, LockPc
      <3>2. w \notin held
        BY <3>1 DEF RegistrationIInv, HeldIInv
      <3>3. pc'[w] \notin RenamingPc \cup {"rc_rename_flush"}
        BY <2>1 DEF RenamingPc, OldMovedPc, NewInstalledPc, UndoingPc
      <3>4. ~(pc'[w] = "ret" /\ w \in held')
        BY <2>1, <3>2
      <3> QED BY <1>6, <3>3, <3>4 DEF Exposed, Reporting
    <2>3. held' = held \/ held' = {w}
      BY DEF Exclusive
    <2> QED BY <1>6, <2>1, <2>2, <2>3, ExposedBefore DEF Procs
  <1> QED BY <1>4, <1>5, <1>6, OutsideSettles

LEMMA IntactIsInductive ==
    ASSUME ~TornErrors, RegistrationIInv, RegistrationIInv', IntactIInv, [Next]_vars
    PROVE  IntactIInv'
  <1>1. \A q \in Writers : q \in Procs
    BY DEF Procs
  <1>2. ASSUME UNCHANGED <<disk, prior>>, \A v \in Writers : Exposed(v)' => Exposed(v)
        PROVE  IntactIInv'
    BY <1>2, OutsideSettles DEF disk
  <1>3. CASE UNCHANGED vars
    BY <1>2, <1>3, ExposedBefore DEF vars, locals, history
  <1>4. ASSUME NEW p \in Procs, Start(p) \/ Return(p) \/ Crash(p)
        PROVE  IntactIInv'
    <2>1. /\ pc \in [Procs -> Pc] /\ outcome \in [Procs -> Outcome]
      BY DEF RegistrationIInv, TypeIInv, TypeOK
    <2>2. /\ UNCHANGED <<disk, prior>> /\ \A q \in Procs : q \in held' => q \in held
          /\ pc'[p] \in {"lookup", "ck_lookup", "idle"}
          /\ \A q \in Procs : q # p => pc'[q] = pc[q] /\ outcome'[q] = outcome[q]
      BY <1>4, <2>1 DEF Start, Return, Crash, Idle, history
    <2>3. ASSUME NEW v \in Writers, Exposed(v)'
          PROVE  Exposed(v)
      <3>1. v # p
        BY <2>2, <2>3 DEF Exposed, Reporting, RenamingPc, OldMovedPc, NewInstalledPc, UndoingPc
      <3> QED BY <1>1, <2>2, <2>3, <3>1, ExposedBefore
    <2> QED BY <1>2, <2>2, <2>3
  <1>5. ASSUME NEW w \in Writers, Write(w)
        PROVE  IntactIInv'
    <2>1. TypeIInv
      BY DEF RegistrationIInv
    <2>2. CASE LookupLock(w) \/ AwaitLock(w) \/ CreateLock(w) \/ LockCreated(w)
      BY <2>2, ApproachSettles
    <2>3. CASE ReadLock(w) \/ InitializeLock(w) \/ FlushLock(w)
      BY <2>1, <2>3, LockRecordIsLocal, LockRecordSettles, LocalSettles
    <2>4. CASE RecoveryStep(w)
      BY <2>1, <2>4, RecoveryIsLocal, RecoverySettles, LocalSettles
    <2>5. CASE StagingStep(w)
      BY <2>1, <2>5, StagingIsLocal, StagingSettles, LocalSettles
    <2>6. CASE CommitStep(w)
      BY <2>1, <2>6, CommitIsLocal, CommitSettles, LocalSettles
    <2>7. CASE RollbackStep(w)
      BY <2>1, <2>7, RollbackIsLocal, RollbackSettles, LocalSettles
    <2> QED BY <1>5, <2>2, <2>3, <2>4, <2>5, <2>6, <2>7 DEF Write, LockStep
  <1>6. ASSUME NEW c \in Checkers, Check(c)
        PROVE  IntactIInv'
    <2>1. c \in Procs /\ c \notin Writers /\ UNCHANGED <<disk, prior>>
      BY <1>6, ProcsAssumption DEF Check, history, Procs
    <2>2. /\ \A q \in Procs : q # c => pc'[q] = pc[q] /\ outcome'[q] = outcome[q]
          /\ held' = held \/ held' = held \cup {c}
      BY <1>6, <2>1 DEF Check, CheckLookup, CheckAwait, CheckRead, CheckScan, CheckVerify, Shared,
         Goto, Finish, RegistrationIInv, TypeIInv, TypeOK
    <2> QED BY <1>1, <1>2, <2>1, <2>2, ExposedBefore
  <1>7. CASE PowerLoss
    <2>1. PICK f \in durable : fs' = f /\ durable' = {f}
      BY <1>7 DEF PowerLoss
    <2>2. /\ prior' = prior /\ \A v \in Writers : ~Exposed(v)'
      BY <1>1, <1>7 DEF PowerLoss, Idle, Exposed, Reporting, RenamingPc, OldMovedPc,
         NewInstalledPc, UndoingPc
    <2>3. OpenMoved' => Intact(f)'
      <3>1. SUFFICES ASSUME Journaled(f), Moved(f)
                     PROVE  Intact(f)
        BY <2>1, <2>2 DEF OpenMoved, Intact, Journaled, Moved, Planned, Replaced
      <3>2. f \in Entries
        BY DEF RegistrationIInv, TypeIInv, TypeOK
      <3>3. Loose(Replaced(f)) = {Replaced(f)}
        BY <3>1, <3>2, RecordTypes, LooseFacts DEF RegistrationIInv
      <3> QED BY <3>1, <3>3 DEF Moved, Intact
    <2> QED BY <2>1, <2>2, <2>3 DEF IntactIInv, AllIntact
  <1>8. Quiescent => UNCHANGED vars
    BY DEF Quiescent
  <1> QED BY <1>3, <1>4, <1>5, <1>6, <1>7, <1>8 DEF Next

LEMMA IntactInvariant ==
    ASSUME ~TornErrors
    PROVE  Spec => []IntactIInv
  <1>1. Init => IntactIInv
    BY JournalTypes DEF Init, IntactIInv, OpenMoved, Exposed, Reporting, Journaled, RenamingPc,
       OldMovedPc, NewInstalledPc, UndoingPc, Procs
  <1>2. RegistrationIInv /\ RegistrationIInv' /\ IntactIInv /\ [Next]_vars => IntactIInv'
    BY IntactIsInductive
  <1> QED BY <1>1, <1>2, RegistrationInvariant, PTL DEF Spec

(* As long as a failed removal removes nothing, an error reported           *)
(* indeterminate leaves a state recovery decides, whatever of it survives a *)
(* power loss: the journal is there, the root can still settle to the       *)
(* replaced tree or to the complete new one, and with a readable replaced   *)
(* tree recover_prior_transaction takes a branch that leads to just that.   *)
THEOREM IndeterminateRecovers ==
    ASSUME ~TornErrors
    PROVE  Spec => []IndeterminateIsRecoverable
  <1>1. ASSUME RegistrationIInv, IntactIInv
        PROVE  IndeterminateIsRecoverable
    <2> SUFFICES ASSUME NEW w \in Writers, Reporting(w), outcome[w].state = "indeterminate",
                        NEW f \in durable
                 PROVE  /\ f.journal.kind = "record"
                        /\ SettledRoot(f) \in {prior[f.journal.tx], Complete(f.journal.new)}
                        /\ Observable(prior[f.journal.tx]) =>
                              /\ RecoveryCase(f) # "ambiguous"
                              /\ RecoveredRoot(f) = SettledRoot(f)
      BY DEF IndeterminateIsRecoverable
    <2>1. Intact(f)
      BY <1>1 DEF IntactIInv, Exposed, AllIntact
    <2>2. f \in Entries /\ Coherent(f) /\ Journaled(f) /\ TypeIInv
      BY <1>1, <2>1 DEF RegistrationIInv, DiskIInv, TypeIInv, TypeOK, Intact
    <2>3. SettledRoot(f) \in {Replaced(f), Planned(f)}
      BY <2>2, OpenRoot
    <2>4. f.out \in {Absent, Planned(f), Replaced(f)}
      <3>1. Loose(Replaced(f)) = {Replaced(f)}
        BY <2>2, RecordTypes, LooseFacts
      <3> QED BY <2>2, <3>1 DEF Coherent, Kept, Moved, Installed
    <2>5. ASSUME Observable(Replaced(f))
          PROVE  RecoveryCase(f) # "ambiguous" /\ RecoveredRoot(f) = SettledRoot(f)
      <3>1. RecoveryCase(f) # "ambiguous"
        BY <2>1, <2>2, <2>4, <2>5, WholeIsRecoverable DEF Intact
      <3>2. CASE RecoveryCase(f) = "restore_old"
        <4>1. f.out = Absent /\ f.journal.old.kind # "absent"
          BY <3>2 DEF RecoveryCase
        <4> QED BY <2>2, <3>1, <3>2, <4>1 DEF RecoveredRoot, SettledRoot, Journaled
      <3>3. CASE RecoveryCase(f) # "restore_old"
        <4>1. f.out = Absent => f.journal.old.kind = "absent"
          <5>1. CASE MatchesOldRoot(f.out, f.journal.old)
            BY <5>1 DEF MatchesOldRoot, JournalOldRoot, Absent
          <5>2. CASE MatchesManifest(f.out, f.journal.new)
            BY <5>2 DEF MatchesManifest, Absent
          <5>3. MatchesOldRoot(f.out, f.journal.old) \/ MatchesManifest(f.out, f.journal.new)
            BY <3>1, <3>3 DEF RecoveryCase
          <5> QED BY <5>1, <5>2, <5>3
        <4>2. RecoveredRoot(f) = f.out
          BY <3>3 DEF RecoveredRoot
        <4>3. SettledRoot(f) = f.out
          BY <4>1 DEF SettledRoot
        <4> QED BY <3>1, <4>2, <4>3
      <3> QED BY <3>1, <3>2, <3>3
    <2> QED BY <2>2, <2>3, <2>5 DEF Journaled, Replaced, Planned
  <1> QED BY <1>1, RegistrationInvariant, IntactInvariant, PTL

-----------------------------------------------------------------------------
\* A writer reports for itself only.
LEMMA WriteIsPrivate ==
    ASSUME TypeIInv, NEW w \in Writers, Write(w)
    PROVE  \A q \in Procs : q # w => outcome'[q] = outcome[q]
  <1>1. CASE LookupLock(w) \/ AwaitLock(w) \/ CreateLock(w) \/ LockCreated(w)
    BY <1>1, LocalMoves DEF LookupLock, AwaitLock, CreateLock, LockCreated, FailsWith
  <1>2. CASE ~(LookupLock(w) \/ AwaitLock(w) \/ CreateLock(w) \/ LockCreated(w))
    <2>1. LocalStep(w)
      BY <1>2, LockRecordIsLocal, RecoveryIsLocal, StagingIsLocal, CommitIsLocal, RollbackIsLocal
      DEF Write, LockStep
    <2> QED BY <2>1 DEF LocalStep
  <1> QED BY <1>1, <1>2

(* A checker that reports a comparison reports the output as it stands at   *)
(* its last look at the lock: with the shared lock no writer could touch    *)
(* it, and without one no writer had yet created the lock file.             *)
THEOREM ComparisonStands == Spec => ComparisonIsCurrent
  <1>1. ASSUME RegistrationIInv, [Next]_vars
        PROVE  [\A c \in Checkers :
                  outcome'[c].status = "compared" /\ outcome[c].status # "compared"
                  => view[c] = fs.out]_vars
    <2> SUFFICES ASSUME NEW c \in Checkers, Next,
                        outcome'[c].status = "compared", outcome[c].status # "compared"
                 PROVE  view[c] = fs.out
      BY <1>1
    <2>1. c \in Procs /\ c \notin Writers
      BY ProcsAssumption DEF Procs
    <2>2. \A w \in Writers : Write(w) => outcome'[c] = outcome[c]
      BY <1>1, <2>1, WriteIsPrivate DEF RegistrationIInv
    <2>3. \A p \in Procs : (Start(p) \/ Return(p) \/ Crash(p)) /\ outcome'[c] # outcome[c] => p = c
      BY <1>1, <2>1 DEF Start, Return, Crash, Idle, RegistrationIInv, TypeIInv, TypeOK
    <2>4. ~Start(c) /\ ~Return(c) /\ ~Crash(c) /\ ~PowerLoss
      BY <1>1, <2>1 DEF Start, Return, Crash, PowerLoss, Idle, NoOutcome, RegistrationIInv, TypeIInv, TypeOK
    <2>5. PICK d \in Checkers : Check(d)
      BY <2>1, <2>2, <2>3, <2>4 DEF Next, Quiescent, vars, locals
    <2>6. CheckVerify(c) /\ (c \in held \/ fs.lock = "none")
      BY <1>1, <2>1, <2>5 DEF Check, CheckLookup, CheckAwait, CheckRead, CheckScan, CheckVerify,
         Goto, Finish, RegistrationIInv, TypeIInv, TypeOK
    <2> QED BY <1>1, <2>6 DEF RegistrationIInv, CheckerIInv, CheckVerify, At
  <1> QED BY <1>1, RegistrationInvariant, PTL DEF Spec, ComparisonIsCurrent

-----------------------------------------------------------------------------
(* The file protocol implements the atomic register (AtomicRoot).  A step   *)
(* leaves the journal alone, or touches nothing but the journal; only the   *)
(* write of the journal opens a transaction.                                *)
SameRoot == fs'.journal = fs.journal /\ fs'.out = fs.out /\ fs'.backup = fs.backup
TreeStep == fs \in durable' /\ fs'.journal = fs.journal
JournalStep ==
    /\ fs \in durable' /\ fs'.out = fs.out /\ fs'.backup = fs.backup
    /\ Journaled(fs') => Journaled(fs)
RegisterStep == SameRoot \/ TreeStep \/ JournalStep

LEMMA RegisterMoves ==
    ASSUME TypeIInv, DiskIInv
    PROVE  /\ UNCHANGED disk => RegisterStep
           /\ SyncParent => RegisterStep
           /\ \A f : Mutate(f) /\ f.journal = fs.journal => RegisterStep
           /\ \A f : /\ Mutate(f) /\ f.out = fs.out /\ f.backup = fs.backup
                     /\ Journaled(f) => Journaled(fs)
                     => RegisterStep
  BY DEF disk, SyncParent, Mutate, RegisterStep, SameRoot, TreeStep, JournalStep, DiskIInv

LEMMA OtherEntries ==
    ASSUME NEW f \in Entries
    PROVE  /\ \A l : LET g == [f EXCEPT !.lock = l]
                    IN  g.journal = f.journal /\ g.out = f.out /\ g.backup = f.backup
           /\ \A n, t : [f EXCEPT !.staging[n] = t].journal = f.journal
           /\ \A n, t : [f EXCEPT !.backup[n] = t].journal = f.journal
           /\ \A n, t, u : [f EXCEPT !.out = u, !.staging[n] = t].journal = f.journal
           /\ \A n, t, u : [f EXCEPT !.out = u, !.backup[n] = t].journal = f.journal
           /\ \A n, t : [f EXCEPT !.temporary[n] = t].journal = f.journal
           /\ \A j : LET g == [f EXCEPT !.journal = j]
                    IN  g.journal = j /\ g.out = f.out /\ g.backup = f.backup
           /\ \A n, j, t : LET g == [f EXCEPT !.journal = j, !.temporary[n] = t]
                          IN  g.journal = j /\ g.out = f.out /\ g.backup = f.backup
  BY DEF Entries

LEMMA UnlinkIsTreeStep ==
    ASSUME TypeIInv, DiskIInv, NEW w \in Writers, NEW n \in TxId, NEW to,
           UnlinkStaging(w, n, to) \/ UnlinkBackup(w, n, to)
    PROVE  RegisterStep
  <1>1. PICK f : Mutate(f) /\ \E t : f = [fs EXCEPT !.staging[n] = t] \/ f = [fs EXCEPT !.backup[n] = t]
    BY DEF UnlinkStaging, UnlinkBackup, Unlink
  <1>2. fs \in Entries
    BY DEF TypeIInv, TypeOK
  <1>3. f.journal = fs.journal
    <2>1. PICK t : f = [fs EXCEPT !.staging[n] = t] \/ f = [fs EXCEPT !.backup[n] = t]
      BY <1>1
    <2> QED BY <1>2, <2>1 DEF Entries
  <1> QED BY <1>1, <1>3, RegisterMoves

LEMMA LockStepsRegister ==
    ASSUME RegistrationIInv, NEW w \in Writers, LockStep(w)
    PROVE  RegisterStep /\ prior' = prior /\ acked' = acked
  <1> USE DEF RegistrationIInv
  <1>1. fs \in Entries
    BY WriterState
  <1>2. prior' = prior /\ acked' = acked
    BY DEF LockStep, LookupLock, AwaitLock, ReadLock, CreateLock, LockCreated, InitializeLock,
       FlushLock, RememberRoot, history
  <1>3. \A l : LET g == [fs EXCEPT !.lock = l]
             IN  g.journal = fs.journal /\ g.out = fs.out /\ g.backup = fs.backup
    BY <1>1 DEF Entries
  <1>4. CASE CreateLock(w)
    BY <1>2, <1>3, <1>4, RegisterMoves DEF CreateLock, FailsWith
  <1>5. CASE InitializeLock(w)
    <2>1. CASE fs' = [fs EXCEPT !.lock = "valid"]
      BY <1>2, <1>3, <2>1 DEF RegisterStep, SameRoot
    <2> QED BY <1>2, <1>5, <2>1, RegisterMoves DEF InitializeLock, FailsWith, Mutate
  <1>6. CASE LookupLock(w) \/ AwaitLock(w) \/ ReadLock(w) \/ LockCreated(w) \/ FlushLock(w)
    BY <1>2, <1>6, RegisterMoves
    DEF LookupLock, AwaitLock, ReadLock, LockCreated, FlushLock, Flush, FailsWith
  <1> QED BY <1>4, <1>5, <1>6 DEF LockStep

LEMMA RecoveryStepsRegister ==
    ASSUME RegistrationIInv, NEW w \in Writers, RecoveryStep(w)
    PROVE  RegisterStep /\ prior' = prior /\ acked' = acked
  <1> USE RegisterMoves DEF RegistrationIInv, FailsWith
  <1>1. fs \in Entries
    BY WriterState
  <1>2. prior' = prior /\ acked' = acked
    BY DEF RecoveryStep, RecoverPriorTransaction, RecoveryRename, RecoveryRenameFlush,
       RecoveryStaging, RecoveryStagingFlush, RecoveryBackup, RecoveryBackupFlush,
       RecoveryTemporary, RecoveryJournal, RecoveryFlush, history
  <1>3. pc[w] \in RecoveringPc => fs.journal.tx \in TxId
    BY <1>1, EntryTypes, JournalTypes DEF TypeIInv, RecoveryHasJournal
  <1>4. CASE RecoveryRename(w)
    <2> DEFINE g == [fs EXCEPT !.out = fs.backup[fs.journal.tx], !.backup[fs.journal.tx] = Absent]
    <2>1. g.journal = fs.journal
      BY <1>1 DEF Entries
    <2>2. Mutate(g) \/ UNCHANGED disk
      BY <1>4 DEF RecoveryRename
    <2> HIDE DEF g
    <2> QED BY <1>2, <2>1, <2>2
  <1>5. CASE RecoveryStaging(w) \/ RecoveryBackup(w)
    <2>1. fs.journal.tx \in TxId
      BY <1>3, <1>5 DEF RecoveryStaging, RecoveryBackup, At, RecoveringPc
    <2> QED BY <1>2, <1>5, <2>1, UnlinkIsTreeStep DEF RecoveryStaging, RecoveryBackup, Skip
  <1>6. CASE RecoveryTemporary(w)
    <2> DEFINE g == [fs EXCEPT !.temporary[fs.journal.tx] = NoFile]
    <2>1. g.journal = fs.journal
      BY <1>1 DEF Entries
    <2>2. Mutate(g) \/ UNCHANGED disk
      BY <1>6 DEF RecoveryTemporary
    <2> HIDE DEF g
    <2> QED BY <1>2, <2>1, <2>2
  <1>7. CASE RecoveryJournal(w)
    <2> DEFINE g == [fs EXCEPT !.journal = NoFile]
    <2>1. g.out = fs.out /\ g.backup = fs.backup /\ ~Journaled(g)
      BY <1>1, JournalTypes DEF Entries, Journaled
    <2>2. Mutate(g) \/ UNCHANGED disk
      BY <1>7 DEF RecoveryJournal
    <2> HIDE DEF g
    <2> QED BY <1>2, <2>1, <2>2
  <1>8. CASE \/ RecoverPriorTransaction(w) \/ RecoveryRenameFlush(w) \/ RecoveryStagingFlush(w)
             \/ RecoveryBackupFlush(w) \/ RecoveryFlush(w)
    BY <1>2, <1>8 DEF RecoverPriorTransaction, RecoveryRenameFlush, RecoveryStagingFlush,
       RecoveryBackupFlush, RecoveryFlush, Flush
  <1> QED BY <1>4, <1>5, <1>6, <1>7, <1>8 DEF RecoveryStep

\* The replaced root is remembered while no journal is there.
LEMMA StagingStepsRegister ==
    ASSUME RegistrationIInv, NEW w \in Writers, StagingStep(w)
    PROVE  RegisterStep /\ acked' = acked /\ (prior' # prior => fs' = fs /\ ~Journaled(fs))
  <1> USE RegisterMoves, WriterState DEF RegistrationIInv, FailsWith, StagingFails
  <1>1. fs \in Entries /\ job[w].tx \in TxId
    OBVIOUS
  <1>2. \A t : [fs EXCEPT !.staging[job[w].tx] = t].journal = fs.journal
    BY <1>1, OtherEntries
  <1>3. CASE InspectOutput(w)
    <2>1. ~Journaled(fs)
      BY <1>3, ClearedState DEF InspectOutput, At, ClearedPc
    <2> QED BY <1>3, <2>1 DEF InspectOutput, disk
  <1>4. CASE MakeStaging(w)
    BY <1>2, <1>4 DEF MakeStaging, history
  <1>5. CASE FillStaging(w)
    BY <1>2, <1>5 DEF FillStaging, history
  <1>6. CASE CleanupFailedStaging(w)
    BY <1>6, UnlinkIsTreeStep DEF CleanupFailedStaging, history
  <1>7. CASE FlushStaging(w) \/ CleanupFailedStagingFlush(w)
    BY <1>7 DEF FlushStaging, CleanupFailedStagingFlush, history
  <1> QED BY <1>3, <1>4, <1>5, <1>6, <1>7 DEF StagingStep

LEMMA RollbackStepsRegister ==
    ASSUME RegistrationIInv, NEW w \in Writers, RollbackStep(w)
    PROVE  RegisterStep /\ prior' = prior /\ acked' = acked
  <1> USE RegisterMoves, WriterState DEF RegistrationIInv, FailsWith
  <1>1. fs \in Entries /\ job[w].tx \in TxId
    OBVIOUS
  <1>2. prior' = prior /\ acked' = acked
    BY DEF RollbackStep, RollbackUninstall, RollbackUninstallFlush, RollbackRestore,
       RollbackRestoreFlush, RollbackStaging, RollbackTemporary, RollbackJournal,
       RollbackFlush, history
  <1>4. CASE RollbackUninstall(w)
    <2> DEFINE g == [fs EXCEPT !.out = Absent, !.staging[job[w].tx] = fs.out]
    <2>1. g.journal = fs.journal
      BY <1>1 DEF Entries
    <2>2. Mutate(g) \/ UNCHANGED disk
      BY <1>4 DEF RollbackUninstall
    <2> HIDE DEF g
    <2> QED BY <1>2, <2>1, <2>2
  <1>5. CASE RollbackRestore(w)
    <2> DEFINE g == [fs EXCEPT !.out = fs.backup[job[w].tx], !.backup[job[w].tx] = Absent]
    <2>1. g.journal = fs.journal
      BY <1>1 DEF Entries
    <2>2. Mutate(g) \/ UNCHANGED disk
      BY <1>5 DEF RollbackRestore
    <2> HIDE DEF g
    <2> QED BY <1>2, <2>1, <2>2
  <1>6. CASE RollbackStaging(w)
    BY <1>1, <1>2, <1>6, UnlinkIsTreeStep DEF RollbackStaging
  <1>7. CASE RollbackTemporary(w)
    <2> DEFINE g == [fs EXCEPT !.temporary[job[w].tx] = NoFile]
    <2>1. g.journal = fs.journal
      BY <1>1 DEF Entries
    <2>2. Mutate(g) \/ UNCHANGED disk
      BY <1>7 DEF RollbackTemporary, Skip
    <2> HIDE DEF g
    <2> QED BY <1>2, <2>1, <2>2
  <1>8. CASE RollbackJournal(w)
    BY <1>1, <1>2, <1>8, OtherEntries, JournalTypes DEF RollbackJournal, Skip, Journaled
  <1>9. CASE RollbackUninstallFlush(w) \/ RollbackRestoreFlush(w) \/ RollbackFlush(w)
    BY <1>2, <1>9 DEF RollbackUninstallFlush, RollbackRestoreFlush, RollbackFlush, Flush
  <1> QED BY <1>4, <1>5, <1>6, <1>7, <1>8, <1>9 DEF RollbackStep

\* The transaction is opened on the root that is there; acked starts over.
OpensTransaction ==
    /\ ~Journaled(fs) /\ Journaled(fs')
    /\ prior' = prior /\ fs'.out = fs.out /\ fs'.backup = fs.backup /\ ~acked'
    /\ Replaced(fs') = fs.out
Acknowledges == fs' = fs /\ ~Journaled(fs) /\ acked' /\ prior' = prior

LEMMA CommitStepsRegister ==
    ASSUME RegistrationIInv, NEW w \in Writers, CommitStep(w)
    PROVE  \/ RegisterStep /\ prior' = prior /\ acked' = acked
           \/ OpensTransaction
           \/ Acknowledges
  <1> USE RegisterMoves, WriterState
      DEF RegistrationIInv, CommitFails, CommitFailsOwning, CommitFlush, history
  <1>1. fs \in Entries /\ job[w].tx \in TxId
    OBVIOUS
  <1>2. /\ \A t, u : /\ [fs EXCEPT !.out = u, !.staging[job[w].tx] = t].journal = fs.journal
                    /\ [fs EXCEPT !.out = u, !.backup[job[w].tx] = t].journal = fs.journal
        /\ \A t : /\ [fs EXCEPT !.backup[job[w].tx] = t].journal = fs.journal
                 /\ [fs EXCEPT !.temporary[job[w].tx] = t].journal = fs.journal
    BY <1>1, OtherEntries
  <1>3. /\ \A j : LET g == [fs EXCEPT !.journal = j]
                 IN  g.journal = j /\ g.out = fs.out /\ g.backup = fs.backup
        /\ \A j, k : LET g == [fs EXCEPT !.journal = j, !.temporary[job[w].tx] = k]
                    IN  g.journal = j /\ g.out = fs.out /\ g.backup = fs.backup
        /\ NoFile.kind # "record" /\ Torn.kind # "record"
    BY <1>1, OtherEntries, JournalTypes
  <1>4. CASE JournalCreate(w)
    BY <1>3, <1>4 DEF JournalCreate, Journaled
  <1>5. CASE JournalWrite(w)
    <2>1. CASE fs' = [fs EXCEPT !.journal = IF @ = Torn THEN OwnRecord(w, "staged") ELSE @]
                 /\ acked' = FALSE
      <3>1. /\ fs.journal = Torn /\ fs.out = Old(w) /\ prior' = prior /\ ~Journaled(fs)
        BY <1>5, CommitState DEF JournalWrite, At, CommittingPc, CommittingAt, StagedPc
      <3>2. fs' = [fs EXCEPT !.journal = OwnRecord(w, "staged")]
        BY <2>1, <3>1
      <3>3. fs'.journal = OwnRecord(w, "staged") /\ fs'.out = fs.out /\ fs'.backup = fs.backup
        BY <1>3, <3>2
      <3>4. Journaled(fs') /\ fs'.journal.tx = job[w].tx
        BY <3>3 DEF Journaled, OwnRecord, Record
      <3> QED BY <2>1, <3>1, <3>3, <3>4 DEF OpensTransaction, Replaced, Old
    <2>2. CASE UNCHANGED disk /\ UNCHANGED acked
      BY <1>5, <2>2 DEF JournalWrite
    <2> QED BY <1>5, <2>1, <2>2 DEF JournalWrite, Mutate
  <1>6. CASE JournalFlush(w)
    BY <1>6 DEF JournalFlush
  <1>7. CASE MoveOldRoot(w) \/ InstallNewRoot(w)
    BY <1>2, <1>7 DEF MoveOldRoot, InstallNewRoot
  <1>8. CASE OldMovedTemporary(w) \/ NewInstalledTemporary(w)
    BY <1>2, <1>8 DEF OldMovedTemporary, NewInstalledTemporary, JournalTemporary
  <1>9. CASE OldMovedReplace(w) \/ NewInstalledReplace(w)
    <2>1. Journaled(fs)
      BY <1>9, CommitState DEF OldMovedReplace, NewInstalledReplace, JournalReplace, At,
         CommittingPc, OldMovedPc, NewInstalledPc
    <2> DEFINE g == [fs EXCEPT !.journal = fs.temporary[job[w].tx],
                               !.temporary[job[w].tx] = NoFile]
    <2>2. g.out = fs.out /\ g.backup = fs.backup
      BY <1>1 DEF Entries
    <2>3. /\ Mutate(g) \/ UNCHANGED disk
          /\ prior' = prior /\ acked' = acked
      BY <1>9 DEF OldMovedReplace, NewInstalledReplace, JournalReplace
    <2> HIDE DEF g
    <2> QED BY <2>1, <2>2, <2>3
  <1>10. CASE RemoveBackup(w) \/ FinishRemoveBackup(w)
    BY <1>2, <1>10 DEF RemoveBackup, FinishRemoveBackup
  <1>11. CASE RemoveJournal(w)
    BY <1>3, <1>11 DEF RemoveJournal, Journaled
  <1>12. CASE RemoveJournalFlush(w)
    <2>1. ~Journaled(fs)
      BY <1>12, CommitState DEF RemoveJournalFlush, At, CommittingPc, BackupRemovedPc
    <2>2. CASE SyncParent /\ acked' = TRUE
      BY <1>12, <2>1, <2>2 DEF RemoveJournalFlush, SyncParent, Acknowledges
    <2> QED BY <1>12, <2>2 DEF RemoveJournalFlush
  <1>13. CASE \/ MoveOldRootFlush(w) \/ OldMovedFlush(w) \/ InstallNewRootFlush(w)
              \/ NewInstalledFlush(w) \/ RemoveBackupFlush(w)
    BY <1>13 DEF MoveOldRootFlush, OldMovedFlush, InstallNewRootFlush, NewInstalledFlush,
       RemoveBackupFlush
  <1> QED
    BY <1>4, <1>5, <1>6, <1>7, <1>8, <1>9, <1>10, <1>11, <1>12, <1>13 DEF CommitStep

-----------------------------------------------------------------------------
\* Nothing the register shows has changed.
LEMMA Stutters ==
    ASSUME SettledRoot(fs') = SettledRoot(fs), acked' = acked,
           Journaled(fs') <=> Journaled(fs),
           Journaled(fs) => Replaced(fs)' = Replaced(fs) /\ Planned(fs') = Planned(fs)
    PROVE  UNCHANGED Abstract!vars
  BY DEF Abstract!vars, SettledRoot, Journaled, Replaced, Planned

\* What a step that adds nothing to the history leaves of the disk's invariant.
LEMMA DiskNow ==
    ASSUME RegistrationIInv, RegistrationIInv', prior' = prior, invocations' = invocations
    PROVE  /\ fs \in Entries /\ fs' \in Entries /\ fs \in durable
           /\ Coherent(fs) /\ Coherent(fs')
           /\ \A f \in durable : Precedes(f, fs)
           /\ \A f \in durable' : Precedes(f, fs')
           /\ acked => \A f \in durable : ~Journaled(f)
           /\ Journaled(fs) => ~acked
           /\ Journaled(fs') => ~acked'
  <1>1. \A f : Coherent(f)' <=> Coherent(f)
    BY DEF Coherent, Journaled, Replaced, Planned, Kept, Moved, Installed
  <1>2. \A f : Precedes(f, fs)' <=> Precedes(f, fs')
    BY DEF Precedes, Journaled, Replaced, Planned
  <1>3. \A f : Journaled(f)' <=> Journaled(f)
    BY DEF Journaled
  <1> QED BY <1>1, <1>2, <1>3 DEF RegistrationIInv, DiskIInv, TypeIInv, TypeOK

\* Between two states of one transaction the register switches, or stays.
LEMMA SwitchImplements ==
    ASSUME ~TornErrors, TypeIInv, fs' \in Entries, Coherent(fs'), prior' = prior, acked' = acked,
           Journaled(fs), Journaled(fs'), SameTransaction(fs', fs)
    PROVE  Abstract!Switch
  <1>1. SettledRoot(fs') \in {Replaced(fs'), Planned(fs')}
    BY OpenRoot
  <1>2. Replaced(fs') = Replaced(fs) /\ Planned(fs') = Planned(fs)
    BY DEF SameTransaction, Replaced, Planned
  <1> QED
    BY <1>1, <1>2
    DEF Abstract!Switch, Abstract!None, SettledRoot, Journaled, Replaced, Planned, SameTransaction

LEMMA SettleImplements ==
    ASSUME SettledRoot(fs') = SettledRoot(fs), acked' = acked, Journaled(fs), ~Journaled(fs')
    PROVE  Abstract!Settle
  BY DEF Abstract!Settle, Abstract!None, SettledRoot, Journaled

LEMMA RegisterStepImplements ==
    ASSUME ~TornErrors, RegistrationIInv, RegistrationIInv', RegisterStep,
           prior' = prior, acked' = acked, invocations' = invocations
    PROVE  Abstract!Switch \/ Abstract!Settle \/ UNCHANGED Abstract!vars
  <1>1. /\ fs \in Entries /\ fs' \in Entries /\ Coherent(fs) /\ Coherent(fs') /\ TypeIInv
        /\ fs \in durable' => Precedes(fs, fs')
    BY DiskNow DEF RegistrationIInv
  <1>2. CASE Journaled(fs) /\ Journaled(fs')
    <2>1. SameTransaction(fs', fs)
      BY <1>1, <1>2
      DEF RegisterStep, SameRoot, TreeStep, JournalStep, Precedes, SameTransaction
    <2> QED BY <1>1, <1>2, <2>1, SwitchImplements
  <1>3. CASE Journaled(fs) /\ ~Journaled(fs')
    <2>1. fs'.out = fs.out /\ fs'.backup = fs.backup
      BY <1>3 DEF RegisterStep, SameRoot, TreeStep, JournalStep, Journaled
    <2>2. fs.backup[fs.journal.tx] = Absent
      BY <1>1, <1>3, <2>1, RecordTypes DEF Coherent
    <2>3. SettledRoot(fs') = SettledRoot(fs)
      BY <1>1, <1>3, <2>1, <2>2, SettledOut
    <2> QED BY <1>3, <2>3, SettleImplements
  <1>4. CASE ~Journaled(fs)
    <2>1. ~Journaled(fs')
      BY <1>4 DEF RegisterStep, SameRoot, TreeStep, JournalStep, Journaled
    <2>2. fs'.out = fs.out
      BY <1>1, <1>4, <2>1 DEF RegisterStep, SameRoot, TreeStep, JournalStep, Precedes
    <2>3. SettledRoot(fs') = SettledRoot(fs)
      BY <1>1, <1>4, <2>1, <2>2, SettledOut
    <2> QED BY <1>4, <2>1, <2>3, Stutters
  <1> QED BY <1>2, <1>3, <1>4

\* The journal's record is written: the transaction is open.
LEMMA BeginImplements ==
    ASSUME RegistrationIInv, RegistrationIInv', OpensTransaction, invocations' = invocations
    PROVE  \E new \in Tree : Abstract!Begin(new)
  <1>1. /\ fs \in Entries /\ fs' \in Entries /\ Coherent(fs) /\ Coherent(fs') /\ TypeIInv
        /\ ~Journaled(fs) /\ Journaled(fs') /\ prior' = prior /\ ~acked'
        /\ fs'.out = fs.out /\ fs'.backup = fs.backup /\ Replaced(fs') = fs.out
    BY DiskNow DEF RegistrationIInv, OpensTransaction
  <1>2. fs'.journal.tx \in TxId /\ Planned(fs') \in Tree
    BY <1>1, RecordTypes
  <1>3. fs'.backup[fs'.journal.tx] = Absent
    BY <1>1, <1>2 DEF Coherent
  <1>4. SettledRoot(fs) = fs.out /\ SettledRoot(fs') = fs.out
    BY <1>1, <1>3, SettledOut
  <1>5. acked' = FALSE
    BY <1>1 DEF RegistrationIInv, TypeIInv, TypeOK
  <1>6. Abstract!Begin(Planned(fs'))
    BY <1>1, <1>4, <1>5
    DEF Abstract!Begin, Abstract!None, Abstract!Open, SettledRoot, Journaled, Replaced, Planned
  <1> QED BY <1>2, <1>6

LEMMA AcknowledgeImplements ==
    ASSUME RegistrationIInv', Acknowledges
    PROVE  Abstract!Acknowledge
  <1>1. acked' = TRUE
    BY DEF RegistrationIInv, TypeIInv, TypeOK, Acknowledges
  <1> QED
    BY <1>1 DEF Abstract!Acknowledge, Abstract!None, Acknowledges, SettledRoot, Journaled

\* A power loss settles, reopens or switches, or goes unnoticed.
LEMMA PowerLossImplements ==
    ASSUME ~TornErrors, RegistrationIInv, RegistrationIInv', PowerLoss
    PROVE  [Abstract!Next]_(Abstract!vars)
  <1>1. fs' \in durable /\ prior' = prior /\ acked' = acked /\ invocations' = invocations
    BY DEF PowerLoss
  <1>2. /\ fs \in Entries /\ fs' \in Entries /\ Coherent(fs) /\ Coherent(fs') /\ TypeIInv
        /\ Precedes(fs', fs)
        /\ acked => ~Journaled(fs')
    BY <1>1, DiskNow DEF RegistrationIInv
  <1>3. CASE Journaled(fs) /\ Journaled(fs')
    <2>1. Abstract!Switch
      BY <1>1, <1>2, <1>3, SwitchImplements DEF Precedes
    <2> QED BY <2>1 DEF Abstract!Next
  <1>4. CASE Journaled(fs) /\ ~Journaled(fs')
    <2>1. fs'.out = fs.out /\ fs.out = Replaced(fs)
      BY <1>2, <1>4 DEF Precedes
    <2>2. Replaced(fs) # Planned(fs)
      BY <1>2, <1>4 DEF Coherent
    <2>3. fs.backup[fs.journal.tx] = Absent
      BY <1>2, <1>4, <2>1, <2>2 DEF Coherent, Kept, Moved, Installed
    <2>4. SettledRoot(fs') = SettledRoot(fs)
      BY <1>2, <1>4, <2>1, <2>3, SettledOut
    <2>5. Abstract!Settle
      BY <1>1, <1>4, <2>4, SettleImplements
    <2> QED BY <2>5 DEF Abstract!Next
  <1>5. CASE ~Journaled(fs) /\ Journaled(fs')
    <2>1. /\ Replaced(fs') \in Tree /\ Planned(fs') \in Tree
          /\ Loose(Replaced(fs')) = {Replaced(fs')}
      BY <1>2, <1>5, RecordTypes, LooseFacts
    <2>2. SettledRoot(fs) = fs.out /\ fs.out \in {Replaced(fs'), Planned(fs')}
      BY <1>2, <1>5, <2>1, SettledOut DEF Precedes
    <2>3. SettledRoot(fs') \in {Replaced(fs'), Planned(fs')}
      BY <1>2, <1>5, OpenRoot
    <2>4. ~acked
      BY <1>2, <1>5
    <2>5. Abstract!Reopen(Replaced(fs'), Planned(fs'))
      BY <1>1, <1>5, <2>2, <2>3, <2>4
      DEF Abstract!Reopen, Abstract!None, Abstract!Open, SettledRoot, Journaled, Replaced, Planned
    <2> QED BY <2>1, <2>5 DEF Abstract!Next
  <1>6. CASE ~Journaled(fs) /\ ~Journaled(fs')
    <2>1. fs'.out = fs.out
      BY <1>2, <1>6 DEF Precedes
    <2>2. SettledRoot(fs') = SettledRoot(fs)
      BY <1>2, <1>6, <2>1, SettledOut
    <2> QED BY <1>1, <1>6, <2>2, Stutters
  <1> QED BY <1>3, <1>4, <1>5, <1>6

LEMMA WriteImplements ==
    ASSUME ~TornErrors, RegistrationIInv, RegistrationIInv', NEW w \in Writers, Write(w)
    PROVE  [Abstract!Next]_(Abstract!vars)
  <1>1. invocations' = invocations
    BY DEF Write
  <1>2. \/ RegisterStep /\ prior' = prior /\ acked' = acked
        \/ acked' = acked /\ fs' = fs /\ ~Journaled(fs)
        \/ OpensTransaction
        \/ Acknowledges
    BY LockStepsRegister, RecoveryStepsRegister, StagingStepsRegister, CommitStepsRegister,
       RollbackStepsRegister DEF Write
  <1>3. CASE RegisterStep /\ prior' = prior /\ acked' = acked
    BY <1>1, <1>3, RegisterStepImplements DEF Abstract!Next
  <1>4. CASE acked' = acked /\ fs' = fs /\ ~Journaled(fs)
    BY <1>4, Stutters
  <1>5. CASE OpensTransaction
    BY <1>1, <1>5, BeginImplements DEF Abstract!Next
  <1>6. CASE Acknowledges
    BY <1>6, AcknowledgeImplements DEF Abstract!Next
  <1> QED BY <1>2, <1>3, <1>4, <1>5, <1>6

(* The whole file protocol, with every fault, crash and power loss the      *)
(* model has and any number of processes, implements the atomic register:   *)
(* the root settles to the replaced tree or to the new one and to nothing   *)
(* else, only inside a transaction, and an acknowledged write stays.  It is *)
(* proved for a remove_dir_all that fails without having removed anything:  *)
(* the torn one is the violation the TornBackup run shows.                  *)
THEOREM ImplementsRegister ==
    ASSUME ~TornErrors
    PROVE  Spec => ImplementsAtomicRoot
  <1>1. Init => Abstract!Init
    <2> SUFFICES ASSUME Init
                 PROVE  Abstract!Init
      OBVIOUS
    <2>1. fs.journal = NoFile /\ ~acked
      BY DEF Init
    <2> QED
      BY <2>1, InitTyped
      DEF Abstract!Init, Abstract!None, SettledRoot, TypeIInv, TypeOK, NoFile, Entries
  <1>2. RegistrationIInv /\ RegistrationIInv' /\ [Next]_vars => [Abstract!Next]_(Abstract!vars)
    <2> SUFFICES ASSUME RegistrationIInv, RegistrationIInv', [Next]_vars
                 PROVE  [Abstract!Next]_(Abstract!vars)
      OBVIOUS
    <2>1. ASSUME UNCHANGED <<disk, prior, acked>>
          PROVE  UNCHANGED Abstract!vars
      BY <2>1, Stutters DEF disk, Journaled, Replaced, Planned, SettledRoot
    <2>2. CASE UNCHANGED vars \/ Quiescent
      BY <2>1, <2>2 DEF vars, history, Quiescent
    <2>3. CASE \E p \in Procs : Start(p) \/ Return(p) \/ Crash(p)
      BY <2>1, <2>3 DEF Start, Return, Crash, history
    <2>4. CASE \E c \in Checkers : Check(c)
      BY <2>1, <2>4 DEF Check, history
    <2> QED BY <2>2, <2>3, <2>4, WriteImplements, PowerLossImplements DEF Next
  <1> QED BY <1>1, <1>2, RegistrationInvariant, PTL DEF Spec, ImplementsAtomicRoot, Abstract!Spec
=============================================================================
