----------------------- MODULE OutputRegistrationProofs -----------------------
(***************************************************************************)
(* Mutual exclusion and type correctness of output registration, for any   *)
(* number of writers and checkers, invocations, faults and crashes.  The   *)
(* inductive invariant of exclusion is LockExclusive with the types of pc  *)
(* and held: every step a writer takes past its lock keeps the lock, and   *)
(* the only steps that enter or leave the critical section are those that  *)
(* take or drop it.                                                        *)
(***************************************************************************)
EXTENDS RegistrationProperties, TLAPS

ControlTypeOK == held \subseteq Procs /\ pc \in [Procs -> Pc]

LockIInv == ControlTypeOK /\ LockExclusive

\* A step of process p that moves its control and leaves the lock alone.
Moves(p) == held' = held /\ \E l \in Pc : pc' = [pc EXCEPT ![p] = l]

\* ... while p is past its lock.
MovesInside(p) == pc[p] \in CriticalPc /\ Moves(p)

(* A step from within the critical section cannot break exclusion: the lock *)
(* is not touched, and the only process that moves already holds it.        *)
LEMMA InsideKeepsExclusion ==
    ASSUME NEW w \in Writers, LockIInv, MovesInside(w)
    PROVE  LockIInv'
  <1>1. PICK l \in Pc : pc' = [pc EXCEPT ![w] = l]
    BY DEF MovesInside, Moves
  <1>2. held' = held /\ held = {w}
    BY DEF MovesInside, Moves, LockIInv, LockExclusive
  <1>3. ControlTypeOK'
    BY <1>1, <1>2 DEF LockIInv, ControlTypeOK, Procs
  <1>4. LockExclusive'
    <2> SUFFICES ASSUME NEW v \in Writers, pc'[v] \in CriticalPc
                 PROVE  held' = {v}
      BY DEF LockExclusive
    <2>1. CASE v = w
      BY <2>1, <1>2
    <2>2. CASE v # w
      BY <2>2, <1>1, <1>2 DEF LockIInv, ControlTypeOK, LockExclusive, Procs
    <2> QED BY <2>1, <2>2
  <1> QED BY <1>3, <1>4 DEF LockIInv

(* A step of a process that stays outside the critical section and leaves   *)
(* the lock alone cannot break exclusion either.                            *)
LEMMA OutsideKeepsExclusion ==
    ASSUME NEW p \in Procs, LockIInv, Moves(p), pc'[p] \notin CriticalPc
    PROVE  LockIInv'
  <1>1. PICK l \in Pc : pc' = [pc EXCEPT ![p] = l]
    BY DEF Moves
  <1>2. ControlTypeOK'
    BY <1>1 DEF Moves, LockIInv, ControlTypeOK, Procs
  <1>3. LockExclusive'
    BY <1>1 DEF Moves, LockIInv, ControlTypeOK, LockExclusive, Procs
  <1> QED BY <1>2, <1>3 DEF LockIInv

(* Taking a free lock enters the critical section alone.                    *)
LEMMA AcquiringKeepsExclusion ==
    ASSUME NEW w \in Writers, LockIInv, Exclusive(w),
           NEW l \in Pc, pc' = [pc EXCEPT ![w] = l]
    PROVE  LockIInv'
  <1>1. ControlTypeOK'
    BY DEF Exclusive, LockIInv, ControlTypeOK, Procs
  <1>2. LockExclusive'
    BY DEF Exclusive, LockIInv, ControlTypeOK, LockExclusive, Procs
  <1> QED BY <1>1, <1>2 DEF LockIInv

-----------------------------------------------------------------------------
(* Every step a writer takes with the lock held is a move inside.           *)

LEMMA RecoveryStaysInside ==
    ASSUME NEW w \in Writers, RecoveryStep(w)
    PROVE  MovesInside(w)
  <1> USE DEF MovesInside, Moves, At, Goto, Finish, FailsWith, Flush, Skip, Unlink, UnlinkStaging,
              UnlinkBackup, CriticalPc, Pc, LockPc, CheckPc
  <1>1. CASE RecoverPriorTransaction(w)
    <2>1. RecoveryCase(fs) # "ambiguous" => RecoverEntry[RecoveryCase(fs)] \in Pc
      BY DEF RecoverEntry, RecoveryCase
    <2> QED BY <1>1, <2>1 DEF RecoverPriorTransaction
  <1>2. CASE RecoveryRename(w)        BY <1>2 DEF RecoveryRename
  <1>3. CASE RecoveryRenameFlush(w)   BY <1>3 DEF RecoveryRenameFlush
  <1>4. CASE RecoveryStaging(w)       BY <1>4 DEF RecoveryStaging
  <1>5. CASE RecoveryStagingFlush(w)  BY <1>5 DEF RecoveryStagingFlush
  <1>6. CASE RecoveryBackup(w)        BY <1>6 DEF RecoveryBackup
  <1>7. CASE RecoveryBackupFlush(w)   BY <1>7 DEF RecoveryBackupFlush
  <1>8. CASE RecoveryTemporary(w)     BY <1>8 DEF RecoveryTemporary
  <1>9. CASE RecoveryJournal(w)       BY <1>9 DEF RecoveryJournal
  <1>10. CASE RecoveryFlush(w)        BY <1>10 DEF RecoveryFlush
  <1> QED
    BY <1>1, <1>2, <1>3, <1>4, <1>5, <1>6, <1>7, <1>8, <1>9, <1>10 DEF RecoveryStep

LEMMA StagingStaysInside ==
    ASSUME NEW w \in Writers, StagingStep(w)
    PROVE  MovesInside(w)
  <1> USE DEF MovesInside, Moves, At, Goto, Finish, FailsWith, Flush, StagingFails, Unlink, UnlinkStaging,
              CriticalPc, Pc, LockPc, CheckPc
  <1>1. CASE InspectOutput(w)               BY <1>1 DEF InspectOutput, ReplaceOutput
  <1>2. CASE MakeStaging(w)                 BY <1>2 DEF MakeStaging
  <1>3. CASE FillStaging(w)                 BY <1>3 DEF FillStaging
  <1>4. CASE FlushStaging(w)                BY <1>4 DEF FlushStaging
  <1>5. CASE CleanupFailedStaging(w)        BY <1>5 DEF CleanupFailedStaging
  <1>6. CASE CleanupFailedStagingFlush(w)   BY <1>6 DEF CleanupFailedStagingFlush
  <1> QED
    BY <1>1, <1>2, <1>3, <1>4, <1>5, <1>6 DEF StagingStep

LEMMA CommitStaysInside ==
    ASSUME NEW w \in Writers, CommitStep(w)
    PROVE  MovesInside(w)
  <1> USE DEF MovesInside, Moves, At, Goto, Finish, FailsWith, Flush, RollbackAfterCommit, CommitFails,
              CommitFailsOwning, CommitFlush, Advance,
              CriticalPc, Pc, LockPc, CheckPc
  <1>1. CASE JournalCreate(w)           BY <1>1 DEF JournalCreate
  <1>2. CASE JournalWrite(w)            BY <1>2 DEF JournalWrite
  <1>3. CASE JournalFlush(w)            BY <1>3 DEF JournalFlush
  <1>4. CASE MoveOldRoot(w)             BY <1>4 DEF MoveOldRoot
  <1>5. CASE MoveOldRootFlush(w)        BY <1>5 DEF MoveOldRootFlush
  <1>6. CASE OldMovedTemporary(w)       BY <1>6 DEF OldMovedTemporary, JournalTemporary
  <1>7. CASE OldMovedReplace(w)         BY <1>7 DEF OldMovedReplace, JournalReplace
  <1>8. CASE OldMovedFlush(w)           BY <1>8 DEF OldMovedFlush
  <1>9. CASE InstallNewRoot(w)          BY <1>9 DEF InstallNewRoot
  <1>10. CASE InstallNewRootFlush(w)    BY <1>10 DEF InstallNewRootFlush
  <1>11. CASE NewInstalledTemporary(w)  BY <1>11 DEF NewInstalledTemporary, JournalTemporary
  <1>12. CASE NewInstalledReplace(w)    BY <1>12 DEF NewInstalledReplace, JournalReplace
  <1>13. CASE NewInstalledFlush(w)      BY <1>13 DEF NewInstalledFlush
  <1>14. CASE RemoveBackup(w)           BY <1>14 DEF RemoveBackup
  <1>15. CASE FinishRemoveBackup(w)     BY <1>15 DEF FinishRemoveBackup
  <1>16. CASE RemoveBackupFlush(w)      BY <1>16 DEF RemoveBackupFlush
  <1>17. CASE RemoveJournal(w)          BY <1>17 DEF RemoveJournal
  <1>18. CASE RemoveJournalFlush(w)     BY <1>18 DEF RemoveJournalFlush
  <1> QED
    BY <1>1, <1>2, <1>3, <1>4, <1>5, <1>6, <1>7, <1>8, <1>9, <1>10, <1>11, <1>12,
       <1>13, <1>14, <1>15, <1>16, <1>17, <1>18 DEF CommitStep

LEMMA RollbackStaysInside ==
    ASSUME NEW w \in Writers, RollbackStep(w)
    PROVE  MovesInside(w)
  <1> USE DEF MovesInside, Moves, At, Goto, Finish, FailsWith, Flush, Skip, Unlink, UnlinkStaging,
              CriticalPc, Pc, LockPc, CheckPc
  <1>1. CASE RollbackUninstall(w)        BY <1>1 DEF RollbackUninstall
  <1>2. CASE RollbackUninstallFlush(w)   BY <1>2 DEF RollbackUninstallFlush
  <1>3. CASE RollbackRestore(w)          BY <1>3 DEF RollbackRestore
  <1>4. CASE RollbackRestoreFlush(w)     BY <1>4 DEF RollbackRestoreFlush
  <1>5. CASE RollbackStaging(w)          BY <1>5 DEF RollbackStaging
  <1>6. CASE RollbackTemporary(w)        BY <1>6 DEF RollbackTemporary
  <1>7. CASE RollbackJournal(w)          BY <1>7 DEF RollbackJournal
  <1>8. CASE RollbackFlush(w)            BY <1>8 DEF RollbackFlush
  <1> QED
    BY <1>1, <1>2, <1>3, <1>4, <1>5, <1>6, <1>7, <1>8 DEF RollbackStep

-----------------------------------------------------------------------------
(* A writer on its way to the lock: outside, or taking the lock, or past it *)
(* with the lock file still to be validated.                                *)
LEMMA LockStepKeepsExclusion ==
    ASSUME NEW w \in Writers, LockIInv, LockStep(w)
    PROVE  LockIInv'
  <1> USE DEF At, Goto, Finish, FailsWith, Flush, CriticalPc, Pc, LockPc, CheckPc
  <1>1. CASE LookupLock(w)
    <2>1. Moves(w) BY <1>1 DEF LookupLock, Moves
    <2>2. pc'[w] \notin CriticalPc
      BY <1>1 DEF LookupLock, LockIInv, ControlTypeOK, Procs
    <2> QED BY <2>1, <2>2, OutsideKeepsExclusion DEF Procs
  <1>2. CASE AwaitLock(w)
    BY <1>2, AcquiringKeepsExclusion DEF AwaitLock
  <1>3. CASE ReadLock(w)
    <2>1. MovesInside(w) BY <1>3 DEF ReadLock, MovesInside, Moves
    <2> QED BY <2>1, InsideKeepsExclusion
  <1>4. CASE CreateLock(w)
    <2>1. Moves(w) BY <1>4 DEF CreateLock, Moves
    <2>2. pc'[w] \notin CriticalPc
      BY <1>4 DEF CreateLock, LockIInv, ControlTypeOK, Procs
    <2> QED BY <2>1, <2>2, OutsideKeepsExclusion DEF Procs
  <1>5. CASE LockCreated(w)
    BY <1>5, AcquiringKeepsExclusion DEF LockCreated
  <1>6. CASE InitializeLock(w)
    <2>1. MovesInside(w) BY <1>6 DEF InitializeLock, MovesInside, Moves
    <2> QED BY <2>1, InsideKeepsExclusion
  <1>7. CASE FlushLock(w)
    <2>1. MovesInside(w) BY <1>7 DEF FlushLock, MovesInside, Moves
    <2> QED BY <2>1, InsideKeepsExclusion
  <1> QED BY <1>1, <1>2, <1>3, <1>4, <1>5, <1>6, <1>7 DEF LockStep

(* A checker never enters the writers' critical section, and it joins the   *)
(* holders of the lock only while no writer is one of them.                 *)
LEMMA CheckKeepsExclusion ==
    ASSUME NEW c \in Checkers, LockIInv, Check(c)
    PROVE  LockIInv'
  <1> USE ProcsAssumption DEF At, Goto, Finish, CriticalPc, Pc, LockPc, CheckPc, LockIInv
  <1>1. c \notin Writers /\ c \in Procs
    BY DEF Procs
  <1>2. PICK l \in Pc : pc' = [pc EXCEPT ![c] = l]
    BY DEF Check, CheckLookup, CheckAwait, CheckRead, CheckScan, CheckVerify
  <1>3. held' = held \/ (held \cap Writers = {} /\ held' = held \cup {c})
    BY DEF Check, CheckLookup, CheckAwait, CheckRead, CheckScan, CheckVerify, Shared
  <1>4. ControlTypeOK'
    BY <1>1, <1>2, <1>3 DEF ControlTypeOK
  <1>5. LockExclusive'
    BY <1>1, <1>2, <1>3 DEF ControlTypeOK, LockExclusive
  <1> QED BY <1>4, <1>5

(* Returning, dying and losing power make processes idle and drop their     *)
(* locks together.                                                          *)
LEMMA IdleKeepsExclusion ==
    ASSUME NEW P \in SUBSET Procs, LockIInv, Idle(P)
    PROVE  LockIInv'
  <1>1. ControlTypeOK'
    BY DEF Idle, LockIInv, ControlTypeOK, Pc
  <1>2. LockExclusive'
    BY DEF Idle, LockIInv, ControlTypeOK, LockExclusive, CriticalPc, Procs
  <1> QED BY <1>1, <1>2 DEF LockIInv

LEMMA ExclusionIsInductive ==
    ASSUME LockIInv, [Next]_vars
    PROVE  LockIInv'
  <1>1. ASSUME NEW p \in Procs, Start(p)
        PROVE  LockIInv'
    <2>1. Moves(p)
      BY <1>1 DEF Start, Moves, Pc, LockPc, CheckPc
    <2>2. pc'[p] \notin CriticalPc
      BY <1>1 DEF Start, LockIInv, ControlTypeOK, CriticalPc
    <2> QED BY <2>1, <2>2, OutsideKeepsExclusion
  <1>2. ASSUME NEW p \in Procs, Return(p) \/ Crash(p)
        PROVE  LockIInv'
    BY <1>2, IdleKeepsExclusion DEF Return, Crash
  <1>3. ASSUME NEW w \in Writers, Write(w)
        PROVE  LockIInv'
    BY <1>3, LockStepKeepsExclusion, RecoveryStaysInside, StagingStaysInside,
       CommitStaysInside, RollbackStaysInside, InsideKeepsExclusion DEF Write
  <1>4. ASSUME NEW c \in Checkers, Check(c)
        PROVE  LockIInv'
    BY <1>4, CheckKeepsExclusion
  <1>5. CASE PowerLoss
    BY <1>5, IdleKeepsExclusion DEF PowerLoss
  <1>6. CASE Quiescent \/ UNCHANGED vars
    BY <1>6 DEF Quiescent, vars, locals, LockIInv, ControlTypeOK, LockExclusive
  <1> QED BY <1>1, <1>2, <1>3, <1>4, <1>5, <1>6 DEF Next

(* The lock record and the OS advisory lock of transaction.rs serialize     *)
(* writers: whatever fails or dies, a writer past its lock is alone.        *)
THEOREM MutualExclusion == Spec => []LockExclusive
  <1>1. Init => LockIInv
    BY DEF Init, LockIInv, ControlTypeOK, LockExclusive, Pc, CriticalPc, Procs
  <1>2. LockIInv /\ [Next]_vars => LockIInv'
    BY ExclusionIsInductive
  <1>3. LockIInv => LockExclusive
    BY DEF LockIInv
  <1> QED BY <1>1, <1>2, <1>3, PTL DEF Spec

-----------------------------------------------------------------------------
(* Type correctness for every instance.  TypeOK is not inductive alone:     *)
(* recovery reads its participants under the names its journal gives, so    *)
(* the invariant adds that a recovering writer has a complete journal in    *)
(* front of it, and that takes mutual exclusion.                            *)

DiskOK == fs \in Entries /\ durable \subseteq Entries
LocalsOK ==
    /\ pc \in [Procs -> Pc] /\ job \in [Procs -> Job] /\ outcome \in [Procs -> Outcome]
HistoryOK ==
    /\ base \in [Procs -> Tree] /\ entry \in [Procs -> Tree]
    /\ prior \in [TxId -> Tree] /\ acked \in BOOLEAN

-----------------------------------------------------------------------------
(* Trees, control files and directory entries keep their types.             *)

LEMMA TreeTypes ==
    /\ Absent \in Tree /\ Empty \in Tree /\ Unreadable \in Tree
    /\ \A c \in Content, form \in Form : Managed(c, form) \in Tree
    /\ \A c \in Content : Complete(c) \in Tree
  BY DEF Tree, Absent, Empty, Unreadable, Managed, Complete, Form

LEMMA RemainsAreTrees ==
    ASSUME NEW t \in Tree
    PROVE  Remains(t) \subseteq Tree
  <1>1. CASE t \in {Absent, Empty, Unreadable}
    BY <1>1, TreeTypes DEF Remains, Absent, Empty, Unreadable
  <1>2. CASE t \in [kind : {"managed"}, fp : Content, form : Form]
    <2>1. Managed(t.fp, "damaged") \in Tree
      BY <1>2, TreeTypes DEF Form
    <2> QED BY <1>2, <2>1, TreeTypes DEF Remains, Absent, Empty, Unreadable
  <1> QED BY <1>1, <1>2 DEF Tree

LEMMA JournalTypes ==
    /\ NoFile \in JournalFile /\ Torn \in JournalFile
    /\ NoFile.kind # "record" /\ Torn.kind # "record"
    /\ \A n \in TxId, old \in OldRoot, c \in Content, phase \in Phase :
          /\ Record(n, old, c, phase) \in JournalFile
          /\ Record(n, old, c, phase).kind = "record"
    /\ \A j \in JournalFile : j.kind = "record" =>
          j \in [kind : {"record"}, tx : TxId, old : OldRoot, new : Content, phase : Phase]
  BY DEF JournalFile, NoFile, Torn, Record

LEMMA OldRootTypes ==
    ASSUME NEW t \in Tree, t # Unreadable
    PROVE  JournalOldRoot(t) \in OldRoot
  BY DEF Tree, Unreadable, JournalOldRoot, OldRoot, Absent, Empty

LEMMA EntryTypes ==
    ASSUME NEW f \in Entries
    PROVE  /\ f.lock \in Lock /\ f.journal \in JournalFile /\ f.out \in Tree
           /\ \A n \in TxId : /\ f.temporary[n] \in JournalFile
                              /\ f.staging[n] \in Tree /\ f.backup[n] \in Tree
  BY DEF Entries

LEMMA EntryUpdates ==
    ASSUME NEW f \in Entries
    PROVE  /\ \A l \in Lock : [f EXCEPT !.lock = l] \in Entries
           /\ \A j \in JournalFile : [f EXCEPT !.journal = j] \in Entries
           /\ \A t \in Tree : [f EXCEPT !.out = t] \in Entries
           /\ \A n \in TxId, j \in JournalFile :
                /\ [f EXCEPT !.temporary[n] = j] \in Entries
                /\ \A k \in JournalFile :
                     [f EXCEPT !.journal = k, !.temporary[n] = j] \in Entries
           /\ \A n \in TxId, t \in Tree :
                /\ [f EXCEPT !.staging[n] = t] \in Entries
                /\ [f EXCEPT !.backup[n] = t] \in Entries
                /\ \A u \in Tree :
                     /\ [f EXCEPT !.out = u, !.staging[n] = t] \in Entries
                     /\ [f EXCEPT !.out = u, !.backup[n] = t] \in Entries
  BY DEF Entries

-----------------------------------------------------------------------------
(* The building blocks of a step keep their types.                          *)

LEMMA DiskSteps ==
    ASSUME DiskOK
    PROVE  /\ \A f \in Entries : Mutate(f) => DiskOK'
           /\ SyncParent => DiskOK'
           /\ UNCHANGED disk => DiskOK'
  BY DEF DiskOK, Mutate, SyncParent, disk

LEMMA FaultSteps ==
    ASSUME faults \in 0..MaxFaults, NoFault \/ Fault
    PROVE  faults' \in 0..MaxFaults
  BY BoundsAssumption DEF NoFault, Fault

LEMMA JobTypes ==
    ASSUME NEW j \in Job
    PROVE  /\ j.want \in Content /\ j.tx \in TxId /\ j.old \in OldRoot /\ j.effect \in Effect
           /\ j.root \in Progress /\ j.ctl \in Controls
           /\ \A x \in OldRoot : [j EXCEPT !.old = x] \in Job
           /\ \A x \in Effect : [j EXCEPT !.effect = x] \in Job
           /\ \A x \in Controls : [j EXCEPT !.ctl = x] \in Job
           /\ \A x \in Progress, y \in Controls : [j EXCEPT !.root = x, !.ctl = y] \in Job
  BY DEF Job

LEMMA LocalSteps ==
    ASSUME LocalsOK, NEW p \in Procs
    PROVE  /\ \A l \in Pc : Goto(p, l) => LocalsOK'
           /\ \A status \in {"written", "unchanged", "compared", "error"},
                 state \in OutputState, why \in Why :
                 Finish(p, status, state, why) => LocalsOK'
           /\ \A root \in Progress, controls \in Controls, l \in Pc :
                 Advance(p, root, controls, l) => LocalsOK'
           /\ \A j \in Job : RollbackAfterCommit(p, j) => LocalsOK'
  <1> USE DEF LocalsOK
  <1>1. \A l \in Pc : Goto(p, l) => LocalsOK'
    BY DEF Goto
  <1>2. ASSUME NEW status \in {"written", "unchanged", "compared", "error"},
               NEW state \in OutputState, NEW why \in Why, Finish(p, status, state, why)
        PROVE  LocalsOK'
    <2>1. [status |-> status, state |-> state, why |-> why] \in Outcome
      BY DEF Outcome
    <2> QED BY <1>2, <2>1 DEF Finish, Pc
  <1>3. ASSUME NEW root \in Progress, NEW controls \in Controls, NEW l \in Pc,
               Advance(p, root, controls, l)
        PROVE  LocalsOK'
    <2>1. job' = [job EXCEPT ![p] = [job[p] EXCEPT !.root = root, !.ctl = controls]]
      BY <1>3 DEF Advance
    <2>2. [job[p] EXCEPT !.root = root, !.ctl = controls] \in Job
      BY JobTypes
    <2> QED BY <1>3, <2>1, <2>2 DEF Advance
  <1>4. ASSUME NEW j \in Job, RollbackAfterCommit(p, j)
        PROVE  LocalsOK'
    <2>1. [status |-> "error", state |-> "updated", why |-> "io"] \in Outcome
      BY DEF Outcome, OutputState, Why
    <2> QED BY <1>4, <2>1 DEF RollbackAfterCommit, Pc, CriticalPc
  <1> QED BY <1>1, <1>2, <1>3, <1>4

-----------------------------------------------------------------------------
(* A recovering writer finds the complete journal that names its            *)
(* participants, until it removes it (read_journal, remove_journal_controls).*)
RecoveringPc == {"rc_rename", "rc_rename_flush", "rc_staging", "rc_staging_flush",
                 "rc_backup", "rc_backup_flush", "rc_temporary", "rc_journal"}
RecoveryHasJournal ==
    \A w \in Writers : pc[w] \in RecoveringPc => fs.journal.kind = "record"

TypeIInv == TypeOK /\ RecoveryHasJournal /\ LockIInv

\* What a step of a writer leaves typed.
StepTyped ==
    /\ DiskOK' /\ LocalsOK' /\ HistoryOK'
    /\ faults' \in 0..MaxFaults

\* The state a step of writer w starts from.
LEMMA WriterState ==
    ASSUME TypeIInv, NEW w \in Writers
    PROVE  /\ w \in Procs /\ DiskOK /\ LocalsOK /\ HistoryOK
           /\ faults \in 0..MaxFaults /\ fs \in Entries
           /\ job[w] \in Job /\ job[w].tx \in TxId /\ job[w].old \in OldRoot
           /\ job[w].want \in Content
  BY JobTypes DEF TypeIInv, TypeOK, DiskOK, LocalsOK, HistoryOK, Procs

LEMMA LockStepTyped ==
    ASSUME TypeIInv, NEW w \in Writers, LockStep(w)
    PROVE  StepTyped
  <1> USE WriterState DEF StepTyped
  <1> USE DEF Pc, LockPc, CriticalPc, OutputState, Why
  <1>1. SettledRoot(fs) \in Tree /\ fs.out \in Tree
    <2>1. fs.journal.kind = "record" => fs.journal.tx \in TxId
      BY EntryTypes, JournalTypes
    <2> QED BY <2>1, EntryTypes DEF SettledRoot
  <1>2. RememberRoot(w) => HistoryOK'
    BY <1>1 DEF RememberRoot, HistoryOK
  <1>3. UNCHANGED history => HistoryOK'
    BY DEF HistoryOK, history
  <1>4. CASE LookupLock(w)
    BY <1>4, <1>3, DiskSteps, FaultSteps, LocalSteps DEF LookupLock
  <1>5. CASE AwaitLock(w)
    BY <1>5, <1>2, DiskSteps, FaultSteps, LocalSteps DEF AwaitLock
  <1>6. CASE ReadLock(w)
    BY <1>6, <1>3, DiskSteps, FaultSteps, LocalSteps DEF ReadLock
  <1>7. CASE CreateLock(w)
    <2>1. [fs EXCEPT !.lock = "torn"] \in Entries
      BY EntryUpdates DEF Lock
    <2> QED BY <1>7, <1>3, <2>1, DiskSteps, FaultSteps, LocalSteps DEF CreateLock, FailsWith
  <1>8. CASE LockCreated(w)
    BY <1>8, <1>2, DiskSteps, FaultSteps, LocalSteps DEF LockCreated
  <1>9. CASE InitializeLock(w)
    <2>1. \A f \in Entries : [f EXCEPT !.lock = "valid"] \in Entries
      BY EntryUpdates DEF Lock
    <2>2. \A f \in Entries : [f EXCEPT !.lock = IF @ = "torn" THEN "valid" ELSE @] \in Entries
      BY DEF Entries, Lock
    <2>3. DiskOK'
      BY <1>9, <2>1, <2>2, DiskSteps DEF InitializeLock, FailsWith, DiskOK
    <2> QED BY <1>9, <1>3, <2>3, FaultSteps, LocalSteps DEF InitializeLock, FailsWith
  <1>10. CASE FlushLock(w)
    BY <1>10, <1>3, DiskSteps, FaultSteps, LocalSteps DEF FlushLock, Flush, FailsWith
  <1> QED BY <1>4, <1>5, <1>6, <1>7, <1>8, <1>9, <1>10 DEF LockStep

LEMMA EffectStateTyped ==
    ASSUME TypeIInv, NEW w \in Writers
    PROVE  EffectState(w) \in OutputState
  BY WriterState, JobTypes DEF EffectState, Effect, OutputState

\* Removing a directory entry by entry keeps the disk typed.
LEMMA UnlinkTyped ==
    ASSUME TypeIInv, NEW w \in Writers, NEW n \in TxId, NEW to \in Pc
    PROVE  /\ UnlinkStaging(w, n, to) => DiskOK' /\ LocalsOK' /\ NoFault
           /\ UnlinkBackup(w, n, to) => DiskOK' /\ LocalsOK' /\ NoFault
  <1> USE WriterState
  <1>0. pc[w] \in Pc
    BY DEF LocalsOK
  <1>1. \A t \in Remains(fs.staging[n]) \cup Remains(fs.backup[n]) \cup {Absent} :
           [fs EXCEPT !.staging[n] = t] \in Entries /\ [fs EXCEPT !.backup[n] = t] \in Entries
    BY EntryTypes, EntryUpdates, RemainsAreTrees, TreeTypes
  <1>2. UnlinkStaging(w, n, to) => DiskOK' /\ LocalsOK' /\ NoFault
    BY <1>0, <1>1, DiskSteps, LocalSteps DEF UnlinkStaging, Unlink
  <1>3. UnlinkBackup(w, n, to) => DiskOK' /\ LocalsOK' /\ NoFault
    BY <1>0, <1>1, DiskSteps, LocalSteps DEF UnlinkBackup, Unlink
  <1> QED BY <1>2, <1>3

LEMMA RecoveryStepTyped ==
    ASSUME TypeIInv, NEW w \in Writers, RecoveryStep(w)
    PROVE  StepTyped
  <1> USE WriterState, EffectStateTyped DEF StepTyped
  <1> USE DEF Pc, LockPc, CriticalPc, OutputState, Why, Flush, FailsWith
  <1>0. UNCHANGED history => HistoryOK'
    BY DEF HistoryOK, history
  <1>1. CASE RecoverPriorTransaction(w)
    <2>1. /\ RecoveryCase(fs) # "ambiguous" => RecoverEntry[RecoveryCase(fs)] \in Pc
          /\ RecoveryCase(fs) # "ambiguous" => RecoverEffect[RecoveryCase(fs)] \in Effect
      BY DEF RecoverEntry, RecoverEffect, RecoveryCase, Effect
    <2>2. \A x \in Effect : [job EXCEPT ![w].effect = x] \in [Procs -> Job]
      <3> TAKE x \in Effect
      <3>1. [job EXCEPT ![w].effect = x] = [job EXCEPT ![w] = [job[w] EXCEPT !.effect = x]]
        OBVIOUS
      <3> QED BY <3>1, JobTypes DEF LocalsOK
    <2>3. LocalsOK'
      <3>1. CASE fs.journal.kind = "record" /\ RecoveryCase(fs) # "ambiguous"
        BY <1>1, <2>1, <2>2, <3>1, JournalTypes DEF RecoverPriorTransaction, LocalsOK
      <3>2. CASE ~(fs.journal.kind = "record" /\ RecoveryCase(fs) # "ambiguous")
        BY <1>1, <3>2, LocalSteps DEF RecoverPriorTransaction
      <3> QED BY <3>1, <3>2
    <2> QED BY <1>1, <1>0, <2>3, DiskSteps, FaultSteps DEF RecoverPriorTransaction
  <1>2. ASSUME pc[w] \in RecoveringPc
        PROVE  fs.journal.tx \in TxId
    BY <1>2, EntryTypes, JournalTypes DEF TypeIInv, RecoveryHasJournal
  <1>3. CASE RecoveryRename(w)
    <2>1. [fs EXCEPT !.out = fs.backup[fs.journal.tx], !.backup[fs.journal.tx] = Absent] \in Entries
      BY <1>3, <1>2, EntryTypes, EntryUpdates, TreeTypes DEF RecoveryRename, At, RecoveringPc
    <2> QED BY <1>3, <1>0, <2>1, DiskSteps, FaultSteps, LocalSteps DEF RecoveryRename
  <1>4. CASE RecoveryRenameFlush(w)
    BY <1>4, <1>0, DiskSteps, FaultSteps, LocalSteps DEF RecoveryRenameFlush
  <1>5. CASE RecoveryStaging(w)
    <2>1. fs.journal.tx \in TxId
      BY <1>5, <1>2 DEF RecoveryStaging, At, RecoveringPc
    <2>2. UnlinkStaging(w, fs.journal.tx, "rc_staging_flush") => DiskOK' /\ LocalsOK' /\ NoFault
      BY <2>1, UnlinkTyped
    <2> QED BY <1>5, <1>0, <2>2, DiskSteps, FaultSteps, LocalSteps DEF RecoveryStaging, Skip
  <1>6. CASE RecoveryStagingFlush(w)
    BY <1>6, <1>0, DiskSteps, FaultSteps, LocalSteps DEF RecoveryStagingFlush
  <1>7. CASE RecoveryBackup(w)
    <2>1. fs.journal.tx \in TxId
      BY <1>7, <1>2 DEF RecoveryBackup, At, RecoveringPc
    <2>2. UnlinkBackup(w, fs.journal.tx, "rc_backup_flush") => DiskOK' /\ LocalsOK' /\ NoFault
      BY <2>1, UnlinkTyped
    <2> QED BY <1>7, <1>0, <2>2, DiskSteps, FaultSteps, LocalSteps DEF RecoveryBackup, Skip
  <1>8. CASE RecoveryBackupFlush(w)
    BY <1>8, <1>0, DiskSteps, FaultSteps, LocalSteps DEF RecoveryBackupFlush
  <1>9. CASE RecoveryTemporary(w)
    <2>1. [fs EXCEPT !.temporary[fs.journal.tx] = NoFile] \in Entries
      BY <1>9, <1>2, EntryUpdates, JournalTypes DEF RecoveryTemporary, At, RecoveringPc
    <2> QED BY <1>9, <1>0, <2>1, DiskSteps, FaultSteps, LocalSteps DEF RecoveryTemporary
  <1>10. CASE RecoveryJournal(w)
    <2>1. [fs EXCEPT !.journal = NoFile] \in Entries
      BY EntryUpdates, JournalTypes
    <2> QED BY <1>10, <1>0, <2>1, DiskSteps, FaultSteps, LocalSteps DEF RecoveryJournal
  <1>11. CASE RecoveryFlush(w)
    BY <1>11, <1>0, DiskSteps, FaultSteps, LocalSteps DEF RecoveryFlush
  <1> QED
    BY <1>1, <1>3, <1>4, <1>5, <1>6, <1>7, <1>8, <1>9, <1>10, <1>11 DEF RecoveryStep

LEMMA StagingStepTyped ==
    ASSUME TypeIInv, NEW w \in Writers, StagingStep(w)
    PROVE  StepTyped
  <1> USE WriterState, EffectStateTyped DEF StepTyped
  <1> USE DEF Pc, LockPc, CriticalPc, OutputState, Why, FailsWith, StagingFails
  <1>0. UNCHANGED history => HistoryOK'
    BY DEF HistoryOK, history
  <1>1. CASE InspectOutput(w)
    <2>1. CASE ReplaceOutput(w) /\ fs.out # Unreadable
      <3>1. JournalOldRoot(fs.out) \in OldRoot
        BY <2>1, EntryTypes, OldRootTypes
      <3>2. job' = [job EXCEPT ![w] = [job[w] EXCEPT !.old = JournalOldRoot(fs.out)]]
        BY <2>1 DEF ReplaceOutput
      <3>3. LocalsOK'
        <4>1. [job[w] EXCEPT !.old = JournalOldRoot(fs.out)] \in Job
          BY <3>1, JobTypes
        <4> QED BY <2>1, <3>2, <4>1 DEF ReplaceOutput, LocalsOK
      <3>4. prior' \in [TxId -> Tree]
        BY <2>1, EntryTypes DEF ReplaceOutput, HistoryOK
      <3> QED BY <1>1, <3>3, <3>4, DiskSteps, FaultSteps DEF InspectOutput, HistoryOK
    <2>2. CASE ~(ReplaceOutput(w) /\ fs.out # Unreadable)
      BY <1>1, <2>2, DiskSteps, FaultSteps, LocalSteps DEF InspectOutput, HistoryOK
    <2> QED BY <2>1, <2>2
  <1>2. CASE MakeStaging(w)
    <2>1. [fs EXCEPT !.staging[job[w].tx] = Empty] \in Entries
      BY EntryUpdates, TreeTypes
    <2> QED BY <1>2, <1>0, <2>1, DiskSteps, FaultSteps, LocalSteps DEF MakeStaging
  <1>3. CASE FillStaging(w)
    <2>1. /\ [fs EXCEPT !.staging[job[w].tx] = Unreadable] \in Entries
          /\ [fs EXCEPT !.staging[job[w].tx] = Complete(job[w].want)] \in Entries
      BY EntryUpdates, TreeTypes
    <2> QED BY <1>3, <1>0, <2>1, DiskSteps, FaultSteps, LocalSteps DEF FillStaging
  <1>4. CASE FlushStaging(w)
    BY <1>4, <1>0, DiskSteps, FaultSteps, LocalSteps DEF FlushStaging
  <1>5. CASE CleanupFailedStaging(w)
    <2>1. UnlinkStaging(w, job[w].tx, "unstage_flush") => DiskOK' /\ LocalsOK' /\ NoFault
      BY UnlinkTyped
    <2> QED BY <1>5, <1>0, <2>1, DiskSteps, FaultSteps, LocalSteps DEF CleanupFailedStaging
  <1>6. CASE CleanupFailedStagingFlush(w)
    BY <1>6, <1>0, DiskSteps, FaultSteps, LocalSteps DEF CleanupFailedStagingFlush
  <1> QED BY <1>1, <1>2, <1>3, <1>4, <1>5, <1>6 DEF StagingStep

\* A commit step that fails hands a typed job to the rollback.
LEMMA CommitFailureTyped ==
    ASSUME TypeIInv, NEW w \in Writers
    PROVE  /\ CommitFails(w) => DiskOK' /\ LocalsOK' /\ Fault
           /\ \A x \in Controls :
                /\ CommitFailsOwning(w, x) => DiskOK' /\ LocalsOK' /\ Fault
                /\ RollbackAfterCommit(w, [job[w] EXCEPT !.ctl = x]) => LocalsOK'
  BY WriterState, JobTypes, DiskSteps, LocalSteps DEF CommitFails, CommitFailsOwning

LEMMA OwnRecordTyped ==
    ASSUME TypeIInv, NEW w \in Writers, NEW phase \in Phase
    PROVE  OwnRecord(w, phase) \in JournalFile /\ OwnRecord(w, phase).kind = "record"
  BY WriterState, JournalTypes DEF OwnRecord

\* replace_journal.
LEMMA ReplaceJournalTyped ==
    ASSUME TypeIInv, NEW w \in Writers, NEW phase \in Phase, NEW from \in Pc, NEW to \in Pc
    PROVE  /\ JournalTemporary(w, phase, from, to) => StepTyped
           /\ JournalReplace(w, from, to) => StepTyped
  <1> USE WriterState, CommitFailureTyped DEF StepTyped, Controls
  <1>0. UNCHANGED history => HistoryOK'
    BY DEF HistoryOK, history
  <1>1. [fs EXCEPT !.temporary[job[w].tx] = OwnRecord(w, phase)] \in Entries
    BY EntryUpdates, OwnRecordTyped
  <1>2. JournalTemporary(w, phase, from, to) => StepTyped
    BY <1>0, <1>1, DiskSteps, FaultSteps, LocalSteps DEF JournalTemporary
  <1>3. [fs EXCEPT !.journal = fs.temporary[job[w].tx], !.temporary[job[w].tx] = NoFile] \in Entries
    BY EntryTypes, EntryUpdates, JournalTypes
  <1>4. JournalReplace(w, from, to) => StepTyped
    BY <1>0, <1>3, DiskSteps, FaultSteps, LocalSteps DEF JournalReplace
  <1> QED BY <1>2, <1>4

LEMMA CommitStepTyped ==
    ASSUME TypeIInv, NEW w \in Writers, CommitStep(w)
    PROVE  StepTyped
  <1> USE WriterState, CommitFailureTyped DEF StepTyped
  <1> USE DEF Pc, LockPc, CriticalPc, Progress, Controls, OutputState, Why, CommitFlush
  <1>0. UNCHANGED history => HistoryOK'
    BY DEF HistoryOK, history
  <1>1. CASE JournalCreate(w)
    <2>1. [fs EXCEPT !.journal = Torn] \in Entries
      BY EntryUpdates, JournalTypes
    <2> QED BY <1>1, <1>0, <2>1, DiskSteps, FaultSteps, LocalSteps DEF JournalCreate
  <1>2. CASE JournalWrite(w)
    <2>1. OwnRecord(w, "staged") \in JournalFile
      BY OwnRecordTyped DEF Phase
    <2>2. \A f \in Entries :
             [f EXCEPT !.journal = IF @ = Torn THEN OwnRecord(w, "staged") ELSE @] \in Entries
      BY <2>1 DEF Entries
    <2>3. DiskOK'
      BY <1>2, <2>2, DiskSteps DEF JournalWrite, DiskOK
    <2>4. HistoryOK'
      BY <1>2 DEF JournalWrite, HistoryOK
    <2> QED BY <1>2, <2>3, <2>4, FaultSteps, LocalSteps DEF JournalWrite
  <1>3. CASE JournalFlush(w)
    BY <1>3, <1>0, DiskSteps, FaultSteps, LocalSteps DEF JournalFlush, Advance
  <1>4. CASE MoveOldRoot(w)
    <2>1. [fs EXCEPT !.out = Absent, !.backup[job[w].tx] = fs.out] \in Entries
      BY EntryTypes, EntryUpdates, TreeTypes
    <2> QED BY <1>4, <1>0, <2>1, DiskSteps, FaultSteps, LocalSteps DEF MoveOldRoot, Advance
  <1>5. CASE MoveOldRootFlush(w)
    BY <1>5, <1>0, DiskSteps, FaultSteps, LocalSteps DEF MoveOldRootFlush
  <1>6. CASE OldMovedTemporary(w)
    BY <1>6, ReplaceJournalTyped DEF OldMovedTemporary, Phase
  <1>7. CASE OldMovedReplace(w)
    BY <1>7, ReplaceJournalTyped DEF OldMovedReplace, Phase
  <1>8. CASE OldMovedFlush(w)
    BY <1>8, <1>0, DiskSteps, FaultSteps, LocalSteps DEF OldMovedFlush
  <1>9. CASE InstallNewRoot(w)
    <2>1. [fs EXCEPT !.out = fs.staging[job[w].tx], !.staging[job[w].tx] = Absent] \in Entries
      BY EntryTypes, EntryUpdates, TreeTypes
    <2> QED BY <1>9, <1>0, <2>1, DiskSteps, FaultSteps, LocalSteps DEF InstallNewRoot, Advance
  <1>10. CASE InstallNewRootFlush(w)
    BY <1>10, <1>0, DiskSteps, FaultSteps, LocalSteps DEF InstallNewRootFlush
  <1>11. CASE NewInstalledTemporary(w)
    BY <1>11, ReplaceJournalTyped DEF NewInstalledTemporary, Phase
  <1>12. CASE NewInstalledReplace(w)
    BY <1>12, ReplaceJournalTyped DEF NewInstalledReplace, Phase
  <1>13. CASE NewInstalledFlush(w)
    BY <1>13, <1>0, DiskSteps, FaultSteps, LocalSteps DEF NewInstalledFlush, Advance
  <1>14. CASE RemoveBackup(w)
    <2>1. \A t \in Remains(fs.backup[job[w].tx]) : [fs EXCEPT !.backup[job[w].tx] = t] \in Entries
      BY EntryTypes, EntryUpdates, RemainsAreTrees
    <2> QED BY <1>14, <1>0, <2>1, DiskSteps, FaultSteps, LocalSteps DEF RemoveBackup
  <1>15. CASE FinishRemoveBackup(w)
    <2>1. [fs EXCEPT !.backup[job[w].tx] = Absent] \in Entries
      BY EntryUpdates, TreeTypes
    <2> QED BY <1>15, <1>0, <2>1, DiskSteps, FaultSteps, LocalSteps DEF FinishRemoveBackup, Advance
  <1>16. CASE RemoveBackupFlush(w)
    BY <1>16, <1>0, DiskSteps, FaultSteps, LocalSteps DEF RemoveBackupFlush
  <1>17. CASE RemoveJournal(w)
    <2>1. [fs EXCEPT !.journal = NoFile] \in Entries
      BY EntryUpdates, JournalTypes
    <2> QED BY <1>17, <1>0, <2>1, DiskSteps, FaultSteps, LocalSteps DEF RemoveJournal, Advance
  <1>18. CASE RemoveJournalFlush(w)
    <2>1. HistoryOK'
      BY <1>18 DEF RemoveJournalFlush, HistoryOK
    <2> QED BY <1>18, <2>1, DiskSteps, FaultSteps, LocalSteps DEF RemoveJournalFlush
  <1> QED
    BY <1>1, <1>2, <1>3, <1>4, <1>5, <1>6, <1>7, <1>8, <1>9, <1>10, <1>11, <1>12,
       <1>13, <1>14, <1>15, <1>16, <1>17, <1>18 DEF CommitStep

LEMMA RollbackStepTyped ==
    ASSUME TypeIInv, NEW w \in Writers, RollbackStep(w)
    PROVE  StepTyped
  <1> USE WriterState DEF StepTyped
  <1> USE DEF Pc, LockPc, CriticalPc, OutputState, Why, Flush, FailsWith, Skip
  <1>0. UNCHANGED history => HistoryOK'
    BY DEF HistoryOK, history
  <1>1. RollbackState(w) \in OutputState
    BY DEF RollbackState
  <1>2. CASE RollbackUninstall(w)
    <2>1. [fs EXCEPT !.out = Absent, !.staging[job[w].tx] = fs.out] \in Entries
      BY EntryTypes, EntryUpdates, TreeTypes
    <2> QED BY <1>2, <1>0, <2>1, DiskSteps, FaultSteps, LocalSteps DEF RollbackUninstall
  <1>3. CASE RollbackUninstallFlush(w)
    BY <1>3, <1>0, DiskSteps, FaultSteps, LocalSteps DEF RollbackUninstallFlush
  <1>4. CASE RollbackRestore(w)
    <2>1. [fs EXCEPT !.out = fs.backup[job[w].tx], !.backup[job[w].tx] = Absent] \in Entries
      BY EntryTypes, EntryUpdates, TreeTypes
    <2> QED BY <1>4, <1>0, <2>1, DiskSteps, FaultSteps, LocalSteps DEF RollbackRestore
  <1>5. CASE RollbackRestoreFlush(w)
    BY <1>5, <1>0, DiskSteps, FaultSteps, LocalSteps DEF RollbackRestoreFlush
  <1>6. CASE RollbackStaging(w)
    <2>1. UnlinkStaging(w, job[w].tx, "rb_temporary") => DiskOK' /\ LocalsOK' /\ NoFault
      BY UnlinkTyped
    <2> QED BY <1>6, <1>0, <1>1, <2>1, DiskSteps, FaultSteps, LocalSteps DEF RollbackStaging
  <1>7. CASE RollbackTemporary(w)
    <2>1. [fs EXCEPT !.temporary[job[w].tx] = NoFile] \in Entries
      BY EntryUpdates, JournalTypes
    <2> QED BY <1>7, <1>0, <1>1, <2>1, DiskSteps, FaultSteps, LocalSteps DEF RollbackTemporary
  <1>8. CASE RollbackJournal(w)
    <2>1. [fs EXCEPT !.journal = NoFile] \in Entries
      BY EntryUpdates, JournalTypes
    <2> QED BY <1>8, <1>0, <1>1, <2>1, DiskSteps, FaultSteps, LocalSteps DEF RollbackJournal
  <1>9. CASE RollbackFlush(w)
    BY <1>9, <1>0, <1>1, DiskSteps, FaultSteps, LocalSteps DEF RollbackFlush
  <1> QED
    BY <1>2, <1>3, <1>4, <1>5, <1>6, <1>7, <1>8, <1>9 DEF RollbackStep

-----------------------------------------------------------------------------
(* The journal of a recovering writer: only that writer removes it.         *)

\* Where a writer's step leaves it, when that is among the recovering steps.
LEMMA RecoveryKeepsJournal ==
    ASSUME TypeIInv, NEW w \in Writers, RecoveryStep(w), pc'[w] \in RecoveringPc
    PROVE  fs'.journal.kind = "record"
  <1> USE WriterState
      DEF RecoveringPc, At, Goto, Finish, FailsWith, Flush, Skip, Mutate, SyncParent, disk, LocalsOK
  <1>0. pc \in [Procs -> Pc] /\ (pc[w] \in RecoveringPc => fs.journal.kind = "record")
    BY DEF TypeIInv, RecoveryHasJournal
  <1>00. fs \in Entries /\ DOMAIN fs = {"lock", "journal", "temporary", "out", "staging", "backup"}
    BY DEF Entries
  <1>1. CASE RecoverPriorTransaction(w)    BY <1>0, <1>1, JournalTypes DEF RecoverPriorTransaction
  <1>2. CASE RecoveryRename(w)             BY <1>0, <1>00, <1>2 DEF RecoveryRename
  <1>3. CASE RecoveryRenameFlush(w)        BY <1>0, <1>3 DEF RecoveryRenameFlush
  <1>4. CASE RecoveryStaging(w)
    BY <1>0, <1>00, <1>4 DEF RecoveryStaging, UnlinkStaging, Unlink
  <1>5. CASE RecoveryStagingFlush(w)       BY <1>0, <1>5 DEF RecoveryStagingFlush
  <1>6. CASE RecoveryBackup(w)
    BY <1>0, <1>00, <1>6 DEF RecoveryBackup, UnlinkBackup, Unlink
  <1>7. CASE RecoveryBackupFlush(w)        BY <1>0, <1>7 DEF RecoveryBackupFlush
  <1>8. CASE RecoveryTemporary(w)          BY <1>0, <1>00, <1>8 DEF RecoveryTemporary
  <1>9. CASE RecoveryJournal(w)            BY <1>0, <1>9 DEF RecoveryJournal
  <1>10. CASE RecoveryFlush(w)             BY <1>0, <1>10 DEF RecoveryFlush
  <1> QED
    BY <1>1, <1>2, <1>3, <1>4, <1>5, <1>6, <1>7, <1>8, <1>9, <1>10 DEF RecoveryStep

LEMMA OthersDoNotRecover ==
    ASSUME TypeIInv, NEW w \in Writers,
           LockStep(w) \/ StagingStep(w) \/ CommitStep(w) \/ RollbackStep(w)
    PROVE  pc'[w] \notin RecoveringPc
  <1> USE WriterState DEF RecoveringPc, At, Goto, Finish, FailsWith, Flush, Skip, LocalsOK
  <1>1. CASE LockStep(w)
    BY <1>1 DEF LockStep, LookupLock, AwaitLock, ReadLock, CreateLock, LockCreated,
                InitializeLock, FlushLock
  <1>2. CASE StagingStep(w)
    BY <1>2 DEF StagingStep, InspectOutput, ReplaceOutput, MakeStaging, FillStaging, StagingFails,
                FlushStaging, CleanupFailedStaging, UnlinkStaging, Unlink,
                CleanupFailedStagingFlush
  <1>3. CASE CommitStep(w)
    <2> USE DEF RollbackAfterCommit, CommitFails, CommitFailsOwning, CommitFlush, Advance
    <2>1. CASE JournalCreate(w) \/ JournalWrite(w) \/ JournalFlush(w)
      BY <2>1 DEF JournalCreate, JournalWrite, JournalFlush
    <2>2. CASE MoveOldRoot(w) \/ MoveOldRootFlush(w) \/ InstallNewRoot(w) \/ InstallNewRootFlush(w)
      BY <2>2 DEF MoveOldRoot, MoveOldRootFlush, InstallNewRoot, InstallNewRootFlush
    <2>3. CASE OldMovedTemporary(w) \/ OldMovedReplace(w) \/ OldMovedFlush(w)
      BY <2>3 DEF OldMovedTemporary, JournalTemporary, OldMovedReplace, JournalReplace, OldMovedFlush
    <2>4. CASE NewInstalledTemporary(w) \/ NewInstalledReplace(w) \/ NewInstalledFlush(w)
      BY <2>4 DEF NewInstalledTemporary, JournalTemporary, NewInstalledReplace, JournalReplace,
                  NewInstalledFlush
    <2>5. CASE RemoveBackup(w) \/ FinishRemoveBackup(w) \/ RemoveBackupFlush(w)
      BY <2>5 DEF RemoveBackup, FinishRemoveBackup, RemoveBackupFlush
    <2>6. CASE RemoveJournal(w) \/ RemoveJournalFlush(w)
      BY <2>6 DEF RemoveJournal, RemoveJournalFlush
    <2> QED BY <1>3, <2>1, <2>2, <2>3, <2>4, <2>5, <2>6 DEF CommitStep
  <1>4. CASE RollbackStep(w)
    BY <1>4 DEF RollbackStep, RollbackUninstall, RollbackUninstallFlush, RollbackRestore,
                RollbackRestoreFlush, RollbackStaging, UnlinkStaging, Unlink, RollbackTemporary,
                RollbackJournal, RollbackFlush
  <1> QED BY <1>1, <1>2, <1>3, <1>4

\* A writer that steps beside a recovering one leaves the journal alone.
LEMMA OutsideKeepsJournal ==
    ASSUME TypeIInv, NEW w \in Writers, NEW v \in Writers, v # w, pc[v] \in RecoveringPc, Write(w)
    PROVE  fs'.journal = fs.journal
  <1>1. held = {v}
    BY DEF TypeIInv, LockIInv, LockExclusive, RecoveringPc, CriticalPc
  <1>2. pc[w] \notin CriticalPc
    BY <1>1 DEF TypeIInv, LockIInv, LockExclusive
  <1>3. LockStep(w)
    BY <1>2, RecoveryStaysInside, StagingStaysInside, CommitStaysInside, RollbackStaysInside
    DEF Write, MovesInside
  <1>4. LookupLock(w) \/ CreateLock(w)
    BY <1>1, <1>2, <1>3 DEF LockStep, AwaitLock, LockCreated, Exclusive, ReadLock, InitializeLock,
       FlushLock, Flush, At, CriticalPc
  <1>5. DOMAIN fs = {"lock", "journal", "temporary", "out", "staging", "backup"}
    BY WriterState DEF Entries
  <1> QED BY <1>4, <1>5 DEF LookupLock, CreateLock, Mutate, FailsWith, disk

LEMMA WriteKeepsTypes ==
    ASSUME TypeIInv, NEW w \in Writers, Write(w)
    PROVE  TypeOK' /\ RecoveryHasJournal'
  <1>1. StepTyped
    BY LockStepTyped, RecoveryStepTyped, StagingStepTyped, CommitStepTyped, RollbackStepTyped
    DEF Write
  <1>2. LockIInv'
    BY LockStepKeepsExclusion, RecoveryStaysInside, StagingStaysInside,
       CommitStaysInside, RollbackStaysInside, InsideKeepsExclusion DEF Write, TypeIInv
  <1>3. TypeOK'
    BY <1>1, <1>2 DEF StepTyped, DiskOK, LocalsOK, HistoryOK, TypeIInv, TypeOK, Write,
                      LockIInv, ControlTypeOK
  <1>4. RecoveryHasJournal'
    <2> SUFFICES ASSUME NEW v \in Writers, pc'[v] \in RecoveringPc
                 PROVE  fs'.journal.kind = "record"
      BY DEF RecoveryHasJournal
    <2>1. CASE v = w
      BY <2>1, RecoveryKeepsJournal, OthersDoNotRecover DEF Write
    <2>2. CASE v # w
      <3>1. \E l : pc' = [pc EXCEPT ![w] = l]
        <4>1. CASE LockStep(w)
          BY <4>1 DEF LockStep, LookupLock, AwaitLock, ReadLock, CreateLock, LockCreated,
                      InitializeLock, FlushLock, Flush, FailsWith, Goto, Finish
        <4>2. CASE ~LockStep(w)
          BY <4>2, RecoveryStaysInside, StagingStaysInside, CommitStaysInside, RollbackStaysInside
          DEF Write, MovesInside, Moves
        <4> QED BY <4>1, <4>2
      <3>2. pc'[v] = pc[v]
        BY <2>2, <3>1, WriterState DEF LocalsOK
      <3> QED BY <2>2, <3>2, OutsideKeepsJournal DEF TypeIInv, RecoveryHasJournal
    <2> QED BY <2>1, <2>2
  <1> QED BY <1>3, <1>4

-----------------------------------------------------------------------------
(* The remaining steps.                                                     *)

LEMMA StartKeepsTypes ==
    ASSUME TypeIInv, NEW p \in Procs, Start(p)
    PROVE  TypeOK' /\ RecoveryHasJournal'
  <1>1. PICK c \in Content : job' = [job EXCEPT ![p] = NewJob(c, invocations')]
    BY DEF Start
  <1>2. invocations' \in TxId
    BY MaxInvocationsAssumption DEF Start, TypeIInv, TypeOK, TxId
  <1>3. NewJob(c, invocations') \in Job
    BY <1>2 DEF NewJob, Job, OldRoot, Effect, Progress, Controls
  <1>4. NoOutcome \in Outcome
    BY DEF NoOutcome, Outcome, OutputState, Why
  <1>5. TypeOK'
    BY <1>1, <1>2, <1>3, <1>4 DEF Start, TypeIInv, TypeOK, disk, history, Pc, LockPc, CheckPc, TxId
  <1>6. RecoveryHasJournal'
    BY DEF Start, TypeIInv, TypeOK, RecoveryHasJournal, RecoveringPc, disk
  <1> QED BY <1>5, <1>6

LEMMA CheckKeepsTypes ==
    ASSUME TypeIInv, NEW c \in Checkers, Check(c)
    PROVE  TypeOK' /\ RecoveryHasJournal'
  <1>0. c \in Procs /\ c \notin Writers
    BY ProcsAssumption DEF Procs
  <1>1. LocalsOK /\ DiskOK
    BY DEF TypeIInv, TypeOK, LocalsOK, DiskOK
  <1>2. LocalsOK'
    BY <1>0, <1>1, LocalSteps DEF Check, CheckLookup, CheckAwait, CheckRead, CheckScan, CheckVerify,
       Pc, CheckPc, OutputState, Why
  <1>3. view' \in [Procs -> Tree]
    BY <1>0, <1>1, EntryTypes DEF Check, CheckLookup, CheckAwait, CheckRead, CheckScan, CheckVerify,
       TypeIInv, TypeOK, DiskOK
  <1>4. held' \subseteq Procs
    BY CheckKeepsExclusion DEF TypeIInv, LockIInv, ControlTypeOK
  <1>5. TypeOK'
    BY <1>2, <1>3, <1>4 DEF Check, LocalsOK, TypeIInv, TypeOK, disk, history
  <1>6. \E l : pc' = [pc EXCEPT ![c] = l]
    BY DEF Check, CheckLookup, CheckAwait, CheckRead, CheckScan, CheckVerify, Goto, Finish
  <1>7. RecoveryHasJournal'
    BY <1>0, <1>1, <1>6 DEF Check, LocalsOK, TypeIInv, RecoveryHasJournal, disk, Procs
  <1> QED BY <1>5, <1>7

\* Returning and dying forget the locals; the disk keeps its journal, or no
\* writer is recovering any more.
LEMMA IdleKeepsTypes ==
    ASSUME TypeIInv, NEW P \in SUBSET Procs, Idle(P), DiskOK',
           fs' = fs \/ P = Procs,
           invocations' = invocations, faults' = faults, crashes' \in 0..MaxCrashes,
           prior' = prior, acked' = acked
    PROVE  TypeOK' /\ RecoveryHasJournal'
  <1>1. /\ \A p \in Procs : NewJob(job[p].want, job[p].tx) \in Job
        /\ NoOutcome \in Outcome
    <2>1. \A p \in Procs : job[p].want \in Content /\ job[p].tx \in TxId
      BY JobTypes DEF TypeIInv, TypeOK
    <2> QED
      BY <2>1 DEF NewJob, Job, OldRoot, Effect, Progress, Controls, NoOutcome, Outcome,
                  OutputState, Why
  <1>2. TypeOK'
    BY <1>1, TreeTypes DEF Idle, TypeIInv, TypeOK, DiskOK, Pc
  <1>3. RecoveryHasJournal'
    BY DEF Idle, TypeIInv, TypeOK, RecoveryHasJournal, RecoveringPc, Procs
  <1> QED BY <1>2, <1>3

LEMMA InitTyped == Init => TypeIInv
  <1> SUFFICES ASSUME Init PROVE TypeIInv
    OBVIOUS
  <1>1. PICK t \in InitialRoots :
           fs = [lock |-> "none", journal |-> NoFile, temporary |-> [n \in TxId |-> NoFile],
                 out |-> t, staging |-> [n \in TxId |-> Absent], backup |-> [n \in TxId |-> Absent]]
    BY DEF Init
  <1>2. fs \in Entries
    BY <1>1, RootsAssumption, TreeTypes, JournalTypes DEF Entries, Lock
  <1>3. PICK c \in Content : job = [p \in Procs |-> NewJob(c, 1)]
    BY DEF Init
  <1>4. NewJob(c, 1) \in Job
    BY MaxInvocationsAssumption DEF NewJob, Job, TxId, OldRoot, Effect, Progress, Controls
  <1>5. NoOutcome \in Outcome
    BY DEF NoOutcome, Outcome, OutputState, Why
  <1>6. TypeOK
    <2>1. Absent \in Tree
      BY TreeTypes
    <2>2. fs \in Entries /\ durable \subseteq Entries /\ held \subseteq Procs
      BY <1>2 DEF Init
    <2>3. pc \in [Procs -> Pc] /\ job \in [Procs -> Job] /\ outcome \in [Procs -> Outcome]
      BY <1>3, <1>4, <1>5 DEF Init, Pc
    <2>4. /\ invocations \in 0..MaxInvocations
          /\ faults \in 0..MaxFaults
          /\ crashes \in 0..MaxCrashes
      BY BoundsAssumption, MaxInvocationsAssumption DEF Init
    <2>5. /\ view \in [Procs -> Tree] /\ base \in [Procs -> Tree]
          /\ entry \in [Procs -> Tree] /\ prior \in [TxId -> Tree]
          /\ acked \in BOOLEAN
      BY <2>1 DEF Init
    <2> QED BY <2>2, <2>3, <2>4, <2>5 DEF TypeOK
  <1>7. RecoveryHasJournal
    BY DEF Init, RecoveryHasJournal, RecoveringPc, Procs
  <1>8. LockIInv
    BY DEF Init, LockIInv, ControlTypeOK, LockExclusive, Pc, CriticalPc, Procs
  <1> QED BY <1>6, <1>7, <1>8 DEF TypeIInv

\* The inductive invariant, for the theorems that build on it.
LEMMA TypeInvariant == Spec => []TypeIInv
  <1>1. TypeIInv /\ [Next]_vars => TypeOK' /\ RecoveryHasJournal'
    <2> SUFFICES ASSUME TypeIInv, [Next]_vars
                 PROVE  TypeOK' /\ RecoveryHasJournal'
      OBVIOUS
    <2>1. ASSUME NEW p \in Procs, Return(p) \/ Crash(p)
          PROVE  TypeOK' /\ RecoveryHasJournal'
      BY <2>1, IdleKeepsTypes, BoundsAssumption
      DEF Return, Crash, disk, DiskOK, TypeIInv, TypeOK
    <2>2. CASE PowerLoss
      BY <2>2, IdleKeepsTypes, BoundsAssumption DEF PowerLoss, DiskOK, TypeIInv, TypeOK
    <2>3. CASE Quiescent \/ UNCHANGED vars
      BY <2>3 DEF Quiescent, vars, disk, locals, history, TypeIInv, TypeOK, RecoveryHasJournal
    <2> QED BY <2>1, <2>2, <2>3, StartKeepsTypes, WriteKeepsTypes, CheckKeepsTypes DEF Next
  <1>2. LockIInv /\ [Next]_vars => LockIInv'
    BY ExclusionIsInductive
  <1>3. TypeIInv <=> TypeOK /\ RecoveryHasJournal /\ LockIInv
    BY DEF TypeIInv
  <1> QED BY InitTyped, <1>1, <1>2, <1>3, PTL DEF Spec

(* Every variable of the registration protocol keeps its type, for any      *)
(* contents, initial outputs, processes, faults and crashes: in particular  *)
(* recovery only ever acts on the participants a complete journal names,    *)
(* and only a root the journal can describe is replaced (journal_old_root). *)
THEOREM TypeCorrect == Spec => []TypeOK
  <1>1. TypeIInv => TypeOK
    BY DEF TypeIInv
  <1> QED BY <1>1, TypeInvariant, PTL
=============================================================================
