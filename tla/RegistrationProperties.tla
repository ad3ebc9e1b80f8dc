----------------------- MODULE RegistrationProperties -----------------------
(***************************************************************************)
(* What OutputRegistration guarantees, and what the design document says   *)
(* of it that the code does not keep (the last section).                   *)
(***************************************************************************)
EXTENDS OutputRegistration

(* Every variable stays in its type: the control file, tree and outcome     *)
(* values of transaction.rs, control.rs and error.rs.                       *)
TypeOK ==
    /\ fs \in Entries
    /\ durable \subseteq Entries
    /\ held \subseteq Procs
    /\ pc \in [Procs -> Pc]
    /\ job \in [Procs -> Job]
    /\ outcome \in [Procs -> Outcome]
    /\ view \in [Procs -> Tree]
    /\ invocations \in 0..MaxInvocations
    /\ faults \in 0..MaxFaults
    /\ crashes \in 0..MaxCrashes
    /\ base \in [Procs -> Tree] /\ entry \in [Procs -> Tree]
    /\ prior \in [TxId -> Tree]
    /\ acked \in BOOLEAN

(* A writer past its lock is alone: no other writer is in its critical      *)
(* section and no checker holds the shared lock, on either path into it     *)
(* (the lock file found, or created by this writer).                        *)
LockExclusive == \A w \in Writers : pc[w] \in CriticalPc => held = {w}

-----------------------------------------------------------------------------
(* Durability: statements about every state a power loss may leave.         *)

(* The replaced tree is never orphaned: whatever survives a power loss, a   *)
(* directory at a backup name has the journal that says how to put it back, *)
(* because commit, rollback and recovery remove the journal last.           *)
BackupHasJournal ==
    \A f \in durable : \A n \in TxId :
        f.backup[n] # Absent => f.journal.kind = "record" /\ f.journal.tx = n

(* Write-ahead: if a power loss now could bring back another output than    *)
(* the one visible, it also brings back a complete journal to resolve it.   *)
OutputChangeIsJournaled ==
    \A f \in durable : f.out # fs.out => f.journal.kind = "record"

(* Recovery never has to give up on a state the protocol itself produced:   *)
(* if what the journal names is whole (staging complete or gone, backup the *)
(* replaced tree or gone, output either of them or missing) and the         *)
(* replaced tree was readable, a branch of recover_prior_transaction        *)
(* applies to the combination.                                              *)
WholeParticipantsAreRecoverable ==
    \A f \in durable :
        f.journal.kind = "record" =>
            LET n == f.journal.tx
                new == Complete(f.journal.new)
            IN  /\ Observable(prior[n])
                /\ f.out \in {Absent, new, prior[n]}
                /\ f.staging[n] \in {Absent, new}
                /\ f.backup[n] \in {Absent, prior[n]}
                => RecoveryCase(f) # "ambiguous"

-----------------------------------------------------------------------------
(* Reports: statements about the result a writer is about to return, while  *)
(* it still holds the lock.                                                 *)

Reporting(w) == pc[w] = "ret" /\ w \in held

(* A write reported written or unchanged means the output is exactly the    *)
(* expected set with no transaction left over, and for written that no      *)
(* power loss can take it back (write_output's two Ok results).             *)
SuccessIsInstalled ==
    \A w \in Writers : Reporting(w) =>
        /\ outcome[w].status \in {"written", "unchanged"} =>
             fs.out = Complete(job[w].want) /\ fs.journal = NoFile
        /\ outcome[w].status = "written" => durable = {fs}

(* An error reported unchanged or restored leaves the root the writer found *)
(* when it took the lock, after any rollback or recovery it performed       *)
(* (rollback_after_commit, recover_prior_transaction).                      *)
FailureKeepsPriorRoot ==
    \A w \in Writers :
        Reporting(w) /\ outcome[w].status = "error" /\ outcome[w].state \in {"unchanged", "restored"}
        => SettledRoot(fs) = base[w]

(* An error reported updated leaves a complete tree at the output, from     *)
(* this transaction or from the one it recovered.                           *)
UpdatedIsComplete ==
    \A w \in Writers :
        Reporting(w) /\ outcome[w].state = "updated" => MatchesManifest(fs.out, fs.out.fp)

(* An error reported indeterminate (a rollback or a recovery that failed in *)
(* the middle) leaves the rest to the next recovery: whatever survives a    *)
(* power loss has the journal and still one complete copy of the replaced   *)
(* or of the new tree to settle to; and unless the replaced tree was itself *)
(* damaged, which recovery refuses to observe, recover_prior_transaction    *)
(* finds a branch that applies and settles to exactly that tree.            *)
IndeterminateIsRecoverable ==
    \A w \in Writers :
        Reporting(w) /\ outcome[w].state = "indeterminate" =>
            \A f \in durable :
                /\ f.journal.kind = "record"
                /\ SettledRoot(f) \in {prior[f.journal.tx], Complete(f.journal.new)}
                /\ Observable(prior[f.journal.tx]) =>
                      RecoveryCase(f) # "ambiguous" /\ RecoveredRoot(f) = SettledRoot(f)

(* A comparison check_output reports is of the output as it stands at the   *)
(* final lock verification: no writer got between the scan and the report,  *)
(* neither behind a shared lock nor when no lock file existed yet.          *)
ComparisonIsCurrent ==
    [][\A c \in Checkers :
         outcome'[c].status = "compared" /\ outcome[c].status # "compared" => view[c] = fs.out]_vars

(* Every step of the file protocol is a step of the abstract register:      *)
(* begin, switch between the old and the new tree, settle, acknowledge.     *)
Abstract == INSTANCE AtomicRoot WITH
    Trees <- Tree,
    root <- SettledRoot(fs),
    txn <- IF fs.journal.kind = "record"
           THEN [kind |-> "open", old |-> prior[fs.journal.tx], new |-> Complete(fs.journal.new)]
           ELSE [kind |-> "none"],
    acked <- acked

ImplementsAtomicRoot == Abstract!Spec

(* Every invocation returns or dies: no writer and no checker waits forever *)
(* for the lock or loops between finding and creating the lock file.        *)
EveryInvocationReturns == \A p \in Procs : pc[p] # "idle" ~> pc[p] = "idle"

-----------------------------------------------------------------------------
(* Statements of the design document that a run refutes.                    *)

(* design/014: "A second writer that races first creation opens the winning *)
(* path and waits for that same exclusive lock".  With no failure and no    *)
(* crash, no process is turned away for an invalid lock.                    *)
RacingWriterWaits == \A p \in Procs : outcome[p].why # "lock_invalid"

(* design/014, output state restored: "A complete previously validated root *)
(* was restored after commit or prior-journal recovery work".               *)
RestoredIsPriorRoot ==
    \A w \in Writers : Reporting(w) /\ outcome[w].state = "restored" => fs.out = base[w]

(* design/014, output state unchanged: "This invocation did not change out".*)
UnchangedLeavesOutput ==
    \A w \in Writers : Reporting(w) /\ outcome[w].state = "unchanged" => fs.out = entry[w]
=============================================================================
