------------------------------ MODULE Emission ------------------------------
(***************************************************************************)
(* `messages emit` (messages/emit.rs): a run reads the catalogs and then    *)
(* the application's sources, one file after the other, links them, and    *)
(* registers the export at every selected target's output root, one target *)
(* after the other; with --check it only compares.  Runs of several        *)
(* processes overlap, files are edited under them, files cannot be read,   *)
(* registrations fail and processes die.                                   *)
(*                                                                         *)
(* Linking is MessageLink's business and is kept here to one locale, exact *)
(* references and catalog files of one message each.  Registration is      *)
(* OutputRegistration's, kept to what the output root settles to and to    *)
(* whether recovery could prove it: the register of AtomicRoot, plus the   *)
(* one way in which the code leaves it, a backup whose removal fails half  *)
(* way and that is put back as it is (OutputRegistration's TornErrors).    *)
(* The output's parent directory stays in its place, as it does there.     *)
(***************************************************************************)
EXTENDS Naturals, Sequences, FiniteSets

CONSTANTS
    Delivery,   \* the configured targets, a sequence in canonical name order
    Keys,       \* message keys, each with the catalog file that defines it
    Sources,    \* the application's source files
    Place,      \* the place of every file in the order of their paths
    Catalogs,   \* what the catalogs may hold: functions from Keys to Texts
    Uses,       \* what the sources may reference: functions from Sources to sets of keys
    Operands,   \* the targets named on command lines; the others name none
    MaxRuns, MaxEdits, MaxFaults, MaxCrashes

Runs == 1..MaxRuns   \* in the order they are started

Texts == {"none", "one", "two", "invalid"}   \* invalid: parses or validates with a diagnostic
Targets == {Delivery[i] : i \in DOMAIN Delivery}

\* ResolvedDeliveryTargets::try_new: at least one target, under distinct names.
ASSUME DeliveryAssumption ==
    /\ Delivery \in Seq(Targets) /\ Delivery # <<>>
    /\ Cardinality(Targets) = Len(Delivery)
ASSUME OperandsAssumption == Operands \subseteq Targets
ASSUME RunsAssumption == MaxRuns \in Nat
ASSUME SourcesAssumption ==
    /\ Keys \cap Sources = {} /\ Place \in [Keys \cup Sources -> Nat]
    /\ Catalogs \subseteq [Keys -> Texts] /\ Uses \subseteq [Sources -> SUBSET Keys]

VARIABLES
    past,               \* every state the project's files were in; the last is the present
    root, txn, holder,  \* per target: settled tree, open transaction, who locks it
    run,                \* per run: its locals
    when,               \* history: the state of the project each run read each file in
    starts, edits, faults, crashes

outputs == <<root, txn, holder>>
bounds == <<starts, edits, crashes>>
history == <<past, when>>
vars == <<history, outputs, run, bounds, faults>>

-----------------------------------------------------------------------------
Absent == [kind |-> "absent"]
None == [kind |-> "none"]

\* What a remove_dir_all that stops half way leaves: an empty directory, a tree
\* with its manifest that lacks a file, or a tree without its manifest.
Empty == [kind |-> "empty"]
Damaged == [kind |-> "damaged"]
Unreadable == [kind |-> "unreadable"]
Torn == {Empty, Damaged, Unreadable}
Remains(tree) == IF tree \in {Absent, Empty} THEN {tree} ELSE Torn

\* An open transaction, and whether recovery can tell from what is there which
\* of the two trees is to be kept: never if it replaces a damaged tree, nor if
\* staging or backup are removed half way.
Open(old, new) == [kind |-> "open", old |-> old, new |-> new, provable |-> old # Damaged]
Proven(t) == [txn EXCEPT ![t].provable = TRUE]
Unproven(t) == [txn EXCEPT ![t].provable = FALSE]
Closed(t) == [txn EXCEPT ![t] = None]
Free == 0

NoResult == [status |-> "none", state |-> "unchanged"]
Blocked == [status |-> "blocked", state |-> "unchanged"]
Unreported == 3   \* no exit code yet
Unread == 0       \* no state of the project

NoRun == [phase |-> "idle", check |-> FALSE, selected |-> {}, todo |-> <<>>, unread |-> {},
          catalog |-> [k \in Keys |-> "none"], uses |-> {}, failed |-> FALSE,
          effect |-> "unchanged", result |-> [t \in Targets |-> NoResult], exit |-> Unreported,
          found |-> [t \in Targets |-> Absent], left |-> [t \in Targets |-> Absent]]

Over(how) == [NoRun EXCEPT !.phase = how]

\* The linker's two answers that matter here, and the plan of a linked request.
Links(catalog, uses) == \A k \in uses : catalog[k] # "none"
PlanOf(catalog, uses) == [k \in uses |-> catalog[k]]
Valid(plan) == \A k \in DOMAIN plan : plan[k] # "invalid"
Export(t, plan) == [target |-> t, messages |-> plan]

Files == Keys \cup Sources
Project == past[Len(past)]

At(p, phase) == run[p].phase = phase
Wanted(p) == Export(Head(run[p].todo), PlanOf(run[p].catalog, run[p].uses))
Becomes(p, r) == run' = [run EXCEPT ![p] = r]
Goto(p, phase) == Becomes(p, [run[p] EXCEPT !.phase = phase])
Fault == faults < MaxFaults /\ faults' = faults + 1
NoFault == UNCHANGED faults

-----------------------------------------------------------------------------
(* Reading and linking.                                                     *)

\* All targets are selected, or the one named on the command line.
Start(p) ==
    /\ p = starts + 1 /\ starts' = p
    /\ \E check \in BOOLEAN, todo \in {Delivery} \cup {<<t>> : t \in Operands} :
         Becomes(p, [NoRun EXCEPT !.phase = "reading", !.check = check, !.unread = Files,
                                  !.todo = todo, !.selected = {todo[i] : i \in DOMAIN todo}])
    /\ UNCHANGED <<history, outputs, edits, crashes, faults>>

\* A run that ends before any target: no results, one operational error.
ReducedError(p) == Becomes(p, [run[p] EXCEPT !.phase = "report", !.todo = <<>>, !.exit = 2])

\* Each inventory takes its files in the order of their paths.
First(files) == {f \in files : \A g \in files : Place[f] <= Place[g]}

\* One file is read, or cannot be read or decoded and contributes nothing.
ReadsAs(p, f, read, lost) ==
    \/ /\ Becomes(p, read)
       /\ when' = [when EXCEPT ![p][f] = Len(past)]
       /\ NoFault
    \/ /\ Becomes(p, [lost EXCEPT !.failed = TRUE])
       /\ UNCHANGED when /\ Fault

\* The definition inventory, one catalog file.
ReadDefinitions(p) ==
    /\ At(p, "reading")
    /\ \E k \in First(run[p].unread \cap Keys) :
         LET rest == [run[p] EXCEPT !.unread = @ \ {k}]
         IN  ReadsAs(p, k, [rest EXCEPT !.catalog[k] = Project.defs[k]], rest)
    /\ UNCHANGED <<past, outputs, bounds>>

\* The reference inventory after it, one source file.
ReadReferences(p) ==
    /\ At(p, "reading") /\ run[p].unread \cap Keys = {}
    /\ \E f \in First(run[p].unread) :
         LET rest == [run[p] EXCEPT !.unread = @ \ {f}]
         IN  ReadsAs(p, f, [rest EXCEPT !.uses = @ \cup Project.refs[f]], rest)
    /\ UNCHANGED <<past, outputs, bounds>>

\* An error of either inventory itself, or of the linker, ends the run.
LinkingFails(p) ==
    /\ At(p, "reading")
    /\ ReducedError(p) /\ Fault
    /\ UNCHANGED <<history, outputs, bounds>>

\* Seeded fault: a run goes on with the sources it could read.
PreparableAnyway(r) == Links(r.catalog, r.uses) /\ Valid(PlanOf(r.catalog, r.uses))

\* prepare_export has a batch for the run's link outcome.
Preparable(r) ==
    /\ ~r.failed
    /\ Links(r.catalog, r.uses)
    /\ Valid(PlanOf(r.catalog, r.uses))

\* A failed source ends the run; a blocked or invalid plan blocks all targets.
Prepare(p) ==
    /\ At(p, "reading") /\ run[p].unread = {}
    /\ \/ Preparable(run[p]) /\ Goto(p, "target") /\ NoFault
       \/ /\ ~Preparable(run[p])
          /\ IF run[p].failed THEN ReducedError(p)
             ELSE Becomes(p, [run[p] EXCEPT !.phase = "report", !.todo = <<>>,
                                !.result = [t \in Targets |->
                                    IF t \in run[p].selected THEN Blocked ELSE NoResult]])
          /\ NoFault
       \/ ReducedError(p) /\ Fault
    /\ UNCHANGED <<history, outputs, bounds>>

-----------------------------------------------------------------------------
(* One target after the other: execute_target.                              *)

\* Seeded fault: the first failed target ends the loop.
AfterStopping(status, todo) == IF status = "error" THEN <<>> ELSE Tail(todo)

\* What is left to do after a target, whatever its result was.
After(status, todo) == Tail(todo)

\* The target at hand has its result: its tree was found, and is left, as given.
Record(p, status, state, found, left) ==
    LET r == run[p]
        t == Head(r.todo)
        todo == After(status, r.todo)
    IN  Becomes(p, [r EXCEPT !.phase = IF todo = <<>> THEN "report" ELSE "target",
                             !.todo = todo,
                             !.effect = "unchanged",
                             !.result = [r.result EXCEPT ![t] = [status |-> status, state |-> state]],
                             !.found = [r.found EXCEPT ![t] = found],
                             !.left = [r.left EXCEPT ![t] = left]])

\* Seeded fault: a failed target keeps the state its result began with.
FailsInShell(p, state, found, left) == Record(p, "error", "unchanged", found, left)

\* A failed target has the state its error carries.
Fails(p, state, found, left) == Record(p, "error", state, found, left)

\* The exporter, its artifact set or its manifest is refused, or the
\* registration before it has the lock.
FailsEarly(p) ==
    /\ At(p, "target")
    /\ Fault
    /\ Fails(p, "unchanged", Absent, Absent)
    /\ UNCHANGED <<history, outputs, bounds>>

\* What a reader finds: under an open transaction the output may be missing,
\* with the settled tree still at the backup's name.
Visible(t) == {root[t]} \cup IF txn[t] = None \/ root[t] = txn[t].new THEN {} ELSE {Absent}

\* PreparedOutput::check, in one step: no writer gets between scan and report.
Compare(p) ==
    LET t == Head(run[p].todo)
    IN  /\ At(p, "target") /\ run[p].check
        /\ holder[t] = Free
        /\ \E seen \in Visible(t) :
             Record(p, IF seen = Unreadable THEN "error"
                       ELSE IF seen = Wanted(p) THEN "matched" ELSE "different",
                    "unchanged", seen, seen)
        /\ NoFault
        /\ UNCHANGED <<history, outputs, bounds>>

-----------------------------------------------------------------------------
(* PreparedOutput::write, the steps of one registration that matter here.   *)

Lock(p) ==
    LET t == Head(run[p].todo)
    IN  /\ At(p, "target") /\ ~run[p].check
        /\ holder[t] = Free
        /\ holder' = [holder EXCEPT ![t] = p]
        /\ Becomes(p, [run[p] EXCEPT !.phase = "recover",
                                     !.found = [run[p].found EXCEPT ![t] = root[t]]])
        /\ UNCHANGED <<history, root, txn, bounds, faults>>

\* The registration ends with this result, and its lock is dropped.
Registered(p, status, state) ==
    LET t == Head(run[p].todo)
    IN  /\ holder' = [holder EXCEPT ![t] = Free]
        /\ IF status = "error" THEN Fails(p, state, run[p].found[t], root'[t])
           ELSE Record(p, status, state, run[p].found[t], root'[t])

\* An interrupted transaction is settled as it stands, unless its participants
\* prove neither outcome; a failure may leave it open, and half removed.
Recover(p) ==
    LET t == Head(run[p].todo)
        effect == IF root[t] = txn[t].old THEN "restored" ELSE "updated"
    IN  /\ At(p, "recover")
        /\ UNCHANGED root
        /\ \/ txn[t] = None /\ Goto(p, "inspect") /\ UNCHANGED <<txn, holder>> /\ NoFault
           \/ /\ txn[t] # None /\ ~txn[t].provable
              /\ Registered(p, "error", "unchanged")
              /\ UNCHANGED txn /\ NoFault
           \/ /\ txn[t] # None /\ txn[t].provable
              /\ txn' = Closed(t)
              /\ Becomes(p, [run[p] EXCEPT !.phase = "inspect", !.effect = effect])
              /\ UNCHANGED holder /\ NoFault
           \/ /\ txn[t] # None /\ txn[t].provable /\ Fault
              /\ \/ /\ txn' = txn
                    /\ \E state \in {"unchanged", "indeterminate"} : Registered(p, "error", state)
                 \/ /\ txn' \in {txn, Unproven(t), Closed(t)}
                    /\ Registered(p, "error", effect)
        /\ UNCHANGED <<history, bounds>>

\* The output is exactly what this run exports.
UpToDate(p) == root[Head(run[p].todo)] = Wanted(p)

\* An output that cannot be read is refused, one that is up to date is left
\* alone, and another is staged and journaled.
Inspect(p) ==
    LET t == Head(run[p].todo)
    IN  /\ At(p, "inspect")
        /\ UNCHANGED root
        /\ \/ Registered(p, "error", run[p].effect) /\ UNCHANGED txn /\ Fault
           \/ /\ root[t] = Unreadable
              /\ Registered(p, "error", run[p].effect) /\ UNCHANGED txn /\ NoFault
           \/ UpToDate(p) /\ Registered(p, "unchanged", run[p].effect) /\ UNCHANGED txn /\ NoFault
           \/ /\ root[t] # Unreadable /\ ~UpToDate(p)
              /\ txn' = [txn EXCEPT ![t] = Open(root[t], Wanted(p))]
              /\ Goto(p, "commit")
              /\ UNCHANGED holder /\ NoFault
        /\ UNCHANGED <<history, bounds>>

\* The staged tree is installed; a failure before is rolled back, or stops.
Install(p) ==
    LET t == Head(run[p].todo)
    IN  /\ At(p, "commit")
        /\ \/ /\ root' = [root EXCEPT ![t] = txn[t].new]
              /\ Goto(p, "installed")
              /\ UNCHANGED <<txn, holder>> /\ NoFault
           \/ /\ Fault /\ UNCHANGED root
              /\ \/ /\ txn' \in {txn, Unproven(t), Closed(t)}
                    /\ \E state \in {"unchanged", "restored"} : Registered(p, "error", state)
                 \/ txn' = txn /\ Registered(p, "error", "indeterminate")
        /\ UNCHANGED <<history, bounds>>

\* remove_dir_all(backup) begins; an absent or empty root leaves nothing to tear.
RemoveBackup(p) ==
    LET t == Head(run[p].todo)
    IN  /\ At(p, "installed") /\ txn[t].old \notin {Absent, Empty}
        /\ txn' = Unproven(t)
        /\ Goto(p, "removing")
        /\ NoFault
        /\ UNCHANGED <<history, root, holder, bounds>>

\* The backup is gone, or there was none to tear.
Replaced(p) == At(p, "removing") \/ txn[Head(run[p].todo)].old \in {Absent, Empty}

\* The journal goes and the write is reported.  A failure is rolled back to
\* what there is of the old tree, or stops half way there; once the backup is
\* gone it stops with the new tree complete.
Settle(p) ==
    LET t == Head(run[p].todo)
        old == IF At(p, "removing") THEN Remains(txn[t].old) ELSE {txn[t].old}
    IN  /\ At(p, "installed") \/ At(p, "removing")
        /\ \/ /\ Replaced(p) /\ NoFault
              /\ txn' = Closed(t) /\ UNCHANGED root
              /\ Registered(p, "written", "updated")
           \/ /\ Replaced(p) /\ Fault
              /\ txn' \in {Closed(t), Proven(t)} /\ UNCHANGED root
              /\ Registered(p, "error", "updated")
           \/ /\ Fault
              /\ txn' \in {txn, Unproven(t), Closed(t)}
              /\ \E tree \in old : root' = [root EXCEPT ![t] = tree]
              /\ Registered(p, "error", "restored")
           \/ /\ Fault
              /\ txn' = txn
              /\ \E tree \in old \cup {txn[t].new} : root' = [root EXCEPT ![t] = tree]
              /\ Registered(p, "error", "indeterminate")
        /\ UNCHANGED <<history, bounds>>

-----------------------------------------------------------------------------
(* Reporting.                                                               *)

\* The exit code: 2 for an error, 1 for a blocked or different target, else 0.
ExitOf(result) ==
    LET statuses == {result[t].status : t \in Targets}
    IN  IF "error" \in statuses THEN 2
        ELSE IF statuses \cap {"blocked", "different"} # {} THEN 1
        ELSE 0

Report(p) ==
    /\ At(p, "report")
    /\ LET r == run[p] IN
       Becomes(p, [r EXCEPT !.phase = "reported",
                            !.exit = IF r.exit = 2 THEN 2 ELSE ExitOf(r.result)])
    /\ UNCHANGED <<history, outputs, bounds, faults>>

Exit(p) ==
    /\ At(p, "reported")
    /\ Becomes(p, Over("done"))
    /\ UNCHANGED <<history, outputs, bounds, faults>>

-----------------------------------------------------------------------------
(* The environment.                                                         *)

\* Any of the files change, between two reads of a run as well.
EditSources ==
    /\ edits < MaxEdits /\ edits' = edits + 1
    /\ \E defs \in Catalogs, refs \in Uses :
         /\ [defs |-> defs, refs |-> refs] # Project
         /\ past' = Append(past, [defs |-> defs, refs |-> refs])
    /\ UNCHANGED <<when, outputs, run, starts, crashes, faults>>

\* A process dies anywhere, with its staging or backup half or all removed as
\* well; the operating system drops its lock.
Crash(p) ==
    LET open == {t \in Targets : holder[t] = p /\ txn[t] # None}
    IN
    /\ run[p].phase \notin {"idle", "done", "dead"}
    /\ crashes < MaxCrashes /\ crashes' = crashes + 1
    /\ Becomes(p, Over("dead"))
    /\ \/ txn' \in {txn} \cup {Unproven(t) : t \in open}
       \/ At(p, "removing") /\ txn' \in {Proven(t) : t \in open}
    /\ holder' = [t \in Targets |-> IF holder[t] = p THEN Free ELSE holder[t]]
    /\ UNCHANGED <<history, root, starts, edits, faults>>

Step(p) ==
    \/ ReadDefinitions(p) \/ ReadReferences(p) \/ LinkingFails(p) \/ Prepare(p)
    \/ FailsEarly(p) \/ Compare(p)
    \/ Lock(p) \/ Recover(p) \/ Inspect(p) \/ Install(p)
    \/ RemoveBackup(p) \/ Settle(p)
    \/ Report(p) \/ Exit(p)

\* All runs of the bound are over.
Quiescent ==
    /\ \A p \in Runs : run[p].phase \in {"done", "dead"}
    /\ UNCHANGED vars

Init ==
    /\ past \in {<<[defs |-> defs, refs |-> refs]>> : defs \in Catalogs, refs \in Uses}
    /\ when = [p \in Runs |-> [f \in Files |-> Unread]]
    /\ root = [t \in Targets |-> Absent]
    /\ txn = [t \in Targets |-> None]
    /\ holder = [t \in Targets |-> Free]
    /\ run = [p \in Runs |-> NoRun]
    /\ starts = 0 /\ edits = 0 /\ faults = 0 /\ crashes = 0

Next ==
    \/ \E p \in Runs : Start(p) \/ Step(p) \/ Crash(p)
    \/ EditSources
    \/ Quiescent

Spec == Init /\ [][Next]_vars
=============================================================================
