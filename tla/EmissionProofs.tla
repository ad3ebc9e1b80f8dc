---------------------------- MODULE EmissionProofs ----------------------------
(***************************************************************************)
(* The promises of EmissionProperties, proved for any delivery targets,    *)
(* project files, numbers of runs, edits, failures and crashes: first the  *)
(* types, that a run that registers holds the lock, and what a step of a   *)
(* run may change, then the promises themselves.                           *)
(***************************************************************************)
EXTENDS EmissionProperties, SequenceTheorems, TLAPS

Committing == {"commit", "installed", "removing"}   \* with a transaction of its own
Writing == {"recover", "inspect"} \cup Committing
Working == {"target"} \cup Writing
Phases == {"idle", "reading"} \cup Working \cup {"report", "reported", "done", "dead"}

Statuses == {"none", "blocked", "matched", "different", "unchanged", "written", "error"}
States == {"unchanged", "restored", "updated", "indeterminate"}
Results == [status : Statuses, state : States]
Projects == [defs : Catalogs, refs : Uses]
Trees ==
    {Absent} \cup Torn
      \cup [target : Targets, messages : UNION {[K -> Texts] : K \in SUBSET Keys}]
OpenTransactions == [kind : {"open"}, old : Trees, new : Trees, provable : BOOLEAN]
Transactions == {None} \cup OpenTransactions
Locals ==
    [phase : Phases, check : BOOLEAN, selected : SUBSET Targets, todo : Seq(Targets),
     unread : SUBSET Files, catalog : [Keys -> Texts], uses : SUBSET Keys, failed : BOOLEAN,
     effect : States, result : [Targets -> Results], exit : 0..3,
     found : [Targets -> Trees], left : [Targets -> Trees]]

TypeInv ==
    /\ past \in Seq(Projects) /\ past # <<>>
    /\ when \in [Runs -> [Files -> Nat]]
    /\ \A p \in Runs, f \in Files : when[p][f] \in 0..Len(past)
    /\ root \in [Targets -> Trees]
    /\ txn \in [Targets -> Transactions]
    /\ holder \in [Targets -> {Free} \cup Runs]
    /\ run \in [Runs -> Locals]
    /\ starts \in Nat
    /\ \A p \in Runs : run[p].phase \in {"reading"} \cup Working => run[p].todo # <<>>

-----------------------------------------------------------------------------
(* A lock that a run holds is not free.                                     *)
LEMMA RunsAreNotFree == \A p \in Runs : p # Free
  BY RunsAssumption DEF Runs, Free

(* A run that has not started, and one that is over, is typed.              *)
LEMMA NoRunIsTyped == NoRun \in Locals /\ \A how \in {"done", "dead"} : Over(how) \in Locals
<1>1. NoResult \in Results
  BY DEF NoResult, Results, Statuses, States
<1>2. Absent \in Trees
  BY DEF Trees
<1>3. <<>> \in Seq(Targets)
  OBVIOUS
<1>4. [k \in Keys |-> "none"] \in [Keys -> Texts]
  BY DEF Texts
<1>5. NoRun \in Locals
  BY <1>1, <1>2, <1>3, <1>4
     DEF NoRun, Locals, Phases, Working, Writing, Committing, States, Unreported
<1>6. ASSUME NEW how \in {"done", "dead"} PROVE Over(how) \in Locals
  BY <1>5 DEF Over, Locals, Phases
<1> QED BY <1>5, <1>6

(* The present is one of the project's states.                              *)
LEMMA ProjectIsTyped ==
  ASSUME TypeInv
  PROVE  /\ Len(past) \in Nat \ {0} /\ Project \in Projects
         /\ Project.defs \in [Keys -> Texts] /\ Project.refs \in [Sources -> SUBSET Keys]
<1>1. Len(past) \in Nat \ {0} /\ Project \in Projects
  BY DEF TypeInv, Project
<1> QED BY <1>1, SourcesAssumption DEF Projects

(* A step of one run changes that run's locals only.                        *)
LEMMA BecomesGives ==
  ASSUME run \in [Runs -> Locals], NEW p \in Runs, NEW r, Becomes(p, r)
  PROVE  /\ run'[p] = r
         /\ \A q \in Runs \ {p} : run'[q] = run[q]
         /\ r \in Locals => run' \in [Runs -> Locals]
  BY DEF Becomes

(* A step that reads a file takes it off the unread ones, and either keeps  *)
(* what the project holds there now, or fails and keeps nothing.            *)
LEMMA ReadingGives ==
  ASSUME TypeInv, NEW p \in Runs, ReadDefinitions(p) \/ ReadReferences(p)
  PROVE  LET r == run[p]
             s == run'[p]
         IN  /\ run' \in [Runs -> Locals] /\ \A q \in Runs \ {p} : run'[q] = run[q]
             /\ r.phase = "reading" /\ s.phase = "reading"
             /\ s.check = r.check /\ s.selected = r.selected /\ s.todo = r.todo
             /\ s.result = r.result /\ s.exit = r.exit /\ s.found = r.found /\ s.left = r.left
             /\ UNCHANGED <<past, outputs, bounds>>
             /\ \E f \in r.unread :
                  /\ s.unread = r.unread \ {f}
                  /\ \/ /\ s.failed = r.failed /\ when' = [when EXCEPT ![p][f] = Len(past)]
                        /\ \/ /\ f \in Keys /\ s.uses = r.uses
                              /\ s.catalog = [r.catalog EXCEPT ![f] = Project.defs[f]]
                           \/ /\ f \in Sources /\ s.catalog = r.catalog
                              /\ s.uses = r.uses \cup Project.refs[f]
                     \/ s.failed /\ when' = when
<1> DEFINE r == run[p]
<1>1. r \in Locals /\ "reading" \in Phases /\ r.unread \subseteq Files
  BY DEF TypeInv, Phases, Locals
<1>2. CASE ReadDefinitions(p)
  <2>1. PICK k \in First(r.unread \cap Keys) :
          LET rest == [r EXCEPT !.unread = @ \ {k}]
          IN  ReadsAs(p, k, [rest EXCEPT !.catalog[k] = Project.defs[k]], rest)
    BY <1>2 DEF ReadDefinitions
  <2>2. k \in r.unread /\ k \in Keys /\ r.phase = "reading"
    BY <1>2 DEF First, ReadDefinitions, At
  <2> DEFINE catalog == [r.catalog EXCEPT ![k] = Project.defs[k]]
             rest == [r EXCEPT !.unread = @ \ {k}]
             read == [rest EXCEPT !.catalog = catalog]
             lost == [rest EXCEPT !.failed = TRUE]
  <2>3. catalog \in [Keys -> Texts]
    BY <1>1, <2>2, ProjectIsTyped DEF Locals
  <2>4. rest \in Locals /\ rest.phase = "reading" /\ rest.unread = r.unread \ {k}
    BY <1>1, <2>2 DEF Locals
  <2>5. [rest EXCEPT !.catalog[k] = Project.defs[k]] = read
    BY <1>1, <2>4 DEF Locals
  <2> HIDE DEF catalog
  <2>6. read \in Locals /\ lost \in Locals
    BY <1>1, <2>3, <2>4 DEF Locals
  <2>7. CASE Becomes(p, read) /\ when' = [when EXCEPT ![p][k] = Len(past)]
    <3>1. run'[p] = read /\ run' \in [Runs -> Locals] /\ \A q \in Runs \ {p} : run'[q] = run[q]
      BY <2>6, <2>7, BecomesGives DEF TypeInv
    <3>2. /\ read.phase = "reading" /\ read.unread = r.unread \ {k} /\ read.failed = r.failed
          /\ read.catalog = catalog /\ read.uses = r.uses
          /\ read.check = r.check /\ read.selected = r.selected /\ read.todo = r.todo
          /\ read.result = r.result /\ read.exit = r.exit /\ read.found = r.found
          /\ read.left = r.left
      BY <1>1, <2>2 DEF Locals
    <3> QED BY <1>2, <2>2, <2>7, <3>1, <3>2 DEF ReadDefinitions, catalog
  <2>8. CASE Becomes(p, lost) /\ UNCHANGED when
    <3>1. run'[p] = lost /\ run' \in [Runs -> Locals] /\ \A q \in Runs \ {p} : run'[q] = run[q]
      BY <2>6, <2>8, BecomesGives DEF TypeInv
    <3>2. /\ lost.phase = "reading" /\ lost.unread = r.unread \ {k} /\ lost.failed
          /\ lost.check = r.check /\ lost.selected = r.selected /\ lost.todo = r.todo
          /\ lost.result = r.result /\ lost.exit = r.exit /\ lost.found = r.found
          /\ lost.left = r.left
      BY <1>1, <2>2 DEF Locals
    <3> QED BY <1>2, <2>2, <2>8, <3>1, <3>2 DEF ReadDefinitions
  <2> QED BY <2>1, <2>5, <2>7, <2>8 DEF ReadsAs
<1>3. CASE ReadReferences(p)
  <2>1. PICK f \in First(r.unread) :
          LET rest == [r EXCEPT !.unread = @ \ {f}]
          IN  ReadsAs(p, f, [rest EXCEPT !.uses = @ \cup Project.refs[f]], rest)
    BY <1>3 DEF ReadReferences
  <2>2. f \in r.unread /\ f \in Sources /\ r.phase = "reading"
    BY <1>1, <1>3 DEF First, ReadReferences, At, Files
  <2> DEFINE uses == r.uses \cup Project.refs[f]
             rest == [r EXCEPT !.unread = @ \ {f}]
             read == [rest EXCEPT !.uses = uses]
             lost == [rest EXCEPT !.failed = TRUE]
  <2>3. uses \in SUBSET Keys
    BY <1>1, <2>2, ProjectIsTyped DEF Locals
  <2>4. rest \in Locals /\ rest.phase = "reading" /\ rest.unread = r.unread \ {f}
    BY <1>1, <2>2 DEF Locals
  <2>5. [rest EXCEPT !.uses = @ \cup Project.refs[f]] = read
    BY <1>1, <2>4 DEF Locals
  <2> HIDE DEF uses
  <2>6. read \in Locals /\ lost \in Locals
    BY <1>1, <2>3, <2>4 DEF Locals
  <2>7. CASE Becomes(p, read) /\ when' = [when EXCEPT ![p][f] = Len(past)]
    <3>1. run'[p] = read /\ run' \in [Runs -> Locals] /\ \A q \in Runs \ {p} : run'[q] = run[q]
      BY <2>6, <2>7, BecomesGives DEF TypeInv
    <3>2. /\ read.phase = "reading" /\ read.unread = r.unread \ {f} /\ read.failed = r.failed
          /\ read.catalog = r.catalog /\ read.uses = uses
          /\ read.check = r.check /\ read.selected = r.selected /\ read.todo = r.todo
          /\ read.result = r.result /\ read.exit = r.exit /\ read.found = r.found
          /\ read.left = r.left
      BY <1>1, <2>2 DEF Locals
    <3> QED BY <1>3, <2>2, <2>7, <3>1, <3>2 DEF ReadReferences, uses
  <2>8. CASE Becomes(p, lost) /\ UNCHANGED when
    <3>1. run'[p] = lost /\ run' \in [Runs -> Locals] /\ \A q \in Runs \ {p} : run'[q] = run[q]
      BY <2>6, <2>8, BecomesGives DEF TypeInv
    <3>2. /\ lost.phase = "reading" /\ lost.unread = r.unread \ {f} /\ lost.failed
          /\ lost.check = r.check /\ lost.selected = r.selected /\ lost.todo = r.todo
          /\ lost.result = r.result /\ lost.exit = r.exit /\ lost.found = r.found
          /\ lost.left = r.left
      BY <1>1, <2>2 DEF Locals
    <3> QED BY <1>3, <2>2, <2>8, <3>1, <3>2 DEF ReadReferences
  <2> QED BY <2>1, <2>5, <2>7, <2>8 DEF ReadsAs
<1> QED BY <1>2, <1>3

(* Linking ends in a report or at the first target, and a report, an exit   *)
(* or a crash is the last of a run's phases but one.                        *)
LEMMA LinkingEnds ==
  ASSUME TypeInv, NEW p \in Runs, LinkingFails(p) \/ Prepare(p)
  PROVE  run'[p].phase \in {"report", "target"}
<1>1. run[p] \in Locals
  BY DEF TypeInv
<1>2. CASE ReducedError(p)
  BY <1>1, <1>2 DEF ReducedError, Becomes, TypeInv, Locals
<1>3. CASE Goto(p, "target")
  BY <1>1, <1>3 DEF Goto, Becomes, TypeInv, Locals
<1>4. ASSUME NEW results,
             Becomes(p, [run[p] EXCEPT !.phase = "report", !.todo = <<>>, !.result = results])
      PROVE  run'[p].phase = "report"
  BY <1>1, <1>4 DEF Becomes, TypeInv, Locals
<1> QED BY <1>2, <1>3, <1>4 DEF LinkingFails, Prepare

LEMMA RunEnds ==
  ASSUME TypeInv, NEW p \in Runs, Report(p) \/ Exit(p) \/ Crash(p)
  PROVE  run'[p].phase \in {"reported", "done", "dead"}
<1>1. CASE Report(p)
  <2>1. run[p] \in Locals
    BY DEF TypeInv
  <2>2. PICK exit : Becomes(p, [run[p] EXCEPT !.phase = "reported", !.exit = exit])
    BY <1>1 DEF Report
  <2> QED BY <2>1, <2>2 DEF Becomes, TypeInv, Locals
<1>2. CASE Exit(p) \/ Crash(p)
  BY <1>2 DEF Exit, Crash, Over, NoRun, Becomes, TypeInv
<1> QED BY <1>1, <1>2

(* What a failure may leave of a transaction: the two trees stay.           *)
LEMMA TransactionGives ==
  ASSUME TypeInv, NEW t \in Targets, txn[t] # None,
         NEW next \in {txn, Proven(t), Unproven(t), Closed(t)}
  PROVE  /\ next \in [Targets -> Transactions]
         /\ \A u \in Targets \ {t} : next[u] = txn[u]
         /\ \/ next[t] = None
            \/ next[t] # None /\ next[t].old = txn[t].old /\ next[t].new = txn[t].new
<1>1. txn[t] \in OpenTransactions /\ txn \in [Targets -> Transactions]
  BY DEF TypeInv, Transactions
<1>2. ASSUME NEW provable \in BOOLEAN, next = [txn EXCEPT ![t].provable = provable]
      PROVE  next = [txn EXCEPT ![t] = [txn[t] EXCEPT !.provable = provable]]
  BY <1>2
<1>3. ASSUME NEW provable \in BOOLEAN
      PROVE  /\ [txn[t] EXCEPT !.provable = provable] \in OpenTransactions
             /\ [txn[t] EXCEPT !.provable = provable].old = txn[t].old
             /\ [txn[t] EXCEPT !.provable = provable].new = txn[t].new
             /\ [txn[t] EXCEPT !.provable = provable] # None
  BY <1>1 DEF OpenTransactions, None
<1>4. ASSUME NEW provable \in BOOLEAN, next = [txn EXCEPT ![t].provable = provable]
      PROVE  /\ next \in [Targets -> Transactions]
             /\ \A u \in Targets \ {t} : next[u] = txn[u]
             /\ next[t] = [txn[t] EXCEPT !.provable = provable]
  BY <1>1, <1>2, <1>3, <1>4 DEF Transactions
<1>5. CASE next = txn
  BY <1>1, <1>5
<1>6. CASE next = Closed(t)
  BY <1>1, <1>6 DEF Closed, Transactions
<1>7. CASE next = Proven(t)
  BY <1>3, <1>4, <1>7 DEF Proven
<1>8. CASE next = Unproven(t)
  BY <1>3, <1>4, <1>8 DEF Unproven
<1> QED BY <1>5, <1>6, <1>7, <1>8

(* Every run's plan is a tree of its target.                                *)
LEMMA WantedIsATree ==
  ASSUME TypeInv, NEW p \in Runs, run[p].phase \in Working
  PROVE  Head(run[p].todo) \in Targets /\ Tail(run[p].todo) \in Seq(Targets) /\ Wanted(p) \in Trees
<1>1. run[p] \in Locals /\ run[p].todo \in Seq(Targets) /\ run[p].todo # <<>>
  BY DEF TypeInv, Locals
<1>2. Head(run[p].todo) \in Targets /\ Tail(run[p].todo) \in Seq(Targets)
  BY <1>1
<1>3. PlanOf(run[p].catalog, run[p].uses) \in [run[p].uses -> Texts] /\ run[p].uses \in SUBSET Keys
  BY <1>1 DEF PlanOf, Locals
<1>4. PlanOf(run[p].catalog, run[p].uses) \in UNION {[K -> Texts] : K \in SUBSET Keys}
  BY <1>3
<1> QED BY <1>2, <1>4 DEF Wanted, Export, Trees

(* What execute_target leaves of a run once its target has a result.        *)
LEMMA RecordGives ==
  ASSUME TypeInv, NEW p \in Runs, run[p].phase \in Working,
         NEW status \in Statuses, NEW state \in States, NEW found \in Trees, NEW left \in Trees,
         Record(p, status, state, found, left)
  PROVE  LET r == run[p]
             s == run'[p]
             t == Head(r.todo)
         IN  /\ \A q \in Runs \ {p} : run'[q] = run[q]
             /\ s.phase = IF Tail(r.todo) = <<>> THEN "report" ELSE "target"
             /\ s.todo = Tail(r.todo) /\ s.check = r.check /\ s.selected = r.selected
             /\ s.catalog = r.catalog /\ s.uses = r.uses /\ s.failed = r.failed /\ s.exit = r.exit
             /\ s.effect = "unchanged"
             /\ \A u \in Targets :
                  /\ s.result[u].status = IF u = t THEN status ELSE r.result[u].status
                  /\ s.result[u].state = IF u = t THEN state ELSE r.result[u].state
                  /\ s.found[u] = IF u = t THEN found ELSE r.found[u]
                  /\ s.left[u] = IF u = t THEN left ELSE r.left[u]
             /\ run' \in [Runs -> Locals]
             /\ s.phase \in {"reading"} \cup Working => s.todo # <<>>
<1> DEFINE r == run[p]
           t == Head(r.todo)
           todo == Tail(r.todo)
           s == [r EXCEPT !.phase = IF todo = <<>> THEN "report" ELSE "target",
                          !.todo = todo, !.effect = "unchanged",
                          !.result = [r.result EXCEPT ![t] = [status |-> status, state |-> state]],
                          !.found = [r.found EXCEPT ![t] = found],
                          !.left = [r.left EXCEPT ![t] = left]]
<1>1. r \in Locals
  BY DEF TypeInv
<1>2. t \in Targets /\ todo \in Seq(Targets)
  BY WantedIsATree
<1>3. Becomes(p, s)
  BY DEF Record, After
<1>4. [status |-> status, state |-> state] \in Results
  BY DEF Results
<1>5. /\ [r.result EXCEPT ![t] = [status |-> status, state |-> state]] \in [Targets -> Results]
      /\ [r.found EXCEPT ![t] = found] \in [Targets -> Trees]
      /\ [r.left EXCEPT ![t] = left] \in [Targets -> Trees]
  BY <1>1, <1>2, <1>4 DEF Locals
<1>6. s \in Locals
  BY <1>1, <1>2, <1>5 DEF Locals, Phases, Working, States
<1>7. run'[p] = s /\ (\A q \in Runs \ {p} : run'[q] = run[q]) /\ run' \in [Runs -> Locals]
  BY <1>3, <1>6, BecomesGives DEF TypeInv
<1>8. ASSUME NEW u \in Targets
      PROVE  /\ s.result[u].status = IF u = t THEN status ELSE r.result[u].status
             /\ s.result[u].state = IF u = t THEN state ELSE r.result[u].state
             /\ s.found[u] = IF u = t THEN found ELSE r.found[u]
             /\ s.left[u] = IF u = t THEN left ELSE r.left[u]
  BY <1>1, <1>2 DEF Locals
<1> QED
  BY <1>1, <1>7, <1>8 DEF Locals, Working, Writing, Committing

(* A run that has a result for a target is done with it.                    *)
LEMMA RecordEndsTheTarget ==
  ASSUME TypeInv, NEW p \in Runs, NEW status, NEW state, NEW found, NEW left,
         Record(p, status, state, found, left)
  PROVE  run'[p].phase \in {"report", "target"}
<1> DEFINE r == run[p]
           t == Head(r.todo)
           todo == After(status, r.todo)
           s == [r EXCEPT !.phase = IF todo = <<>> THEN "report" ELSE "target",
                          !.todo = todo, !.effect = "unchanged",
                          !.result = [r.result EXCEPT ![t] = [status |-> status, state |-> state]],
                          !.found = [r.found EXCEPT ![t] = found],
                          !.left = [r.left EXCEPT ![t] = left]]
<1>1. Becomes(p, s)
  BY DEF Record
<1>2. run[p] \in Locals
  BY DEF TypeInv
<1>3. run'[p] = s
  BY <1>1, BecomesGives DEF TypeInv
<1>4. s.phase \in {"report", "target"}
  BY <1>2 DEF Locals
<1> QED BY <1>3, <1>4

(* A registration ends with its result and without its lock.                *)
LEMMA RegisteredRecords ==
  ASSUME NEW p, NEW status, NEW state, Registered(p, status, state)
  PROVE  LET t == Head(run[p].todo)
         IN  /\ holder' = [holder EXCEPT ![t] = Free]
             /\ Record(p, status, state, run[p].found[t], root'[t])
  BY DEF Registered, Fails

(* A registration's result and its end, typed.                              *)
LEMMA RegisteredIsTyped ==
  ASSUME TypeInv, NEW p \in Runs, run[p].phase \in Working, root' \in [Targets -> Trees],
         NEW status \in Statuses, NEW state \in States, Registered(p, status, state)
  PROVE  /\ holder' \in [Targets -> {Free} \cup Runs]
         /\ run' \in [Runs -> Locals]
         /\ \A q \in Runs : run'[q].phase \in {"reading"} \cup Working => run'[q].todo # <<>>
<1> DEFINE t == Head(run[p].todo)
<1>1. t \in Targets
  BY WantedIsATree
<1>2. run[p].found[t] \in Trees /\ root'[t] \in Trees
  BY <1>1 DEF TypeInv, Locals
<1>3. Record(p, status, state, run[p].found[t], root'[t]) /\ holder' = [holder EXCEPT ![t] = Free]
  BY RegisteredRecords
<1>4. /\ run' \in [Runs -> Locals]
      /\ \A q \in Runs \ {p} : run'[q] = run[q]
      /\ run'[p].phase \in {"reading"} \cup Working => run'[p].todo # <<>>
  BY <1>2, <1>3, RecordGives
<1>5. holder' \in [Targets -> {Free} \cup Runs]
  BY <1>3 DEF TypeInv
<1> QED BY <1>4, <1>5 DEF TypeInv

-----------------------------------------------------------------------------
(* While a run registers, it holds the lock of the target at hand, and from *)
(* its journal on the target's transaction is open.                         *)
LockInv ==
    \A p \in Runs :
        LET t == Head(run[p].todo)
        IN  /\ run[p].phase \in Writing => holder[t] = p /\ ~run[p].check
            /\ run[p].phase \in Committing => txn[t] # None

(* What the steps that register may do to the transaction at hand.          *)
LEMMA CommittingGives ==
  ASSUME TypeInv, LockInv, NEW p \in Runs, run[p].phase \in Committing,
         Install(p) \/ RemoveBackup(p) \/ Settle(p)
  PROVE  LET t == Head(run[p].todo)
         IN  /\ t \in Targets /\ txn[t] \in OpenTransactions
             /\ txn' \in {txn, Proven(t), Unproven(t), Closed(t)}
             /\ \/ UNCHANGED root
                \/ \E tree \in Remains(txn[t].old) \cup {txn[t].old, txn[t].new} :
                     root' = [root EXCEPT ![t] = tree]
<1> DEFINE t == Head(run[p].todo)
<1>1. t \in Targets /\ txn[t] \in OpenTransactions
  BY WantedIsATree DEF LockInv, TypeInv, Transactions, Working, Writing
<1>2. CASE Install(p)
  BY <1>1, <1>2 DEF Install
<1>3. CASE RemoveBackup(p)
  BY <1>1, <1>3 DEF RemoveBackup
<1>4. CASE Settle(p)
  BY <1>1, <1>4 DEF Settle
<1> QED BY <1>2, <1>3, <1>4

(* A run's step leaves the other runs, and the outputs they lock, alone.     *)
LEMMA StepIsLocal ==
  ASSUME TypeInv, LockInv, NEW p \in Runs, Start(p) \/ Step(p) \/ Crash(p)
  PROVE  \A q \in Runs \ {p} :
           /\ run'[q] = run[q]
           /\ \A t \in Targets : holder[t] = q =>
                holder'[t] = q /\ txn'[t] = txn[t] /\ root'[t] = root[t]
<1> DEFINE t == Head(run[p].todo)
           Alone == \A u \in Targets : holder[u] \notin {p, Free} =>
                      holder'[u] = holder[u] /\ txn'[u] = txn[u] /\ root'[u] = root[u]
           Mine == \E r : Becomes(p, r)
<1>1. ASSUME NEW status, NEW state, NEW found, NEW left, Record(p, status, state, found, left)
      PROVE  Mine
  BY <1>1 DEF Record
<1>2. ASSUME NEW status, NEW state, Registered(p, status, state)
      PROVE  Mine /\ holder' = [holder EXCEPT ![t] = Free]
  BY <1>1, <1>2, RegisteredRecords
<1>3. ASSUME UNCHANGED outputs PROVE Alone
  BY <1>3 DEF outputs
<1>4. ASSUME holder[t] \in {p, Free},
             holder' = holder \/ \E x : holder' = [holder EXCEPT ![t] = x],
             txn' = txn \/ \E x : txn' = [txn EXCEPT ![t] = x],
             root' = root \/ \E x : root' = [root EXCEPT ![t] = x]
      PROVE  Alone
  <2> SUFFICES ASSUME NEW u \in Targets, holder[u] \notin {p, Free}
               PROVE  holder'[u] = holder[u] /\ txn'[u] = txn[u] /\ root'[u] = root[u]
    OBVIOUS
  <2>1. u # t
    BY <1>4
  <2>2. holder'[u] = holder[u]
    BY <1>4, <2>1 DEF TypeInv
  <2>3. txn'[u] = txn[u]
    BY <1>4, <2>1 DEF TypeInv
  <2>4. root'[u] = root[u]
    BY <1>4, <2>1 DEF TypeInv
  <2> QED BY <2>2, <2>3, <2>4
<1>5. ASSUME NEW phase, Goto(p, phase) PROVE Mine
  BY <1>5 DEF Goto
<1>6. ASSUME ReducedError(p) PROVE Mine
  BY <1>6 DEF ReducedError
<1>7. ASSUME run[p].phase \in Writing PROVE holder[t] = p
  BY <1>7 DEF LockInv
<1>8. ASSUME NEW provable PROVE \E x : [txn EXCEPT ![t].provable = provable] = [txn EXCEPT ![t] = x]
  OBVIOUS
<1>9. ASSUME txn' \in {txn, Proven(t), Unproven(t), Closed(t)}
      PROVE  txn' = txn \/ \E x : txn' = [txn EXCEPT ![t] = x]
  <2>1. CASE txn' = txn
    BY <2>1
  <2>2. CASE txn' = Closed(t)
    BY <2>2 DEF Closed
  <2>3. CASE txn' = Proven(t)
    BY <1>8, <2>3 DEF Proven
  <2>4. CASE txn' = Unproven(t)
    BY <1>8, <2>4 DEF Unproven
  <2> QED BY <1>9, <2>1, <2>2, <2>3, <2>4
<1> HIDE DEF Alone, Mine
<1>10. ASSUME NEW r, Becomes(p, r) PROVE Mine
  BY <1>10 DEF Mine
<1>11. ASSUME Start(p) PROVE Alone /\ Mine
  BY <1>3, <1>10, <1>11 DEF Start
<1>12. ASSUME ReadDefinitions(p) \/ ReadReferences(p) PROVE Alone /\ Mine
  BY <1>3, <1>10, <1>12 DEF ReadDefinitions, ReadReferences, ReadsAs
<1>13. ASSUME LinkingFails(p) \/ Prepare(p) PROVE Alone /\ Mine
  BY <1>3, <1>5, <1>6, <1>10, <1>13 DEF LinkingFails, Prepare
<1>14. ASSUME FailsEarly(p) PROVE Alone /\ Mine
  BY <1>1, <1>3, <1>14 DEF FailsEarly, Fails
<1>15. ASSUME Compare(p) PROVE Alone /\ Mine
  BY <1>1, <1>3, <1>15 DEF Compare
<1>16. ASSUME Lock(p) PROVE Alone /\ Mine
  <2>1. Mine
    BY <1>10, <1>16 DEF Lock
  <2>2. /\ holder[t] \in {p, Free}
        /\ \E x : holder' = [holder EXCEPT ![t] = x]
        /\ txn' = txn /\ root' = root
    BY <1>16 DEF Lock
  <2> QED BY <1>4, <2>1, <2>2
<1>17. ASSUME Recover(p) PROVE Alone /\ Mine
  <2>1. Mine
    BY <1>2, <1>5, <1>10, <1>17 DEF Recover
  <2>2. holder' = holder \/ \E x : holder' = [holder EXCEPT ![t] = x]
    BY <1>2, <1>17 DEF Recover
  <2>3. txn' \in {txn, Proven(t), Unproven(t), Closed(t)} /\ root' = root
    BY <1>17 DEF Recover
  <2> QED BY <1>4, <1>7, <1>9, <1>17, <2>1, <2>2, <2>3 DEF Recover, At, Writing
<1>18. ASSUME Inspect(p) PROVE Alone /\ Mine
  <2>1. Mine
    BY <1>2, <1>5, <1>10, <1>18 DEF Inspect
  <2>2. /\ holder' = holder \/ \E x : holder' = [holder EXCEPT ![t] = x]
        /\ txn' = txn \/ \E x : txn' = [txn EXCEPT ![t] = x]
        /\ root' = root
    BY <1>2, <1>18 DEF Inspect
  <2> QED BY <1>4, <1>7, <1>18, <2>1, <2>2 DEF Inspect, At, Writing
<1>19. ASSUME Install(p) \/ RemoveBackup(p) \/ Settle(p) PROVE Alone /\ Mine
  <2>1. run[p].phase \in Committing
    BY <1>19 DEF Install, RemoveBackup, Settle, At, Committing
  <2>2. Mine
    BY <1>2, <1>5, <1>10, <1>19 DEF Install, RemoveBackup, Settle
  <2>3. holder' = holder \/ \E x : holder' = [holder EXCEPT ![t] = x]
    BY <1>2, <1>19 DEF Install, RemoveBackup, Settle
  <2>4. /\ txn' \in {txn, Proven(t), Unproven(t), Closed(t)}
        /\ root' = root \/ \E x : root' = [root EXCEPT ![t] = x]
    BY <1>19, <2>1, CommittingGives
  <2> QED BY <1>4, <1>7, <1>9, <2>1, <2>2, <2>3, <2>4 DEF Writing
<1>20. ASSUME Report(p) \/ Exit(p) PROVE Alone /\ Mine
  BY <1>3, <1>10, <1>20 DEF Report, Exit
<1>21. ASSUME Crash(p) PROVE Alone /\ Mine
  <2>1. \/ txn' = txn
        \/ \E u \in Targets : holder[u] = p /\ txn' \in {Unproven(u), Proven(u)}
    BY <1>21 DEF Crash
  <2>2. \A u \in Targets : holder[u] # p => txn'[u] = txn[u]
    BY <2>1 DEF Unproven, Proven, TypeInv
  <2>3. Alone
    BY <1>21, <2>2 DEF Crash, Alone
  <2> QED BY <1>10, <1>21, <2>3 DEF Crash
<1>22. Alone /\ Mine
  BY <1>11, <1>12, <1>13, <1>14, <1>15, <1>16, <1>17, <1>18, <1>19, <1>20, <1>21 DEF Step
<1>23. \A q \in Runs \ {p} : run'[q] = run[q]
  BY <1>22, BecomesGives DEF Mine, TypeInv
<1> QED BY <1>22, <1>23, RunsAreNotFree DEF Alone

(* Every value has its type; and a run that registers at its target's root  *)
(* holds that root's lock, and has journaled what it installs and settles   *)
(* (PreparedOutput::write, called by execute_target).                       *)
THEOREM TypesAndLocks == Spec => [](TypeInv /\ LockInv)
<1>1. Init => TypeInv /\ LockInv
  <2> SUFFICES ASSUME Init PROVE TypeInv /\ LockInv
    OBVIOUS
  <2>1. root \in [Targets -> Trees] /\ txn \in [Targets -> Transactions]
    BY DEF Init, Trees, Transactions
  <2>2. holder \in [Targets -> {Free} \cup Runs] /\ run \in [Runs -> Locals]
    BY NoRunIsTyped DEF Init
  <2>3. \A p \in Runs : run[p].phase = "idle"
    BY DEF Init, NoRun
  <2>4. past \in Seq(Projects) /\ past # <<>> /\ Len(past) \in Nat
    <3>1. PICK defs \in Catalogs, refs \in Uses : past = <<[defs |-> defs, refs |-> refs]>>
      BY DEF Init
    <3>2. [defs |-> defs, refs |-> refs] \in Projects
      BY DEF Projects
    <3> QED BY <3>1, <3>2
  <2>5. when \in [Runs -> [Files -> Nat]] /\ \A p \in Runs, f \in Files : when[p][f] \in 0..Len(past)
    BY <2>4 DEF Init, Unread
  <2> QED BY <2>1, <2>2, <2>3, <2>4, <2>5 DEF Init, TypeInv, LockInv, Working, Writing, Committing
<1>2. TypeInv /\ LockInv /\ [Next]_vars => TypeInv'
  <2> SUFFICES ASSUME TypeInv, LockInv, [Next]_vars PROVE TypeInv'
    OBVIOUS
  <2> DEFINE History == /\ past' \in Seq(Projects) /\ past' # <<>>
                        /\ when' \in [Runs -> [Files -> Nat]] /\ starts' \in Nat
                        /\ \A q \in Runs, f \in Files : when'[q][f] \in 0..Len(past')
             Pending == \A q \in Runs : run'[q].phase \in {"reading"} \cup Working => run'[q].todo # <<>>
  <2>1. ASSUME UNCHANGED history, UNCHANGED starts PROVE History
    BY <2>1 DEF history, TypeInv
  <2>2. ASSUME UNCHANGED root PROVE root' \in [Targets -> Trees]
    BY <2>2 DEF TypeInv
  <2>3. ASSUME UNCHANGED txn PROVE txn' \in [Targets -> Transactions]
    BY <2>3 DEF TypeInv
  <2>4. ASSUME UNCHANGED holder PROVE holder' \in [Targets -> {Free} \cup Runs]
    BY <2>4 DEF TypeInv
  <2>5. ASSUME UNCHANGED run PROVE run' \in [Runs -> Locals] /\ Pending
    BY <2>5 DEF TypeInv
  <2>6. ASSUME NEW p \in Runs, NEW r, Becomes(p, r), r \in Locals,
               r.phase \in {"reading"} \cup Working => r.todo # <<>>
        PROVE  run' \in [Runs -> Locals] /\ Pending
    BY <2>6, BecomesGives DEF TypeInv
  <2>7. ASSUME UNCHANGED outputs
        PROVE  /\ root' \in [Targets -> Trees] /\ txn' \in [Targets -> Transactions]
               /\ holder' \in [Targets -> {Free} \cup Runs]
    BY <2>2, <2>3, <2>4, <2>7 DEF outputs
  <2> HIDE DEF History, Pending
  <2>8. ASSUME History, root' \in [Targets -> Trees], txn' \in [Targets -> Transactions],
               holder' \in [Targets -> {Free} \cup Runs], run' \in [Runs -> Locals], Pending
        PROVE  TypeInv'
    BY <2>8 DEF TypeInv, History, Pending, Projects, Trees, Transactions, OpenTransactions, Locals,
                Runs, Targets
  <2>9. ASSUME NEW p \in Runs PROVE run[p] \in Locals /\ run[p].todo \in Seq(Targets)
    BY <2>9 DEF TypeInv, Locals
  <2>10. ASSUME NEW p \in Runs, Start(p) PROVE TypeInv'
    <3>1. PICK check \in BOOLEAN, todo \in {Delivery} \cup {<<t>> : t \in Operands} :
            Becomes(p, [NoRun EXCEPT !.phase = "reading", !.check = check, !.unread = Files,
                                     !.todo = todo, !.selected = {todo[i] : i \in DOMAIN todo}])
      BY <2>10 DEF Start
    <3>2. todo \in Seq(Targets) /\ todo # <<>>
      <4>1. \A t \in Operands : <<t>> \in Seq(Targets) /\ <<t>> # <<>>
        BY OperandsAssumption
      <4> QED BY <4>1, DeliveryAssumption
    <3>3. {todo[i] : i \in DOMAIN todo} \in SUBSET Targets
      BY <3>2
    <3> DEFINE r == [NoRun EXCEPT !.phase = "reading", !.check = check, !.unread = Files,
                                  !.todo = todo, !.selected = {todo[i] : i \in DOMAIN todo}]
    <3>4. r \in Locals /\ r.todo # <<>>
      BY <3>2, <3>3, NoRunIsTyped DEF Locals, Phases
    <3>5. run' \in [Runs -> Locals] /\ Pending
      BY <2>6, <3>1, <3>4
    <3>6. History
      BY <2>10, RunsAssumption DEF Start, history, History, TypeInv, Runs
    <3> QED BY <2>10, <2>7, <2>8, <3>5, <3>6 DEF Start
  <2>11. ASSUME NEW p \in Runs, ReducedError(p) PROVE run' \in [Runs -> Locals] /\ Pending
    <3> DEFINE r == [run[p] EXCEPT !.phase = "report", !.todo = <<>>, !.exit = 2]
    <3>1. <<>> \in Seq(Targets) /\ run[p] \in Locals /\ 2 \in 0..3 /\ "report" \in Phases
      BY <2>9 DEF Phases
    <3>2. r \in Locals
      BY <3>1 DEF Locals
    <3>3. r.phase \notin {"reading"} \cup Working
      BY <3>1 DEF Locals, Working, Writing, Committing
    <3> QED BY <2>6, <2>11, <3>2, <3>3 DEF ReducedError
  <2>12. ASSUME NEW p \in Runs, NEW phase \in Working, run[p].phase \in {"reading"} \cup Working,
                Goto(p, phase)
         PROVE  run' \in [Runs -> Locals] /\ Pending
    <3> DEFINE r == [run[p] EXCEPT !.phase = phase]
    <3>1. run[p] \in Locals /\ run[p].todo # <<>> /\ phase \in Phases
      BY <2>12 DEF TypeInv, Phases
    <3>2. r \in Locals
      BY <3>1 DEF Locals
    <3>3. r.todo # <<>>
      BY <3>1 DEF Locals
    <3> QED BY <2>6, <2>12, <3>2, <3>3 DEF Goto
  <2>13. ASSUME NEW p \in Runs, ReadDefinitions(p) \/ ReadReferences(p) PROVE TypeInv'
    <3>1. run[p].todo # <<>> /\ run' \in [Runs -> Locals]
          /\ (\A q \in Runs \ {p} : run'[q] = run[q]) /\ run'[p].todo = run[p].todo
      BY <2>13, ReadingGives DEF TypeInv
    <3>2. Pending
      BY <3>1 DEF Pending, TypeInv
    <3>3. UNCHANGED <<past, outputs, bounds>>
          /\ \E f \in run[p].unread : when' \in {when, [when EXCEPT ![p][f] = Len(past)]}
      BY <2>13, ReadingGives
    <3>4. PICK f \in Files : when' \in {when, [when EXCEPT ![p][f] = Len(past)]}
      BY <2>9, <3>3 DEF Locals
    <3>5. Len(past) \in Nat \ {0} /\ past' = past /\ starts' = starts
      BY <3>3, ProjectIsTyped DEF bounds
    <3>6. History
      <4>1. CASE when' = when
        BY <3>5, <4>1 DEF History, TypeInv
      <4>2. CASE when' = [when EXCEPT ![p][f] = Len(past)]
        <5>1. \A q \in Runs, g \in Files :
                when'[q][g] = IF q = p /\ g = f THEN Len(past) ELSE when[q][g]
          BY <4>2 DEF TypeInv
        <5>2. when' \in [Runs -> [Files -> Nat]]
          BY <3>5, <4>2 DEF TypeInv
        <5>3. \A q \in Runs, g \in Files : when'[q][g] \in 0..Len(past)
          BY <3>5, <5>1 DEF TypeInv
        <5>4. past' \in Seq(Projects) /\ past' # <<>> /\ starts' \in Nat /\ Len(past') = Len(past)
          BY <3>5 DEF TypeInv
        <5> QED BY <5>2, <5>3, <5>4 DEF History
      <4> QED BY <3>4, <4>1, <4>2
    <3> QED BY <2>7, <2>8, <3>1, <3>2, <3>3, <3>6
  <2>14. ASSUME NEW p \in Runs, LinkingFails(p) PROVE TypeInv'
    BY <2>14, <2>1, <2>7, <2>8, <2>11 DEF LinkingFails, bounds
  <2>15. ASSUME NEW p \in Runs, Prepare(p) PROVE TypeInv'
    <3>1. run[p].phase = "reading" /\ History
      BY <2>1, <2>15 DEF Prepare, At, bounds
    <3>2. CASE Goto(p, "target")
      BY <2>15, <2>7, <2>8, <2>12, <3>1, <3>2 DEF Prepare, Working
    <3>3. CASE ReducedError(p)
      BY <2>15, <2>7, <2>8, <2>11, <3>1, <3>3 DEF Prepare
    <3> DEFINE results == [t \in Targets |-> IF t \in run[p].selected THEN Blocked ELSE NoResult]
               r == [run[p] EXCEPT !.phase = "report", !.todo = <<>>, !.result = results]
    <3>4. CASE Becomes(p, r)
      <4>1. results \in [Targets -> Results] /\ <<>> \in Seq(Targets)
        BY DEF Blocked, NoResult, Results, Statuses, States
      <4> HIDE DEF results
      <4>2. run[p] \in Locals /\ "report" \in Phases
        BY <2>9 DEF Phases
      <4>3. r \in Locals
        BY <4>1, <4>2 DEF Locals
      <4>4. r.phase \notin {"reading"} \cup Working
        BY <4>2 DEF Locals, Working, Writing, Committing
      <4> QED BY <2>15, <2>6, <2>7, <2>8, <3>1, <3>4, <4>3, <4>4 DEF Prepare
    <3> QED BY <2>15, <3>2, <3>3, <3>4 DEF Prepare
  <2>16. ASSUME NEW p \in Runs, run[p].phase \in Working,
                NEW status \in Statuses, NEW state \in States, NEW found \in Trees, NEW left \in Trees,
                Record(p, status, state, found, left)
         PROVE  run' \in [Runs -> Locals] /\ Pending
    <3>1. run' \in [Runs -> Locals] /\ \A q \in Runs \ {p} : run'[q] = run[q]
      BY <2>16, RecordGives
    <3>2. run'[p].phase \in {"reading"} \cup Working => run'[p].todo # <<>>
      BY <2>16, RecordGives
    <3> QED BY <3>1, <3>2 DEF TypeInv, Pending
  <2>17. ASSUME NEW p \in Runs, FailsEarly(p) PROVE TypeInv'
    <3>1. Absent \in Trees
      BY DEF Trees
    <3>2. run' \in [Runs -> Locals] /\ Pending
      BY <2>16, <2>17, <3>1 DEF FailsEarly, Fails, At, Working, Statuses, States
    <3> QED BY <2>17, <2>1, <2>7, <2>8, <3>2 DEF FailsEarly, bounds
  <2>18. ASSUME NEW p \in Runs, Compare(p) PROVE TypeInv'
    <3> DEFINE t == Head(run[p].todo)
    <3>1. run[p].phase \in Working /\ History
      BY <2>1, <2>18 DEF Compare, At, Working, bounds
    <3>2. t \in Targets
      BY <3>1, WantedIsATree
    <3>3. Visible(t) \subseteq Trees
      BY <3>2 DEF Visible, TypeInv, Trees
    <3>4. PICK seen \in Visible(t), status \in {"error", "matched", "different"} :
            Record(p, status, "unchanged", seen, seen)
      BY <2>18 DEF Compare
    <3>5. run' \in [Runs -> Locals] /\ Pending
      BY <2>16, <3>1, <3>3, <3>4 DEF Statuses, States
    <3> QED BY <2>18, <2>7, <2>8, <3>1, <3>5 DEF Compare
  <2>19. ASSUME NEW p \in Runs, Lock(p) PROVE TypeInv'
    <3> DEFINE t == Head(run[p].todo)
               r == [run[p] EXCEPT !.phase = "recover", !.found = [run[p].found EXCEPT ![t] = root[t]]]
    <3>1. run[p].phase \in Working /\ History
      BY <2>1, <2>19 DEF Lock, At, Working, bounds
    <3>2. t \in Targets
      BY <3>1, WantedIsATree
    <3>3. [run[p].found EXCEPT ![t] = root[t]] \in [Targets -> Trees]
      BY <2>9, <3>2 DEF TypeInv, Locals
    <3>4. run[p] \in Locals /\ run[p].todo # <<>> /\ "recover" \in Phases
      BY <3>1 DEF TypeInv, Phases, Working, Writing
    <3>5. r \in Locals
      BY <3>3, <3>4 DEF Locals
    <3>6. r.todo # <<>>
      BY <3>4 DEF Locals
    <3>7. run' \in [Runs -> Locals] /\ Pending
      BY <2>6, <2>19, <3>5, <3>6 DEF Lock
    <3>8. holder' \in [Targets -> {Free} \cup Runs]
      BY <2>19, <3>2 DEF Lock, TypeInv
    <3> QED BY <2>19, <2>2, <2>3, <2>8, <3>1, <3>7, <3>8 DEF Lock
  <2>20. ASSUME NEW p \in Runs, run[p].phase \in Working, NEW status \in {"unchanged", "written", "error"},
                NEW state \in States, Registered(p, status, state), History,
                root' \in [Targets -> Trees], txn' \in [Targets -> Transactions]
         PROVE  TypeInv'
    BY <2>8, <2>20, RegisteredIsTyped DEF Statuses, Pending
  <2>21. ASSUME NEW p \in Runs, Recover(p) PROVE TypeInv'
    <3> DEFINE t == Head(run[p].todo)
               effect == IF root[t] = txn[t].old THEN "restored" ELSE "updated"
    <3>1. run[p].phase \in Working /\ t \in Targets
      BY <2>21, WantedIsATree DEF Recover, At, Working, Writing
    <3>2. root' \in [Targets -> Trees] /\ History
      BY <2>21, <2>1, <2>2 DEF Recover, bounds
    <3>3. txn' \in [Targets -> Transactions]
      <4>1. CASE txn[t] = None
        BY <2>3, <2>21, <4>1 DEF Recover
      <4>2. CASE txn[t] # None
        BY <2>21, <3>1, <4>2, TransactionGives DEF Recover
      <4> QED BY <4>1, <4>2
    <3>4. CASE Goto(p, "inspect") /\ UNCHANGED holder
      BY <2>4, <2>8, <2>12, <3>1, <3>2, <3>3, <3>4 DEF Working, Writing
    <3>5. effect \in States
      BY DEF States
    <3> HIDE DEF effect
    <3>6. CASE Becomes(p, [run[p] EXCEPT !.phase = "inspect", !.effect = effect]) /\ UNCHANGED holder
      <4> DEFINE r == [run[p] EXCEPT !.phase = "inspect", !.effect = effect]
      <4>1. run[p] \in Locals /\ run[p].todo # <<>> /\ "inspect" \in Phases
        BY <3>1 DEF TypeInv, Phases, Working, Writing
      <4>2. r \in Locals
        BY <3>5, <4>1 DEF Locals
      <4>3. r.todo # <<>>
        BY <4>1 DEF Locals
      <4>4. run' \in [Runs -> Locals] /\ Pending
        BY <2>6, <3>6, <4>2, <4>3
      <4> QED BY <2>4, <2>8, <3>2, <3>3, <3>6, <4>4
    <3>7. ASSUME NEW state \in {"unchanged", "indeterminate", effect}, Registered(p, "error", state)
          PROVE  TypeInv'
      BY <2>20, <3>1, <3>2, <3>3, <3>5, <3>7 DEF States
    <3> QED BY <2>21, <3>4, <3>6, <3>7 DEF Recover, effect
  <2>22. ASSUME NEW p \in Runs, Inspect(p) PROVE TypeInv'
    <3> DEFINE t == Head(run[p].todo)
    <3>1. run[p].phase \in Working
      BY <2>22 DEF Inspect, At, Working, Writing
    <3>2. root' \in [Targets -> Trees] /\ History
      BY <2>22, <2>1, <2>2 DEF Inspect, bounds
    <3>3. ASSUME NEW status \in {"unchanged", "error"}, Registered(p, status, run[p].effect),
                 UNCHANGED txn
          PROVE  TypeInv'
      <4>1. run[p].effect \in States
        BY <2>9 DEF Locals
      <4> QED BY <2>3, <2>20, <3>1, <3>2, <3>3, <4>1
    <3>4. CASE txn' = [txn EXCEPT ![t] = Open(root[t], Wanted(p))] /\ Goto(p, "commit") /\ UNCHANGED holder
      <4>1. Open(root[t], Wanted(p)) \in Transactions
        BY <3>1, WantedIsATree DEF Open, Transactions, OpenTransactions, TypeInv
      <4>2. txn' \in [Targets -> Transactions]
        BY <3>4, <4>1 DEF TypeInv
      <4> QED BY <2>4, <2>8, <2>12, <3>1, <3>2, <3>4, <4>2 DEF Working, Writing, Committing
    <3> QED BY <2>22, <3>3, <3>4 DEF Inspect
  <2>23. ASSUME NEW p \in Runs, Install(p) \/ RemoveBackup(p) \/ Settle(p) PROVE TypeInv'
    <3> DEFINE t == Head(run[p].todo)
    <3>1. run[p].phase \in Committing /\ run[p].phase \in Working
      BY <2>23 DEF Install, RemoveBackup, Settle, At, Working, Writing, Committing
    <3>2. /\ t \in Targets /\ txn[t] \in OpenTransactions
          /\ txn' \in {txn, Proven(t), Unproven(t), Closed(t)}
          /\ \/ UNCHANGED root
             \/ \E tree \in Remains(txn[t].old) \cup {txn[t].old, txn[t].new} :
                  root' = [root EXCEPT ![t] = tree]
      BY <2>23, <3>1, CommittingGives
    <3>3. Remains(txn[t].old) \cup {txn[t].old, txn[t].new} \subseteq Trees
      BY <3>2 DEF OpenTransactions, Remains, Trees
    <3>4. root' \in [Targets -> Trees]
      BY <3>2, <3>3 DEF TypeInv
    <3>5. txn[t] # None
      BY <3>1 DEF LockInv
    <3>6. txn' \in [Targets -> Transactions]
      BY <3>2, <3>5, TransactionGives
    <3>7. History
      BY <2>1, <2>23 DEF Install, RemoveBackup, Settle, bounds
    <3>8. CASE (\E phase \in Committing : Goto(p, phase)) /\ UNCHANGED holder
      BY <2>4, <2>8, <2>12, <3>1, <3>4, <3>6, <3>7, <3>8 DEF Working, Writing
    <3>9. CASE \E status \in {"written", "error"}, state \in States : Registered(p, status, state)
      BY <2>20, <3>1, <3>4, <3>6, <3>7, <3>9
    <3> QED BY <2>23, <3>8, <3>9 DEF Install, RemoveBackup, Settle, Committing, States
  <2>24. ASSUME NEW p \in Runs, Report(p) PROVE TypeInv'
    <3> DEFINE exit == IF run[p].exit = 2 THEN 2 ELSE ExitOf(run[p].result)
               r == [run[p] EXCEPT !.phase = "reported", !.exit = exit]
    <3>1. exit \in 0..3
      BY DEF ExitOf
    <3> HIDE DEF exit
    <3>2. run[p] \in Locals /\ "reported" \in Phases
      BY <2>9 DEF Phases
    <3>3. r \in Locals
      BY <3>1, <3>2 DEF Locals
    <3>4. r.phase \notin {"reading"} \cup Working
      BY <3>2 DEF Locals, Working, Writing, Committing
    <3>5. Becomes(p, r)
      BY <2>24 DEF Report, exit
    <3> QED BY <2>24, <2>1, <2>6, <2>7, <2>8, <3>4, <3>5, <3>3 DEF Report, bounds
  <2>25. ASSUME NEW p \in Runs, NEW how \in {"done", "dead"}, Becomes(p, Over(how))
         PROVE  run' \in [Runs -> Locals] /\ Pending
    <3>1. Over(how).phase = how
      BY DEF Over, NoRun
    <3> QED BY <2>6, <2>25, <3>1, NoRunIsTyped DEF Working, Writing, Committing
  <2>26. ASSUME NEW p \in Runs, Exit(p) PROVE TypeInv'
    BY <2>26, <2>1, <2>7, <2>8, <2>25 DEF Exit, bounds
  <2>27. ASSUME NEW p \in Runs, Crash(p) PROVE TypeInv'
    <3>1. holder' \in [Targets -> {Free} \cup Runs]
      BY <2>27 DEF Crash, TypeInv
    <3>2. \/ txn' = txn
          \/ \E t \in Targets : txn[t] # None /\ txn' \in {Unproven(t), Proven(t)}
      BY <2>27 DEF Crash
    <3>3. txn' \in [Targets -> Transactions]
      BY <2>3, <3>2, TransactionGives
    <3> QED BY <2>27, <2>1, <2>2, <2>8, <2>25, <3>1, <3>3 DEF Crash
  <2>28. CASE EditSources
    <3>1. PICK defs \in Catalogs, refs \in Uses : past' = Append(past, [defs |-> defs, refs |-> refs])
      BY <2>28 DEF EditSources
    <3>2. /\ past' \in Seq(Projects) /\ past' # <<>>
          /\ Len(past) \in Nat /\ Len(past') = Len(past) + 1
      BY <3>1 DEF TypeInv, Projects
    <3>3. History
      BY <2>28, <3>2 DEF EditSources, History, TypeInv
    <3> QED BY <2>28, <2>5, <2>7, <2>8, <3>3 DEF EditSources
  <2>29. CASE UNCHANGED vars
    BY <2>29, <2>1, <2>5, <2>7, <2>8 DEF vars, bounds
  <2> QED
    BY <2>10, <2>13, <2>14, <2>15, <2>17, <2>18, <2>19, <2>21, <2>22, <2>23, <2>24, <2>26,
       <2>27, <2>28, <2>29 DEF Next, Step, Quiescent
<1>3. TypeInv /\ LockInv /\ [Next]_vars => LockInv'
  <2> SUFFICES ASSUME TypeInv, LockInv, [Next]_vars PROVE LockInv'
    OBVIOUS
  <2> DEFINE Holds(q) == LET t == Head(run[q].todo)
                         IN  /\ run[q].phase \in Writing => holder[t] = q /\ ~run[q].check
                             /\ run[q].phase \in Committing => txn[t] # None
  <2>1. ASSUME NEW p \in Runs, Start(p) \/ Step(p) \/ Crash(p), Holds(p)'
        PROVE  LockInv'
    <3> SUFFICES ASSUME NEW q \in Runs \ {p} PROVE Holds(q)'
      BY <2>1 DEF LockInv, Runs
    <3>1. run'[q] = run[q]
      BY <2>1, StepIsLocal
    <3>2. CASE run[q].phase \in Writing
      <4>1. Head(run[q].todo) \in Targets /\ holder[Head(run[q].todo)] = q
        BY <3>2, WantedIsATree DEF LockInv, Working
      <4> QED BY <2>1, <3>1, <3>2, <4>1, StepIsLocal DEF LockInv
    <3>3. CASE run[q].phase \notin Writing
      BY <3>1, <3>3 DEF Writing
    <3> QED BY <3>2, <3>3
  <2>2. ASSUME NEW p \in Runs, run'[p].phase \notin Writing PROVE Holds(p)'
    BY <2>2 DEF Writing
  <2>3. ASSUME NEW p \in Runs, NEW r, Becomes(p, r) PROVE run'[p] = r /\ run[p] \in Locals
    BY <2>3, BecomesGives DEF TypeInv
  <2>4. ASSUME NEW p \in Runs, NEW status, NEW state, NEW found, NEW left,
               Record(p, status, state, found, left)
        PROVE  Holds(p)'
    BY <2>2, <2>4, RecordEndsTheTarget DEF Writing, Committing
  <2>5. ASSUME NEW p \in Runs, NEW status, NEW state, Registered(p, status, state)
        PROVE  Holds(p)'
    BY <2>4, <2>5, RegisteredRecords
  <2>6. ASSUME NEW p \in Runs, NEW phase, Goto(p, phase)
        PROVE  /\ run'[p].phase = phase /\ run'[p].todo = run[p].todo
               /\ run'[p].check = run[p].check
    BY <2>3, <2>6 DEF Goto, Locals
  <2>7. ASSUME NEW p \in Runs, ReducedError(p) PROVE Holds(p)'
    <3>1. run'[p].phase = "report"
      BY <2>7 DEF Becomes, TypeInv, ReducedError, Locals
    <3> QED BY <2>2, <3>1 DEF Writing, Committing
  <2>8. ASSUME NEW p \in Runs, NEW how \in {"done", "dead"}, Becomes(p, Over(how)) PROVE Holds(p)'
    BY <2>2, <2>3, <2>8 DEF Over, NoRun, Writing, Committing
  <2>9. ASSUME NEW p \in Runs, run[p].phase \in Writing
        PROVE  Head(run[p].todo) \in Targets /\ Holds(p)
    BY <2>9, WantedIsATree DEF Working, LockInv
  <2> HIDE DEF Holds
  <2>10. ASSUME NEW p \in Runs, Start(p) PROVE Holds(p)'
    <3>1. run'[p].phase = "reading"
      BY <2>10 DEF Becomes, TypeInv, Start, NoRun
    <3> QED BY <2>2, <3>1 DEF Writing, Committing
  <2>11. ASSUME NEW p \in Runs, ReadDefinitions(p) \/ ReadReferences(p) PROVE Holds(p)'
    <3>1. run'[p].phase = "reading"
      BY <2>11, ReadingGives
    <3> QED BY <2>2, <3>1 DEF Writing, Committing
  <2>12. ASSUME NEW p \in Runs, LinkingFails(p) \/ Prepare(p) PROVE Holds(p)'
    <3>1. CASE ReducedError(p)
      BY <2>7, <3>1
    <3>2. CASE Goto(p, "target")
      BY <2>2, <2>6, <3>2 DEF Writing, Committing
    <3>3. ASSUME NEW results,
                 Becomes(p, [run[p] EXCEPT !.phase = "report", !.todo = <<>>, !.result = results])
          PROVE  Holds(p)'
      <4>1. run'[p].phase = "report"
        BY <3>3 DEF Becomes, TypeInv, Locals
      <4> QED BY <2>2, <4>1 DEF Writing, Committing
    <3> QED BY <2>12, <3>1, <3>2, <3>3 DEF LinkingFails, Prepare
  <2>13. ASSUME NEW p \in Runs, FailsEarly(p) \/ Compare(p) PROVE Holds(p)'
    BY <2>4, <2>13 DEF FailsEarly, Fails, Compare
  <2>14. ASSUME NEW p \in Runs, Lock(p) PROVE Holds(p)'
    <3> DEFINE t == Head(run[p].todo)
    <3>1. t \in Targets
      BY <2>14, WantedIsATree DEF Lock, At, Working
    <3>2. run'[p].phase = "recover" /\ run'[p].todo = run[p].todo /\ run'[p].check = run[p].check
      BY <2>14 DEF Becomes, TypeInv, Lock, Locals
    <3>3. holder'[t] = p /\ ~run[p].check
      BY <2>14, <3>1 DEF Lock, TypeInv
    <3> QED BY <3>2, <3>3 DEF Holds, Committing
  <2>15. ASSUME NEW p \in Runs, Recover(p) PROVE Holds(p)'
    <3>1. Holds(p)
      BY <2>9, <2>15 DEF Recover, At, Writing
    <3>2. run[p].phase = "recover"
      BY <2>15 DEF Recover, At
    <3>3. CASE \E state : Registered(p, "error", state)
      BY <2>5, <3>3
    <3>4. CASE Goto(p, "inspect") /\ UNCHANGED holder
      BY <2>6, <3>1, <3>2, <3>4 DEF Holds, Writing, Committing
    <3>5. ASSUME NEW effect, UNCHANGED holder,
                 Becomes(p, [run[p] EXCEPT !.phase = "inspect", !.effect = effect])
          PROVE  Holds(p)'
      <4>1. /\ run'[p].phase = "inspect" /\ run'[p].todo = run[p].todo
            /\ run'[p].check = run[p].check
        BY <3>5 DEF Becomes, TypeInv, Locals
      <4> QED BY <3>1, <3>2, <3>5, <4>1 DEF Holds, Writing, Committing
    <3> QED BY <2>15, <3>3, <3>4, <3>5 DEF Recover
  <2>16. ASSUME NEW p \in Runs, Inspect(p) PROVE Holds(p)'
    <3> DEFINE t == Head(run[p].todo)
    <3>1. Holds(p) /\ t \in Targets
      BY <2>9, <2>16 DEF Inspect, At, Writing
    <3>2. run[p].phase = "inspect"
      BY <2>16 DEF Inspect, At
    <3>3. CASE \E status, state : Registered(p, status, state)
      BY <2>5, <3>3
    <3>4. CASE txn' = [txn EXCEPT ![t] = Open(root[t], Wanted(p))] /\ Goto(p, "commit") /\ UNCHANGED holder
      <4>1. txn'[t] # None
        BY <3>1, <3>4 DEF TypeInv, Open, None
      <4> QED BY <2>6, <3>1, <3>2, <3>4, <4>1 DEF Holds, Writing
    <3> QED BY <2>16, <3>3, <3>4 DEF Inspect
  <2>17. ASSUME NEW p \in Runs, Install(p) \/ RemoveBackup(p) \/ Settle(p) PROVE Holds(p)'
    <3> DEFINE t == Head(run[p].todo)
    <3>1. run[p].phase \in Committing /\ run[p].phase \in Writing
      BY <2>17 DEF Install, RemoveBackup, Settle, At, Committing, Writing
    <3>2. Holds(p) /\ t \in Targets
      BY <2>9, <3>1
    <3>3. CASE \E status, state : Registered(p, status, state)
      BY <2>5, <3>3
    <3>4. CASE (\E phase \in Committing : Goto(p, phase)) /\ UNCHANGED holder /\ txn' \in {txn, Unproven(t)}
      <4>1. txn'[t] # None
        <5>1. txn[t] \in OpenTransactions
          BY <2>17, <3>1, CommittingGives
        <5>2. txn'[t] = txn[t] \/ txn'[t] = [txn[t] EXCEPT !.provable = FALSE]
          BY <3>2, <3>4 DEF Unproven, TypeInv
        <5> QED BY <5>1, <5>2 DEF OpenTransactions, None
      <4> QED BY <2>6, <3>1, <3>2, <3>4, <4>1 DEF Holds
    <3> QED BY <2>17, <3>3, <3>4 DEF Install, RemoveBackup, Settle, Committing
  <2>18. ASSUME NEW p \in Runs, Report(p) PROVE Holds(p)'
    <3>1. run'[p].phase = "reported"
      BY <2>18 DEF Becomes, TypeInv, Report, Locals
    <3> QED BY <2>2, <3>1 DEF Writing, Committing
  <2>19. ASSUME NEW p \in Runs, Exit(p) \/ Crash(p) PROVE Holds(p)'
    BY <2>8, <2>19 DEF Exit, Crash
  <2>20. CASE EditSources \/ UNCHANGED vars
    BY <2>20 DEF EditSources, vars, outputs, LockInv
  <2> QED
    BY <2>1, <2>10, <2>11, <2>12, <2>13, <2>14, <2>15, <2>16, <2>17, <2>18, <2>19, <2>20
       DEF Next, Step, Quiescent
<1> QED BY <1>1, <1>2, <1>3, PTL DEF Spec

-----------------------------------------------------------------------------
(* A run at work either has a result for the target at hand, or goes on     *)
(* with it and with the same sources and results.                           *)
LEMMA WorkGives ==
  ASSUME TypeInv, LockInv, NEW p \in Runs, run[p].phase \in Working, Step(p)
  PROVE  \/ \E status \in Statuses \ {"none", "blocked"}, state \in States,
               found \in Trees, left \in Trees : Record(p, status, state, found, left)
         \/ /\ run'[p].phase \in Writing
            /\ run'[p].todo = run[p].todo /\ run'[p].check = run[p].check
            /\ run'[p].selected = run[p].selected
            /\ run'[p].catalog = run[p].catalog /\ run'[p].uses = run[p].uses
            /\ run'[p].exit = run[p].exit /\ run'[p].result = run[p].result
            /\ run'[p].left = run[p].left
            /\ \A t \in Targets \ {Head(run[p].todo)} : run'[p].found[t] = run[p].found[t]
<1> DEFINE t == Head(run[p].todo)
           Recorded == \E status \in Statuses \ {"none", "blocked"}, state \in States,
                         found \in Trees, left \in Trees : Record(p, status, state, found, left)
           GoesOn ==
             /\ run'[p].phase \in Writing
             /\ run'[p].todo = run[p].todo /\ run'[p].check = run[p].check
             /\ run'[p].selected = run[p].selected
             /\ run'[p].catalog = run[p].catalog /\ run'[p].uses = run[p].uses
             /\ run'[p].exit = run[p].exit /\ run'[p].result = run[p].result
             /\ run'[p].left = run[p].left
             /\ \A u \in Targets \ {t} : run'[p].found[u] = run[p].found[u]
<1>1. t \in Targets /\ run[p] \in Locals
  BY WantedIsATree DEF TypeInv
<1>2. root \in [Targets -> Trees]
  BY DEF TypeInv
<1>3. ASSUME NEW status \in Statuses \ {"none", "blocked"}, NEW state \in States,
             root'[t] \in Trees, Registered(p, status, state)
      PROVE  Recorded
  <2>1. run[p].found[t] \in Trees
    BY <1>1 DEF Locals
  <2> QED BY <1>3, <2>1, RegisteredRecords
<1>4. ASSUME NEW phase \in Writing, Goto(p, phase) PROVE GoesOn
  BY <1>1, <1>4 DEF Goto, Becomes, TypeInv, Locals
<1>5. CASE \/ ReadDefinitions(p) \/ ReadReferences(p) \/ LinkingFails(p) \/ Prepare(p)
           \/ Report(p) \/ Exit(p)
  BY <1>5 DEF ReadDefinitions, ReadReferences, LinkingFails, Prepare, Report, Exit, At, Working,
              Writing, Committing
<1>6. CASE FailsEarly(p)
  <2>1. Absent \in Trees
    BY DEF Trees
  <2> QED BY <1>6, <2>1 DEF FailsEarly, Fails, Statuses, States
<1>7. CASE Compare(p)
  <2>1. Visible(t) \subseteq Trees
    BY <1>1 DEF Visible, TypeInv, Trees
  <2>2. PICK seen \in Visible(t), status \in {"error", "matched", "different"} :
          Record(p, status, "unchanged", seen, seen)
    BY <1>7 DEF Compare
  <2> QED BY <2>1, <2>2 DEF Statuses, States
<1>8. CASE Lock(p)
  <2> DEFINE there == [run[p].found EXCEPT ![t] = root[t]]
  <2>1. Becomes(p, [run[p] EXCEPT !.phase = "recover", !.found = there])
    BY <1>8 DEF Lock
  <2>2. \A u \in Targets \ {t} : there[u] = run[p].found[u]
    BY <1>1 DEF Locals
  <2> HIDE DEF there
  <2>3. GoesOn
    BY <1>1, <2>1, <2>2 DEF Becomes, TypeInv, Locals, Writing
  <2> QED BY <2>3
<1>9. CASE Recover(p)
  <2> DEFINE effect == IF root[t] = txn[t].old THEN "restored" ELSE "updated"
  <2>1. root'[t] \in Trees
    BY <1>1, <1>2, <1>9 DEF Recover
  <2>2. CASE Goto(p, "inspect")
    BY <1>4, <2>2 DEF Writing
  <2>3. CASE Becomes(p, [run[p] EXCEPT !.phase = "inspect", !.effect = effect])
    <3> HIDE DEF effect
    <3>1. GoesOn
      BY <1>1, <2>3 DEF Becomes, TypeInv, Locals, Writing
    <3> QED BY <3>1
  <2>4. CASE \E state \in {"unchanged", "indeterminate", effect} : Registered(p, "error", state)
    BY <1>3, <2>1, <2>4 DEF Statuses, States
  <2> QED BY <1>9, <2>2, <2>3, <2>4 DEF Recover
<1>10. CASE Inspect(p)
  <2>1. root'[t] \in Trees /\ run[p].effect \in States
    BY <1>1, <1>2, <1>10 DEF Inspect, Locals
  <2>2. CASE Goto(p, "commit")
    BY <1>4, <2>2 DEF Writing, Committing
  <2>3. CASE \E status \in {"unchanged", "error"} : Registered(p, status, run[p].effect)
    BY <1>3, <2>1, <2>3 DEF Statuses
  <2> QED BY <1>10, <2>2, <2>3 DEF Inspect
<1>11. CASE Install(p) \/ RemoveBackup(p) \/ Settle(p)
  <2>1. run[p].phase \in Committing
    BY <1>11 DEF Install, RemoveBackup, Settle, At, Committing
  <2>2. /\ txn[t] \in OpenTransactions
        /\ \/ UNCHANGED root
           \/ \E tree \in Remains(txn[t].old) \cup {txn[t].old, txn[t].new} :
                root' = [root EXCEPT ![t] = tree]
    BY <1>11, <2>1, CommittingGives
  <2>3. Remains(txn[t].old) \cup {txn[t].old, txn[t].new} \subseteq Trees
    BY <2>2 DEF OpenTransactions, Remains, Trees
  <2>4. root'[t] \in Trees
    BY <1>1, <1>2, <2>2, <2>3
  <2>5. CASE \E phase \in Committing : Goto(p, phase)
    BY <1>4, <2>5 DEF Writing
  <2>6. CASE \E status \in {"written", "error"}, state \in States : Registered(p, status, state)
    BY <1>3, <2>4, <2>6 DEF Statuses
  <2> QED BY <1>11, <2>5, <2>6 DEF Install, RemoveBackup, Settle, Committing, States
<1> QED
  BY <1>5, <1>6, <1>7, <1>8, <1>9, <1>10, <1>11 DEF Step

(* Roots only ever get a tree of an open transaction, whole or torn, and    *)
(* transactions the tree their run wants.                                   *)
LEMMA OutputsGive ==
  ASSUME TypeInv, LockInv, [Next]_vars, NEW t \in Targets
  PROVE  /\ \/ root'[t] \in {root[t]} \cup Torn
            \/ txn[t] # None /\ root'[t] \in {txn[t].old, txn[t].new}
         /\ \/ txn'[t] = None
            \/ txn[t] # None /\ txn'[t].old = txn[t].old /\ txn'[t].new = txn[t].new
            \/ \E p \in Runs : /\ run[p].phase = "inspect" /\ t = Head(run[p].todo)
                              /\ txn'[t] = Open(root[t], Wanted(p))
<1> DEFINE Rooted == \/ root'[t] \in {root[t]} \cup Torn
                     \/ txn[t] # None /\ root'[t] \in {txn[t].old, txn[t].new}
           Journaled == \/ txn'[t] = None
                        \/ txn[t] # None /\ txn'[t].old = txn[t].old /\ txn'[t].new = txn[t].new
                        \/ \E p \in Runs : /\ run[p].phase = "inspect" /\ t = Head(run[p].todo)
                                          /\ txn'[t] = Open(root[t], Wanted(p))
<1>1. ASSUME UNCHANGED root PROVE Rooted
  BY <1>1
<1>2. ASSUME txn'[t] = txn[t] PROVE Journaled
  BY <1>2
<1>3. ASSUME NEW u \in Targets, txn[u] # None, txn' \in {txn, Proven(u), Unproven(u), Closed(u)}
      PROVE  Journaled
  <2>1. CASE t = u
    BY <1>3, <2>1, TransactionGives
  <2>2. CASE t # u
    BY <1>2, <1>3, <2>2, TransactionGives
  <2> QED BY <2>1, <2>2
<1> HIDE DEF Journaled
<1>4. CASE UNCHANGED vars \/ EditSources \/ Quiescent
  BY <1>1, <1>2, <1>4 DEF vars, EditSources, Quiescent, outputs
<1>5. ASSUME NEW p \in Runs,
             \/ Start(p) \/ ReadDefinitions(p) \/ ReadReferences(p) \/ LinkingFails(p) \/ Prepare(p)
             \/ FailsEarly(p) \/ Compare(p) \/ Lock(p) \/ Report(p) \/ Exit(p)
      PROVE  Rooted /\ Journaled
  <2>1. UNCHANGED <<root, txn>>
    BY <1>5 DEF Start, ReadDefinitions, ReadReferences, LinkingFails, Prepare, FailsEarly, Compare,
                Lock, Report, Exit, outputs
  <2> QED BY <1>1, <1>2, <2>1
<1>6. ASSUME NEW p \in Runs, Crash(p) PROVE Rooted /\ Journaled
  <2>1. \/ txn' = txn
        \/ \E u \in Targets : txn[u] # None /\ txn' \in {Unproven(u), Proven(u)}
    BY <1>6 DEF Crash
  <2> QED BY <1>1, <1>2, <1>3, <1>6, <2>1 DEF Crash
<1>7. ASSUME NEW p \in Runs, Recover(p) PROVE Rooted /\ Journaled
  <2>1. Head(run[p].todo) \in Targets
    BY <1>7, WantedIsATree DEF Recover, At, Working, Writing
  <2> QED BY <1>1, <1>2, <1>3, <1>7, <2>1 DEF Recover
<1>8. ASSUME NEW p \in Runs, Inspect(p) PROVE Rooted /\ Journaled
  <2>1. CASE UNCHANGED txn
    BY <1>1, <1>2, <1>8, <2>1 DEF Inspect
  <2>2. CASE txn' = [txn EXCEPT ![Head(run[p].todo)] = Open(root[Head(run[p].todo)], Wanted(p))]
    BY <1>1, <1>8, <2>2 DEF Inspect, At, TypeInv, Journaled
  <2> QED BY <1>8, <2>1, <2>2 DEF Inspect
<1>9. ASSUME NEW p \in Runs, Install(p) \/ RemoveBackup(p) \/ Settle(p) PROVE Rooted /\ Journaled
  <2> DEFINE u == Head(run[p].todo)
  <2>1. run[p].phase \in Committing
    BY <1>9 DEF Install, RemoveBackup, Settle, At, Committing
  <2>2. u \in Targets /\ txn[u] # None /\ txn' \in {txn, Proven(u), Unproven(u), Closed(u)}
    BY <1>9, <2>1, CommittingGives DEF LockInv
  <2>3. \/ UNCHANGED root
        \/ \E tree \in Remains(txn[u].old) \cup {txn[u].old, txn[u].new} :
             root' = [root EXCEPT ![u] = tree]
    BY <1>9, <2>1, CommittingGives
  <2>4. ASSUME NEW tree \in Remains(txn[u].old) \cup {txn[u].old, txn[u].new},
               root' = [root EXCEPT ![u] = tree]
        PROVE  Rooted
    <3>1. root'[t] = IF t = u THEN tree ELSE root[t]
      BY <2>4 DEF TypeInv
    <3>2. tree \in Torn \cup {txn[u].old, txn[u].new}
      BY DEF Remains
    <3>3. CASE t = u
      BY <2>2, <3>1, <3>2, <3>3
    <3>4. CASE t # u
      BY <3>1, <3>4
    <3> QED BY <3>3, <3>4
  <2> QED BY <1>1, <1>3, <2>2, <2>3, <2>4
<1> QED
  BY <1>4, <1>5, <1>6, <1>7, <1>8, <1>9 DEF Next, Step, Journaled

-----------------------------------------------------------------------------
(* The promises.                                                            *)

(* A run that read every file, and what it read.                            *)
ReadAll(p) == \A f \in Files : when[p][f] # Unread
CatalogOf(p) == [k \in Keys |-> past[when[p][k]].defs[k]]
UsesOf(p) == UNION {past[when[p][f]].refs[f] : f \in Sources}

(* A tree that is one target's export of what some run read.                *)
Whole(t, tree) ==
    \E p \in Runs :
        /\ ReadAll(p) /\ Links(CatalogOf(p), UsesOf(p)) /\ Valid(PlanOf(CatalogOf(p), UsesOf(p)))
        /\ tree = Export(t, PlanOf(CatalogOf(p), UsesOf(p)))

(* What a run that has not failed holds is what it read in the files it has *)
(* read; and a run at work has read them all and found them to link.        *)
SoundRead(p) ==
    LET r == run[p]
    IN  /\ r.phase = "reading" /\ ~r.failed =>
             /\ \A f \in Files \ r.unread : when[p][f] # Unread
             /\ \A k \in Keys \ r.unread : r.catalog[k] = past[when[p][k]].defs[k]
             /\ \A k \in Keys : k \in r.uses <=>
                  \E f \in Sources \ r.unread : k \in past[when[p][f]].refs[f]
        /\ r.phase \in Working =>
             /\ ReadAll(p) /\ r.catalog = CatalogOf(p) /\ r.uses = UsesOf(p)
             /\ Links(r.catalog, r.uses) /\ Valid(PlanOf(r.catalog, r.uses))

(* A file is read once: before, the run's history does not have it.         *)
UnreadInv ==
    /\ \A p \in Runs : p > starts => \A f \in Files : when[p][f] = Unread
    /\ \A p \in Runs : run[p].phase = "reading" => \A f \in run[p].unread : when[p][f] = Unread
    /\ \A p \in Runs : run[p].phase # "idle" => p <= starts

WholeInv ==
    /\ \A t \in Targets : root[t] \notin {Absent} \cup Torn => Whole(t, root[t])
    /\ \A t \in Targets : txn[t] # None =>
         /\ txn[t].old \notin {Absent} \cup Torn => Whole(t, txn[t].old)
         /\ txn[t].new \notin {Absent} \cup Torn => Whole(t, txn[t].new)
    /\ \A p \in Runs : SoundRead(p)

(* The past stays as it was, and so does what was read of it.               *)
LEMMA HistoryStays ==
  ASSUME TypeInv, UnreadInv, [Next]_vars
  PROVE  /\ Len(past') >= Len(past) /\ \A i \in 1..Len(past) : past'[i] = past[i]
         /\ \A q \in Runs, f \in Files : when[q][f] # Unread => when'[q][f] = when[q][f]
<1> DEFINE Stays == /\ Len(past') >= Len(past) /\ \A i \in 1..Len(past) : past'[i] = past[i]
                    /\ \A q \in Runs, f \in Files : when[q][f] # Unread => when'[q][f] = when[q][f]
<1>1. Len(past) \in Nat
  BY ProjectIsTyped
<1>2. ASSUME UNCHANGED history PROVE Stays
  BY <1>1, <1>2 DEF history
<1>3. CASE EditSources
  <2>1. PICK defs \in Catalogs, refs \in Uses : past' = Append(past, [defs |-> defs, refs |-> refs])
    BY <1>3 DEF EditSources
  <2>2. Len(past') = Len(past) + 1 /\ \A i \in 1..Len(past) : past'[i] = past[i]
    BY <2>1 DEF TypeInv
  <2> QED BY <1>1, <1>3, <2>2 DEF EditSources
<1>4. ASSUME NEW p \in Runs, ReadDefinitions(p) \/ ReadReferences(p) PROVE Stays
  <2>1. past' = past /\ run[p].phase = "reading"
        /\ \E f \in run[p].unread : when' \in {when, [when EXCEPT ![p][f] = Len(past)]}
    BY <1>4, ReadingGives
  <2>2. PICK f \in run[p].unread : when' \in {when, [when EXCEPT ![p][f] = Len(past)]}
    BY <2>1
  <2>3. when[p][f] = Unread
    BY <2>1 DEF UnreadInv
  <2>4. ASSUME NEW q \in Runs, NEW g \in Files, when[q][g] # Unread PROVE when'[q][g] = when[q][g]
    <3>1. CASE when' = when
      BY <3>1
    <3>2. CASE when' = [when EXCEPT ![p][f] = Len(past)]
      <4>1. q # p \/ g # f
        BY <2>3, <2>4
      <4> QED BY <3>2, <4>1 DEF TypeInv
    <3> QED BY <2>2, <3>1, <3>2
  <2> QED BY <1>1, <2>1, <2>4
<1>5. ASSUME NEW p \in Runs, Start(p) \/ Crash(p) PROVE Stays
  BY <1>2, <1>5 DEF Start, Crash
<1>6. ASSUME NEW p \in Runs, Step(p), ~(ReadDefinitions(p) \/ ReadReferences(p)) PROVE Stays
  <2>1. UNCHANGED history
    BY <1>6 DEF Step, LinkingFails, Prepare, FailsEarly, Compare, Lock, Recover, Inspect, Install,
                RemoveBackup, Settle, Report, Exit
  <2> QED BY <1>2, <2>1
<1>7. CASE UNCHANGED vars \/ Quiescent
  BY <1>2, <1>7 DEF vars, Quiescent
<1> QED BY <1>3, <1>4, <1>5, <1>6, <1>7 DEF Next

(* What a run read of every file is then settled, and so is what is whole.  *)
LEMMA ReadsStay ==
  ASSUME TypeInv, UnreadInv, [Next]_vars
  PROVE  /\ \A p \in Runs : ReadAll(p) =>
              ReadAll(p)' /\ CatalogOf(p)' = CatalogOf(p) /\ UsesOf(p)' = UsesOf(p)
         /\ \A t, tree : Whole(t, tree) => Whole(t, tree)'
<1>1. ASSUME NEW p \in Runs, ReadAll(p)
      PROVE  ReadAll(p)' /\ CatalogOf(p)' = CatalogOf(p) /\ UsesOf(p)' = UsesOf(p)
  <2>1. ASSUME NEW f \in Files
        PROVE  when'[p][f] = when[p][f] /\ when'[p][f] # Unread /\ past'[when'[p][f]] = past[when[p][f]]
    <3>1. when'[p][f] = when[p][f] /\ when[p][f] # Unread
      BY <1>1, HistoryStays DEF ReadAll
    <3>2. when[p][f] \in 1..Len(past)
      BY <3>1, ProjectIsTyped DEF TypeInv, Unread
    <3> QED BY <3>1, <3>2, HistoryStays
  <2>2. ReadAll(p)'
    BY <2>1 DEF ReadAll, Files, Unread
  <2>3. CatalogOf(p)' = CatalogOf(p)
    BY <2>1 DEF CatalogOf, Files
  <2>4. {past'[when'[p][f]].refs[f] : f \in Sources} = {past[when[p][f]].refs[f] : f \in Sources}
    BY <2>1 DEF Files
  <2>5. UsesOf(p)' = UsesOf(p)
    BY <2>4 DEF UsesOf
  <2> QED BY <2>2, <2>3, <2>5
<1>2. ASSUME NEW t, NEW tree, Whole(t, tree) PROVE Whole(t, tree)'
  <2>1. PICK p \in Runs :
          /\ ReadAll(p) /\ Links(CatalogOf(p), UsesOf(p)) /\ Valid(PlanOf(CatalogOf(p), UsesOf(p)))
          /\ tree = Export(t, PlanOf(CatalogOf(p), UsesOf(p)))
    BY <1>2 DEF Whole
  <2>2. ReadAll(p)' /\ CatalogOf(p)' = CatalogOf(p) /\ UsesOf(p)' = UsesOf(p)
    BY <1>1, <2>1
  <2>3. /\ ReadAll(p)' /\ Links(CatalogOf(p)', UsesOf(p)') /\ Valid(PlanOf(CatalogOf(p)', UsesOf(p)'))
        /\ tree = Export(t, PlanOf(CatalogOf(p)', UsesOf(p)'))
    BY <2>1, <2>2
  <2> QED BY <2>3 DEF Whole, Runs, Links, Valid, PlanOf, Export
<1> QED BY <1>1, <1>2

(* Reading is the only step that enters a file into a run's history.        *)
LEMMA UnreadStays == TypeInv /\ LockInv /\ UnreadInv /\ [Next]_vars => UnreadInv'
<1> SUFFICES ASSUME TypeInv, LockInv, UnreadInv, [Next]_vars PROVE UnreadInv'
  OBVIOUS
<1> DEFINE Before(q) ==
      /\ q > starts => \A f \in Files : when[q][f] = Unread
      /\ run[q].phase = "reading" => \A f \in run[q].unread : when[q][f] = Unread
      /\ run[q].phase # "idle" => q <= starts
<1>1. \A q \in Runs : Before(q)
  BY DEF UnreadInv
<1>2. starts \in Nat /\ \A q \in Runs : q \in Nat
  BY RunsAssumption DEF TypeInv, Runs
<1>3. ASSUME \A q \in Runs : Before(q)' PROVE UnreadInv'
  BY <1>3 DEF UnreadInv, Runs, Files
<1>4. ASSUME NEW q \in Runs, run'[q] = run[q], when'[q] = when[q], starts' >= starts, starts' \in Nat
      PROVE  Before(q)'
  BY <1>1, <1>2, <1>4
<1>5. ASSUME NEW p \in Runs, Start(p) \/ Step(p) \/ Crash(p) PROVE \A q \in Runs \ {p} : run'[q] = run[q]
  BY <1>5, StepIsLocal
<1>6. ASSUME NEW p \in Runs, Start(p) PROVE UnreadInv'
  <2>1. p = starts + 1 /\ starts' = p /\ when' = when
    BY <1>6 DEF Start, history
  <2>2. run'[p].phase = "reading" /\ run'[p].unread = Files
    BY <1>6 DEF Start, Becomes, TypeInv, NoRun
  <2>3. Before(p)'
    <3>1. \A f \in Files : when'[p][f] = Unread
      BY <1>1, <1>2, <2>1
    <3> QED BY <1>2, <2>1, <2>2, <3>1
  <2>4. \A q \in Runs \ {p} : Before(q)'
    BY <1>2, <1>4, <1>5, <1>6, <2>1
  <2> QED BY <1>3, <2>3, <2>4
<1>7. ASSUME NEW p \in Runs, ReadDefinitions(p) \/ ReadReferences(p) PROVE UnreadInv'
  <2>1. /\ run[p].phase = "reading" /\ run'[p].phase = "reading" /\ starts' = starts
        /\ \A q \in Runs \ {p} : run'[q] = run[q]
    BY <1>7, ReadingGives DEF bounds
  <2>2. PICK f \in run[p].unread :
          run'[p].unread = run[p].unread \ {f} /\ when' \in {when, [when EXCEPT ![p][f] = Len(past)]}
    BY <1>7, ReadingGives
  <2>3. \A q \in Runs \ {p} : when'[q] = when[q]
    BY <2>2 DEF TypeInv
  <2>4. \A g \in Files \ {f} : when'[p][g] = when[p][g]
    BY <2>2 DEF TypeInv
  <2>5. run[p].unread \subseteq Files
    BY DEF TypeInv, Locals
  <2>6. Before(p)'
    BY <1>1, <1>2, <2>1, <2>2, <2>4, <2>5
  <2>7. \A q \in Runs \ {p} : Before(q)'
    BY <1>2, <1>4, <2>1, <2>3
  <2> QED BY <1>3, <2>6, <2>7
<1>8. ASSUME NEW p \in Runs, (Step(p) /\ ~(ReadDefinitions(p) \/ ReadReferences(p))) \/ Crash(p)
      PROVE  UnreadInv'
  <2>1. UNCHANGED history /\ starts' = starts
    BY <1>8 DEF Step, Crash, LinkingFails, Prepare, FailsEarly, Compare, Lock, Recover, Inspect,
                Install, RemoveBackup, Settle, Report, Exit, bounds
  <2>2. when' = when /\ run[p].phase # "idle"
    BY <1>8, <2>1 DEF history, Step, Crash, LinkingFails, Prepare, FailsEarly, Compare, Lock, Recover,
                      Inspect, Install, RemoveBackup, Settle, Report, Exit, At
  <2>3. run'[p].phase # "reading"
    <3>1. CASE run[p].phase \in Working /\ Step(p)
      <4>1. run'[p].phase \in Writing \cup {"report", "target"}
        BY <3>1, WorkGives, RecordEndsTheTarget
      <4> QED BY <4>1 DEF Writing, Committing
    <3>2. CASE LinkingFails(p) \/ Prepare(p)
      BY <3>2, LinkingEnds
    <3>3. CASE Report(p) \/ Exit(p) \/ Crash(p)
      BY <3>3, RunEnds
    <3>4. ASSUME FailsEarly(p) \/ Compare(p) \/ Lock(p) \/ Recover(p) \/ Inspect(p)
                   \/ Install(p) \/ RemoveBackup(p) \/ Settle(p)
          PROVE  run[p].phase \in Working
      BY <3>4 DEF FailsEarly, Compare, Lock, Recover, Inspect, Install, RemoveBackup, Settle, At,
                  Working, Writing, Committing
    <3> QED BY <1>8, <3>1, <3>2, <3>3, <3>4 DEF Step
  <2>4. Before(p)'
    BY <1>1, <1>2, <2>1, <2>2, <2>3
  <2>5. \A q \in Runs \ {p} : Before(q)'
    BY <1>2, <1>4, <1>5, <1>8, <2>1, <2>2
  <2> QED BY <1>3, <2>4, <2>5
<1>9. CASE EditSources \/ UNCHANGED vars \/ Quiescent
  <2>1. run' = run /\ when' = when /\ starts' = starts
    BY <1>9 DEF EditSources, vars, Quiescent, history, bounds
  <2> QED BY <1>2, <1>3, <1>4, <2>1
<1> QED BY <1>6, <1>7, <1>8, <1>9 DEF Next

(* No output is made from half of the project: a root holds the export of   *)
(* what one run read, complete and valid (execute_from_linked_project,      *)
(* prepare_export), or what is left of one.                                 *)
THEOREM WholeOutputs == Spec => []OutputsAreWhole
<1>1. Init => UnreadInv /\ WholeInv
  <2> SUFFICES ASSUME Init PROVE UnreadInv /\ WholeInv
    OBVIOUS
  <2>1. \A t \in Targets : root[t] = Absent /\ txn[t] = None
    BY DEF Init
  <2>2. \A p \in Runs : run[p].phase = "idle" /\ \A f \in Files : when[p][f] = Unread
    BY DEF Init, NoRun
  <2> QED BY <2>1, <2>2 DEF UnreadInv, WholeInv, SoundRead, Working, Writing, Committing
<1>2. TypeInv /\ LockInv /\ UnreadInv /\ WholeInv /\ [Next]_vars => WholeInv'
  <2> SUFFICES ASSUME TypeInv, LockInv, UnreadInv, WholeInv, [Next]_vars PROVE WholeInv'
    OBVIOUS
  <2>1. ASSUME NEW t, NEW tree, Whole(t, tree) PROVE Whole(t, tree)'
    BY <2>1, ReadsStay
  <2>2. ASSUME NEW t \in Targets, root'[t] \notin {Absent} \cup Torn PROVE Whole(t, root[t])'
    <3>1. PICK tree : tree = root'[t]
      OBVIOUS
    <3>2. Whole(t, tree)
      BY <2>2, <3>1, OutputsGive DEF WholeInv
    <3>3. Whole(t, tree)'
      BY <2>1, <3>2
    <3> QED BY <3>1, <3>3 DEF Whole
  <2>3. ASSUME NEW t \in Targets, txn'[t] # None
        PROVE  /\ txn'[t].old \notin {Absent} \cup Torn => Whole(t, txn[t].old)'
               /\ txn'[t].new \notin {Absent} \cup Torn => Whole(t, txn[t].new)'
    <3>1. ASSUME NEW tree, tree \notin {Absent} \cup Torn,
                 \/ txn[t] # None /\ tree \in {txn[t].old, txn[t].new}
                 \/ tree = root[t]
                 \/ \E p \in Runs : run[p].phase = "inspect" /\ t = Head(run[p].todo) /\ tree = Wanted(p)
          PROVE  Whole(t, tree)'
      <4>1. ASSUME NEW p \in Runs, run[p].phase = "inspect", t = Head(run[p].todo), tree = Wanted(p)
            PROVE  Whole(t, tree)
        <5>1. SoundRead(p) /\ run[p].phase \in Working
          BY <4>1 DEF WholeInv, Working, Writing
        <5> QED BY <4>1, <5>1 DEF SoundRead, Whole, Wanted
      <4>2. Whole(t, tree)
        BY <3>1, <4>1 DEF WholeInv
      <4> QED BY <2>1, <4>2
    <3>2. CASE txn[t] # None /\ txn'[t].old = txn[t].old /\ txn'[t].new = txn[t].new
      <4>1. PICK old, new : old = txn'[t].old /\ new = txn'[t].new
        OBVIOUS
      <4>2. /\ old \notin {Absent} \cup Torn => Whole(t, old)'
            /\ new \notin {Absent} \cup Torn => Whole(t, new)'
        BY <3>1, <3>2, <4>1
      <4> QED BY <4>1, <4>2 DEF Whole
    <3>3. ASSUME NEW p \in Runs, run[p].phase = "inspect", t = Head(run[p].todo),
                 txn'[t] = Open(root[t], Wanted(p))
          PROVE  /\ txn'[t].old \notin {Absent} \cup Torn => Whole(t, txn[t].old)'
                 /\ txn'[t].new \notin {Absent} \cup Torn => Whole(t, txn[t].new)'
      <4>1. PICK old, new : old = root[t] /\ new = Wanted(p)
        OBVIOUS
      <4>2. old = txn'[t].old /\ new = txn'[t].new
        BY <3>3, <4>1 DEF Open
      <4>3. /\ old \notin {Absent} \cup Torn => Whole(t, old)'
            /\ new \notin {Absent} \cup Torn => Whole(t, new)'
        BY <3>1, <3>3, <4>1
      <4> QED BY <4>2, <4>3 DEF Whole
    <3> QED BY <2>3, <3>2, <3>3, OutputsGive
  <2>4. ASSUME NEW p \in Runs, run'[p] = run[p], when'[p] = when[p] PROVE SoundRead(p)'
    <3> DEFINE r == run[p]
    <3>1. SoundRead(p) /\ r \in Locals
      BY DEF WholeInv, TypeInv
    <3>2. CASE r.phase = "reading" /\ ~r.failed
      <4>1. \A f \in Files \ r.unread :
              when'[p][f] # Unread /\ past'[when'[p][f]] = past[when[p][f]]
        <5> SUFFICES ASSUME NEW f \in Files \ r.unread
                     PROVE  when'[p][f] # Unread /\ past'[when'[p][f]] = past[when[p][f]]
          OBVIOUS
        <5>1. when[p][f] # Unread
          BY <3>1, <3>2 DEF SoundRead
        <5>2. when[p][f] \in 1..Len(past)
          BY <5>1, ProjectIsTyped DEF TypeInv, Unread
        <5> QED BY <2>4, <5>1, <5>2, HistoryStays
      <4>2. \A k \in Keys \ r.unread : r.catalog[k] = past'[when'[p][k]].defs[k]
        BY <3>1, <3>2, <4>1 DEF SoundRead, Files
      <4>3. \A k \in Keys : k \in r.uses <=>
              \E f \in Sources \ r.unread : k \in past'[when'[p][f]].refs[f]
        BY <3>1, <3>2, <4>1 DEF SoundRead, Files
      <4> QED BY <2>4, <3>2, <4>1, <4>2, <4>3 DEF SoundRead, Working, Writing, Committing, Files, Unread
    <3>3. CASE r.phase \in Working
      <4>1. ReadAll(p)' /\ CatalogOf(p)' = CatalogOf(p) /\ UsesOf(p)' = UsesOf(p)
        BY <3>1, <3>3, ReadsStay DEF SoundRead
      <4>2. /\ r.catalog = CatalogOf(p)' /\ r.uses = UsesOf(p)'
            /\ Links(r.catalog, r.uses) /\ Valid(PlanOf(r.catalog, r.uses))
            /\ r.phase # "reading"
        BY <3>1, <3>3, <4>1 DEF SoundRead, Working, Writing, Committing
      <4> QED BY <2>4, <4>1, <4>2 DEF SoundRead, Links, Valid, PlanOf
    <3>4. CASE r.phase \notin {"reading"} \cup Working \/ (r.phase = "reading" /\ r.failed)
      BY <2>4, <3>4 DEF SoundRead, Working, Writing, Committing
    <3> QED BY <3>1, <3>2, <3>3, <3>4 DEF Locals
  <2>5. ASSUME NEW p \in Runs, run'[p].phase \notin {"reading"} \cup Working PROVE SoundRead(p)'
    BY <2>5 DEF SoundRead, Working, Writing, Committing
  <2>6. ASSUME NEW p \in Runs, Start(p) PROVE SoundRead(p)'
    <3>1. /\ run'[p].phase = "reading" /\ run'[p].unread = Files
          /\ run'[p].uses = {}
      BY <2>6 DEF Start, Becomes, TypeInv, NoRun
    <3> QED BY <3>1 DEF SoundRead, Working, Writing, Committing, Files
  <2>7. ASSUME NEW p \in Runs, ReadDefinitions(p) \/ ReadReferences(p) PROVE SoundRead(p)'
    <3> DEFINE r == run[p]
               s == run'[p]
    <3>1. SoundRead(p) /\ r \in Locals /\ s \in Locals /\ r.phase = "reading" /\ s.phase = "reading"
          /\ past' = past
      BY <2>7, ReadingGives DEF WholeInv, TypeInv
    <3>2. PICK f \in r.unread :
             /\ s.unread = r.unread \ {f}
             /\ \/ /\ s.failed = r.failed /\ when' = [when EXCEPT ![p][f] = Len(past)]
                   /\ \/ /\ f \in Keys /\ s.uses = r.uses
                         /\ s.catalog = [r.catalog EXCEPT ![f] = Project.defs[f]]
                      \/ /\ f \in Sources /\ s.catalog = r.catalog
                         /\ s.uses = r.uses \cup Project.refs[f]
                \/ s.failed /\ when' = when
      BY <2>7, ReadingGives
    <3>3. CASE s.failed
      BY <3>1, <3>3 DEF SoundRead, Working, Writing, Committing
    <3>4. CASE ~s.failed
      <4>1. /\ ~r.failed /\ when' = [when EXCEPT ![p][f] = Len(past)]
            /\ f \in Files /\ r.unread \subseteq Files
        BY <3>1, <3>2, <3>4 DEF Locals
      <4>2. when'[p][f] = Len(past) /\ \A g \in Files \ {f} : when'[p][g] = when[p][g]
        BY <4>1 DEF TypeInv
      <4>3. past'[when'[p][f]] = Project /\ when'[p][f] # Unread
        BY <3>1, <4>2, ProjectIsTyped DEF Project, Unread
      <4>4. \A g \in Files \ s.unread : when'[p][g] # Unread
        BY <3>1, <3>2, <4>1, <4>2, <4>3 DEF SoundRead
      <4>5. \A g \in Files \ r.unread : past'[when'[p][g]] = past[when[p][g]]
        BY <3>1, <3>2, <4>2
      <4>6. CASE /\ f \in Keys /\ s.uses = r.uses
                 /\ s.catalog = [r.catalog EXCEPT ![f] = Project.defs[f]]
        <5>1. f \notin Sources
          BY <4>6, SourcesAssumption
        <5>2. \A k \in Keys \ s.unread : s.catalog[k] = past'[when'[p][k]].defs[k]
          <6> SUFFICES ASSUME NEW k \in Keys \ s.unread PROVE s.catalog[k] = past'[when'[p][k]].defs[k]
            OBVIOUS
          <6>1. CASE k = f
            BY <3>1, <4>3, <4>6, <6>1 DEF Locals
          <6>2. CASE k # f
            <7>1. k \in Files \ r.unread /\ s.catalog[k] = r.catalog[k]
              BY <3>1, <3>2, <4>6, <6>2 DEF Locals, Files
            <7> QED BY <3>1, <4>1, <4>5, <7>1 DEF SoundRead
          <6> QED BY <6>1, <6>2
        <5>3. Sources \ s.unread = Sources \ r.unread
          BY <3>2, <5>1
        <5>4. \A k \in Keys : k \in s.uses <=>
                \E g \in Sources \ s.unread : k \in past'[when'[p][g]].refs[g]
          BY <3>1, <4>1, <4>5, <4>6, <5>3 DEF SoundRead, Files
        <5> QED BY <3>1, <4>4, <5>2, <5>4 DEF SoundRead, Working, Writing, Committing, Files, Unread
      <4>7. CASE f \in Sources /\ s.catalog = r.catalog /\ s.uses = r.uses \cup Project.refs[f]
        <5>1. f \notin Keys
          BY <4>7, SourcesAssumption
        <5>2. \A k \in Keys \ s.unread : s.catalog[k] = past'[when'[p][k]].defs[k]
          BY <3>1, <3>2, <4>1, <4>5, <4>7, <5>1 DEF SoundRead, Files
        <5>3. Sources \ s.unread = (Sources \ r.unread) \cup {f}
          BY <3>2, <4>7
        <5>4. \A k \in Keys : k \in s.uses <=>
                \E g \in Sources \ s.unread : k \in past'[when'[p][g]].refs[g]
          <6> SUFFICES ASSUME NEW k \in Keys
                       PROVE  k \in s.uses <=>
                                \E g \in Sources \ s.unread : k \in past'[when'[p][g]].refs[g]
            OBVIOUS
          <6>1. k \in r.uses <=> \E g \in Sources \ r.unread : k \in past'[when'[p][g]].refs[g]
            BY <3>1, <4>1, <4>5 DEF SoundRead, Files
          <6>2. k \in Project.refs[f] <=> k \in past'[when'[p][f]].refs[f]
            BY <4>3
          <6> QED BY <4>7, <5>3, <6>1, <6>2
        <5> QED BY <3>1, <4>4, <5>2, <5>4 DEF SoundRead, Working, Writing, Committing, Files, Unread
      <4> QED BY <3>2, <3>4, <4>6, <4>7
    <3> QED BY <3>3, <3>4
  <2>8. ASSUME NEW p \in Runs, LinkingFails(p) \/ Prepare(p) PROVE SoundRead(p)'
    <3> DEFINE r == run[p]
               s == run'[p]
    <3>1. SoundRead(p) /\ r \in Locals /\ UNCHANGED history
      BY <2>8 DEF WholeInv, TypeInv, LinkingFails, Prepare
    <3>2. CASE ReducedError(p)
      <4>1. s.phase = "report"
        BY <3>2 DEF ReducedError, Becomes, TypeInv, Locals
      <4> QED BY <2>5, <4>1 DEF Working, Writing, Committing
    <3>3. ASSUME NEW results,
                 Becomes(p, [r EXCEPT !.phase = "report", !.todo = <<>>, !.result = results])
          PROVE  SoundRead(p)'
      <4>1. s.phase = "report"
        BY <3>3 DEF Becomes, TypeInv, Locals
      <4> QED BY <2>5, <4>1 DEF Working, Writing, Committing
    <3>4. CASE Prepare(p) /\ Preparable(r) /\ Goto(p, "target")
      <4>1. s.phase = "target" /\ s.catalog = r.catalog /\ s.uses = r.uses
        BY <3>1, <3>4 DEF Goto, Becomes, TypeInv, Locals
      <4>2. r.phase = "reading" /\ r.unread = {} /\ ~r.failed
        BY <3>4 DEF Prepare, Preparable, At
      <4>3. ReadAll(p)
        BY <3>1, <4>2 DEF SoundRead, ReadAll
      <4>4. r.catalog = CatalogOf(p)
        BY <3>1, <4>2 DEF SoundRead, CatalogOf, Locals
      <4>5. r.uses = UsesOf(p)
        <5>1. UsesOf(p) \subseteq Keys
          <6>1. \A f \in Sources : when[p][f] \in 1..Len(past)
            BY <4>3, ProjectIsTyped DEF ReadAll, Files, TypeInv, Unread
          <6>2. \A i \in 1..Len(past) : past[i] \in Projects
            BY DEF TypeInv
          <6>3. \A i \in 1..Len(past) : past[i].refs \in [Sources -> SUBSET Keys]
            BY <6>2, SourcesAssumption DEF Projects
          <6> QED BY <6>1, <6>3 DEF UsesOf
        <5>2. \A k \in Keys : k \in r.uses <=> k \in UsesOf(p)
          BY <3>1, <4>2 DEF SoundRead, UsesOf
        <5> QED BY <3>1, <5>1, <5>2 DEF Locals
      <4>6. ReadAll(p)' /\ CatalogOf(p)' = CatalogOf(p) /\ UsesOf(p)' = UsesOf(p)
        BY <4>3, ReadsStay
      <4>7. Links(s.catalog, s.uses) /\ Valid(PlanOf(s.catalog, s.uses))
        BY <3>4, <4>1 DEF Preparable
      <4> QED
        BY <4>1, <4>4, <4>5, <4>6, <4>7 DEF SoundRead, Links, Valid, PlanOf
    <3> QED BY <2>8, <3>2, <3>3, <3>4 DEF LinkingFails, Prepare
  <2>9. ASSUME NEW p \in Runs, Step(p), run[p].phase \in Working PROVE SoundRead(p)'
    <3> DEFINE r == run[p]
               s == run'[p]
    <3>1. s.phase \in Working => s.catalog = r.catalog /\ s.uses = r.uses
      BY <2>9, WorkGives, RecordGives
    <3>2. s.phase \in Working \cup {"report"}
      BY <2>9, WorkGives, RecordGives DEF Working
    <3>3. SoundRead(p)
      BY DEF WholeInv
    <3>4. ReadAll(p)' /\ CatalogOf(p)' = CatalogOf(p) /\ UsesOf(p)' = UsesOf(p)
      BY <2>9, <3>3, ReadsStay DEF SoundRead
    <3>5. CASE s.phase \in Working
      <4>1. /\ s.catalog = CatalogOf(p)' /\ s.uses = UsesOf(p)' /\ s.phase # "reading"
            /\ Links(s.catalog, s.uses) /\ Valid(PlanOf(s.catalog, s.uses))
        BY <2>9, <3>1, <3>3, <3>4, <3>5 DEF SoundRead, Working, Writing, Committing
      <4> QED BY <3>4, <4>1 DEF SoundRead, Links, Valid, PlanOf
    <3>6. CASE s.phase = "report"
      BY <2>5, <3>6 DEF Working, Writing, Committing
    <3> QED BY <3>2, <3>5, <3>6
  <2>10. ASSUME NEW p \in Runs, Report(p) \/ Exit(p) \/ Crash(p) PROVE SoundRead(p)'
    <3>1. run'[p].phase \in {"reported", "done", "dead"}
      BY <2>10, RunEnds
    <3> QED BY <2>5, <3>1 DEF Working, Writing, Committing
  <2>11. ASSUME NEW p \in Runs, Start(p) \/ Step(p) \/ Crash(p) PROVE SoundRead(p)'
    <3>1. ASSUME FailsEarly(p) \/ Compare(p) \/ Lock(p) \/ Recover(p) \/ Inspect(p)
                   \/ Install(p) \/ RemoveBackup(p) \/ Settle(p)
          PROVE  run[p].phase \in Working
      BY <3>1 DEF FailsEarly, Compare, Lock, Recover, Inspect, Install, RemoveBackup, Settle, At,
                  Working, Writing, Committing
    <3> QED BY <2>6, <2>7, <2>8, <2>9, <2>10, <2>11, <3>1 DEF Step
  <2>12. ASSUME NEW p \in Runs, Start(p) \/ Step(p) \/ Crash(p), NEW q \in Runs \ {p}
         PROVE  SoundRead(q)'
    <3>1. run'[q] = run[q]
      BY <2>12, StepIsLocal
    <3>2. when'[q] = when[q]
      <4>1. CASE ReadDefinitions(p) \/ ReadReferences(p)
        <5>1. \E f \in run[p].unread : when' \in {when, [when EXCEPT ![p][f] = Len(past)]}
          BY <4>1, ReadingGives
        <5> QED BY <5>1 DEF TypeInv
      <4>2. CASE ~(ReadDefinitions(p) \/ ReadReferences(p))
        <5>1. UNCHANGED history
          BY <2>12, <4>2 DEF Start, Step, Crash, LinkingFails, Prepare, FailsEarly, Compare, Lock,
                             Recover, Inspect, Install, RemoveBackup, Settle, Report, Exit
        <5> QED BY <5>1 DEF history
      <4> QED BY <4>1, <4>2
    <3> QED BY <2>4, <3>1, <3>2
  <2>13. \A p \in Runs : SoundRead(p)'
    <3>1. ASSUME NEW p \in Runs, Start(p) \/ Step(p) \/ Crash(p) PROVE \A q \in Runs : SoundRead(q)'
      BY <2>11, <2>12, <3>1
    <3>2. \/ \E p \in Runs : Start(p) \/ Step(p) \/ Crash(p)
          \/ UNCHANGED <<run, when>>
      BY DEF Next, EditSources, Quiescent, vars, history
    <3>3. CASE UNCHANGED <<run, when>>
      BY <2>4, <3>3
    <3> QED BY <3>1, <3>2, <3>3
  <2> QED BY <2>2, <2>3, <2>13 DEF WholeInv, Targets, Runs
<1>3. WholeInv => OutputsAreWhole
  BY DEF WholeInv, OutputsAreWhole, Whole, ReadAll, CatalogOf, UsesOf
<1> QED BY <1>1, <1>2, <1>3, UnreadStays, TypesAndLocks, PTL DEF Spec

-----------------------------------------------------------------------------
(* What the steps of a run are to its report.                               *)
SameReport(r, s) ==
    /\ s.result = r.result /\ s.found = r.found /\ s.left = r.left
    /\ s.check = r.check /\ s.selected = r.selected

Fresh(s) ==
    /\ s.result = [t \in Targets |-> NoResult] /\ s.found = s.left
    /\ s.exit = Unreported /\ s.todo \in Seq(Targets)
    /\ s.selected = {s.todo[i] : i \in DOMAIN s.todo}

BlockedOf(r) == [t \in Targets |-> IF t \in r.selected THEN Blocked ELSE NoResult]

(* A run starts afresh, reads, gives up, is blocked, works, reports or ends. *)
LEMMA StepGives ==
  ASSUME TypeInv, LockInv, NEW p \in Runs, Start(p) \/ Step(p) \/ Crash(p)
  PROVE  LET r == run[p]
             s == run'[p]
         IN  \/ s.phase = "reading" /\ Fresh(s)
             \/ /\ r.phase = "reading" /\ s.phase \in {"reading", "target"}
                /\ SameReport(r, s) /\ s.todo = r.todo /\ s.exit = r.exit
             \/ r.phase = "reading" /\ s.phase = "report" /\ SameReport(r, s) /\ s.exit = 2
             \/ /\ r.phase = "reading" /\ s.phase = "report" /\ s.result = BlockedOf(r)
                /\ s.found = r.found /\ s.left = r.left /\ s.exit = r.exit
                /\ s.check = r.check /\ s.selected = r.selected
             \/ r.phase \in Working /\ Step(p)
             \/ /\ r.phase = "report" /\ s.phase = "reported" /\ SameReport(r, s)
                /\ s.catalog = r.catalog /\ s.uses = r.uses
                /\ s.exit = IF r.exit = 2 THEN 2 ELSE ExitOf(r.result)
             \/ s.phase \in {"done", "dead"}
<1> DEFINE r == run[p]
           s == run'[p]
           Read == /\ r.phase = "reading" /\ s.phase \in {"reading", "target"}
                   /\ SameReport(r, s) /\ s.todo = r.todo /\ s.exit = r.exit
           Reduced == r.phase = "reading" /\ s.phase = "report" /\ SameReport(r, s) /\ s.exit = 2
<1>1. r \in Locals
  BY DEF TypeInv
<1>2. ASSUME r.phase = "reading", ReducedError(p) PROVE Reduced
  BY <1>1, <1>2 DEF ReducedError, Becomes, TypeInv, Locals, SameReport
<1>3. CASE Start(p)
  <2>1. PICK check \in BOOLEAN, todo \in {Delivery} \cup {<<t>> : t \in Operands} :
          Becomes(p, [NoRun EXCEPT !.phase = "reading", !.check = check, !.unread = Files,
                                   !.todo = todo, !.selected = {todo[i] : i \in DOMAIN todo}])
    BY <1>3 DEF Start
  <2>2. todo \in Seq(Targets)
    <3>1. \A t \in Operands : <<t>> \in Seq(Targets)
      BY OperandsAssumption
    <3> QED BY <3>1, DeliveryAssumption
  <2>3. /\ s.phase = "reading" /\ s.todo = todo /\ s.selected = {todo[i] : i \in DOMAIN todo}
        /\ s.result = [t \in Targets |-> NoResult] /\ s.found = s.left /\ s.exit = Unreported
    BY <2>1 DEF Becomes, TypeInv, NoRun
  <2> QED BY <2>2, <2>3 DEF Fresh
<1>4. CASE ReadDefinitions(p) \/ ReadReferences(p)
  BY <1>4, ReadingGives DEF SameReport
<1>5. CASE LinkingFails(p)
  BY <1>2, <1>5 DEF LinkingFails, At
<1>6. CASE Prepare(p)
  <2>1. r.phase = "reading"
    BY <1>6 DEF Prepare, At
  <2>2. CASE Goto(p, "target")
    BY <1>1, <2>1, <2>2 DEF Goto, Becomes, TypeInv, Locals, SameReport
  <2>3. CASE Becomes(p, [r EXCEPT !.phase = "report", !.todo = <<>>, !.result = BlockedOf(r)])
    BY <1>1, <2>1, <2>3 DEF Becomes, TypeInv, Locals
  <2> QED BY <1>2, <1>6, <2>1, <2>2, <2>3 DEF Prepare, BlockedOf
<1>7. CASE Report(p)
  <2> DEFINE exit == IF r.exit = 2 THEN 2 ELSE ExitOf(r.result)
  <2>1. Becomes(p, [r EXCEPT !.phase = "reported", !.exit = exit])
    BY <1>7 DEF Report
  <2> HIDE DEF exit
  <2>2. /\ s.phase = "reported" /\ SameReport(r, s) /\ s.exit = exit
        /\ s.catalog = r.catalog /\ s.uses = r.uses
    BY <1>1, <2>1 DEF Becomes, TypeInv, Locals, SameReport
  <2> QED BY <1>7, <2>2 DEF Report, At, exit
<1>8. CASE Exit(p) \/ Crash(p)
  BY <1>8 DEF Exit, Crash, Over, NoRun, Becomes, TypeInv
<1>9. ASSUME FailsEarly(p) \/ Compare(p) \/ Lock(p) \/ Recover(p) \/ Inspect(p)
               \/ Install(p) \/ RemoveBackup(p) \/ Settle(p)
      PROVE  r.phase \in Working
  BY <1>9 DEF FailsEarly, Compare, Lock, Recover, Inspect, Install, RemoveBackup, Settle,
              At, Working, Writing, Committing
<1> QED
  BY <1>3, <1>4, <1>5, <1>6, <1>7, <1>8, <1>9 DEF Step

-----------------------------------------------------------------------------
Tried(r) == {t \in Targets : r.result[t].status \notin {"none", "blocked"}}
Rest(r) == {r.todo[i] : i \in DOMAIN r.todo}

(* The targets tried and those to do are the selected ones, to the end, and *)
(* none is blocked once the first is tried.                                 *)
Fair(r) ==
    /\ r.phase = "reading" =>
         /\ r.result = [t \in Targets |-> NoResult] /\ r.found = r.left
         /\ r.exit = Unreported /\ Rest(r) = r.selected
    /\ r.phase \in Working =>
         /\ Tried(r) \cup Rest(r) = r.selected /\ r.exit = Unreported
         /\ \A t \in Targets : r.result[t].status # "blocked"
    /\ r.phase \in {"report", "reported"} =>
         \/ Tried(r) = {} /\ (r.exit = 2 \/ \A t \in r.selected : r.result[t].status = "blocked")
         \/ Tried(r) = r.selected /\ \A t \in Targets : r.result[t].status # "blocked"

(* What a sequence holds, its tail and its head hold.                       *)
LEMMA RestOfTail ==
  ASSUME NEW S, NEW seq \in Seq(S), seq # <<>>
  PROVE  {seq[i] : i \in DOMAIN seq} =
           {Tail(seq)[i] : i \in DOMAIN Tail(seq)} \cup {Head(seq)}
<1>1. /\ Len(seq) \in Nat \ {0} /\ DOMAIN seq = 1..Len(seq)
      /\ Head(seq) = seq[1] /\ DOMAIN Tail(seq) = 1..(Len(seq) - 1)
      /\ \A i \in DOMAIN Tail(seq) : Tail(seq)[i] = seq[i + 1]
  OBVIOUS
<1>2. ASSUME NEW i \in DOMAIN seq
      PROVE  seq[i] = Head(seq) \/ \E j \in DOMAIN Tail(seq) : seq[i] = Tail(seq)[j]
  <2>1. CASE i = 1
    BY <1>1, <2>1
  <2>2. CASE i # 1
    <3>1. i - 1 \in DOMAIN Tail(seq) /\ Tail(seq)[i - 1] = seq[i]
      BY <1>1, <1>2, <2>2
    <3> QED BY <3>1
  <2> QED BY <2>1, <2>2
<1>3. \A j \in DOMAIN Tail(seq) : j + 1 \in DOMAIN seq
  BY <1>1
<1>4. 1 \in DOMAIN seq
  BY <1>1
<1> QED BY <1>1, <1>2, <1>3, <1>4

FairInv == \A p \in Runs : Fair(run[p])

(* One failed target stops no other: a run that tried a target reports a    *)
(* result for each one selected (the loop of execute_from_linked_project).  *)
THEOREM AllTargetsAreTried == Spec => []FairInv /\ []FailureStopsNoOther
<1>1. Init => FairInv
  BY DEF Init, NoRun, FairInv, Fair, Working, Writing, Committing
<1>2. TypeInv /\ LockInv /\ FairInv /\ [Next]_vars => FairInv'
  <2> SUFFICES ASSUME TypeInv, LockInv, FairInv, [Next]_vars PROVE FairInv'
    OBVIOUS
  <2>1. ASSUME NEW p \in Runs, Start(p) \/ Step(p) \/ Crash(p) PROVE Fair(run'[p])
    <3> DEFINE r == run[p]
               s == run'[p]
    <3>1. Fair(r) /\ r \in Locals /\ r.todo \in Seq(Targets)
      BY DEF FairInv, TypeInv, Locals
    <3>2. CASE s.phase = "reading" /\ Fresh(s)
      BY <3>2 DEF Fair, Fresh, Rest, Working, Writing, Committing
    <3>3. CASE /\ r.phase = "reading" /\ s.phase \in {"reading", "target"}
               /\ SameReport(r, s) /\ s.todo = r.todo /\ s.exit = r.exit
      <4>1. CASE s.phase = "reading"
        BY <3>1, <3>3, <4>1 DEF Fair, SameReport, Rest, Working, Writing, Committing
      <4>2. CASE s.phase = "target"
        <5>1. \A t \in Targets : s.result[t] = NoResult
          BY <3>1, <3>3 DEF Fair, SameReport
        <5>2. Tried(s) = {} /\ \A t \in Targets : s.result[t].status # "blocked"
          BY <5>1 DEF Tried, NoResult
        <5>3. Rest(s) = s.selected /\ s.exit = Unreported
          BY <3>1, <3>3 DEF Fair, SameReport, Rest
        <5> QED BY <4>2, <5>2, <5>3 DEF Fair
      <4> QED BY <3>3, <4>1, <4>2
    <3>4. CASE r.phase = "reading" /\ s.phase = "report" /\ SameReport(r, s) /\ s.exit = 2
      <4>1. \A t \in Targets : s.result[t] = NoResult
        BY <3>1, <3>4 DEF Fair, SameReport
      <4>2. Tried(s) = {}
        BY <4>1 DEF Tried, NoResult
      <4> QED BY <3>4, <4>2 DEF Fair, Working, Writing, Committing
    <3>5. CASE /\ r.phase = "reading" /\ s.phase = "report" /\ s.result = BlockedOf(r)
               /\ s.found = r.found /\ s.left = r.left /\ s.exit = r.exit
               /\ s.check = r.check /\ s.selected = r.selected
      <4>1. \A t \in Targets : s.result[t].status \in {"none", "blocked"}
        BY <3>5 DEF BlockedOf, Blocked, NoResult
      <4>2. \A t \in s.selected : s.result[t].status = "blocked"
        BY <3>1, <3>5 DEF BlockedOf, Blocked, Locals
      <4>3. Tried(s) = {}
        BY <4>1 DEF Tried
      <4> QED BY <3>5, <4>2, <4>3 DEF Fair, Working, Writing, Committing
    <3>6. CASE r.phase \in Working /\ Step(p)
      <4> DEFINE t == Head(r.todo)
      <4>1. ASSUME NEW status \in Statuses \ {"none", "blocked"}, NEW state \in States,
                   NEW found \in Trees, NEW left \in Trees, Record(p, status, state, found, left)
            PROVE  Fair(s)
        <5>1. r.todo # <<>> /\ t \in Targets /\ status \in Statuses
          BY <3>6, WantedIsATree DEF TypeInv
        <5>2. /\ s.phase = IF Tail(r.todo) = <<>> THEN "report" ELSE "target"
              /\ s.todo = Tail(r.todo) /\ s.selected = r.selected /\ s.exit = r.exit
          BY <3>6, <4>1, <5>1, RecordGives
        <5>3. \A u \in Targets :
                s.result[u].status = IF u = t THEN status ELSE r.result[u].status
          BY <3>6, <4>1, <5>1, RecordGives
        <5>4. Tried(s) = Tried(r) \cup {t}
          BY <5>1, <5>3 DEF Tried
        <5>5. Rest(r) = Rest(s) \cup {t}
          <6>1. Rest(r) = {Tail(r.todo)[i] : i \in DOMAIN Tail(r.todo)} \cup {t}
            BY <3>1, <5>1, RestOfTail DEF Rest
          <6> QED BY <5>2, <6>1 DEF Rest
        <5>6. Tried(s) \cup Rest(s) = s.selected
          BY <3>1, <3>6, <5>2, <5>4, <5>5 DEF Fair
        <5>7. \A u \in Targets : s.result[u].status # "blocked"
          BY <3>1, <3>6, <5>3 DEF Fair
        <5>8. CASE Tail(r.todo) = <<>>
          <6>1. Rest(s) = {}
            <7>1. s.todo = <<>>
              BY <5>2, <5>8
            <7>2. DOMAIN s.todo = {}
              BY <7>1
            <7> QED BY <7>2 DEF Rest
          <6> QED BY <5>2, <5>6, <5>7, <5>8, <6>1 DEF Fair, Working, Writing, Committing
        <5>9. CASE Tail(r.todo) # <<>>
          <6>1. s.exit = Unreported
            BY <3>1, <3>6, <5>2 DEF Fair
          <6> QED BY <5>2, <5>6, <5>7, <5>9, <6>1 DEF Fair
        <5> QED BY <5>8, <5>9
      <4>2. CASE /\ s.phase \in Writing /\ s.todo = r.todo /\ s.selected = r.selected
                 /\ s.exit = r.exit /\ s.result = r.result
        BY <3>1, <3>6, <4>2 DEF Fair, Tried, Rest, Working, Writing, Committing
      <4> QED BY <3>6, <4>1, <4>2, WorkGives
    <3>7. CASE r.phase = "report" /\ s.phase = "reported" /\ SameReport(r, s)
               /\ s.exit = IF r.exit = 2 THEN 2 ELSE ExitOf(r.result)
      BY <3>1, <3>7 DEF Fair, SameReport, Tried, Working, Writing, Committing
    <3>8. CASE s.phase \in {"done", "dead"}
      BY <3>8 DEF Fair, Working, Writing, Committing
    <3> QED
      BY <2>1, <3>2, <3>3, <3>4, <3>5, <3>6, <3>7, <3>8, StepGives
  <2>2. CASE UNCHANGED run
    BY <2>2 DEF FairInv
  <2>3. ASSUME NEW p \in Runs, Start(p) \/ Step(p) \/ Crash(p) PROVE FairInv'
    <3>1. \A q \in Runs : Fair(run'[q])
      BY <2>1, <2>3, StepIsLocal DEF FairInv
    <3> QED BY <3>1 DEF FairInv, Fair, Tried, Rest, Runs, Targets
  <2> QED BY <2>2, <2>3 DEF Next, EditSources, Quiescent, vars
<1>3. FairInv => FailureStopsNoOther
  BY DEF FairInv, Fair, Tried, FailureStopsNoOther
<1> QED BY <1>1, <1>2, <1>3, TypesAndLocks, PTL DEF Spec
-----------------------------------------------------------------------------
ArtifactsOf(r, t) == Export(t, PlanOf(r.catalog, r.uses))

(* What a run says of a target is so.                                       *)
Honest(r, t) ==
    /\ r.result[t].state \in {"unchanged", "restored"} /\ r.result[t].status # "unchanged"
         => \/ r.left[t] = r.found[t]
            \/ r.result[t].state = "restored" /\ r.left[t] \in Remains(r.found[t])
    /\ r.result[t].status \in {"matched", "unchanged", "written"} => r.left[t] = ArtifactsOf(r, t)
    /\ r.result[t].status = "different" => r.check
    /\ r.check \/ r.result[t].status \in {"none", "blocked"} => r.left[t] = r.found[t]

(* How far the registration at hand has come with the locked output.        *)
AtHand(r, roots, txns) ==
    LET t == Head(r.todo)
    IN  /\ r.phase \in {"recover", "inspect"} => roots[t] = r.found[t]
        /\ r.phase = "commit" => /\ roots[t] = r.found[t] /\ txns[t].old = r.found[t]
                                 /\ txns[t].new = ArtifactsOf(r, t)
        /\ r.phase \in {"installed", "removing"} =>
             /\ roots[t] = ArtifactsOf(r, t) /\ txns[t].old = r.found[t]
             /\ txns[t].new = ArtifactsOf(r, t)

TrueOf(r, roots, txns) ==
    /\ r.phase \in Working \cup {"report", "reported"} =>
         \A t \in Targets : (r.phase \in Writing /\ t = Head(r.todo)) \/ Honest(r, t)
    /\ r.phase \in Writing => AtHand(r, roots, txns)
    /\ r.phase = "reported" => r.exit \in {2, ExitOf(r.result)}

TruthInv == \A p \in Runs : TrueOf(run[p], root, txn)

(* A run whose targets all have an honest result, in a report or before one. *)
LEMMA HonestIsTrue ==
  ASSUME NEW r, NEW roots, NEW txns, r.phase \notin Writing, r.phase # "reported",
         \A t \in Targets : Honest(r, t)
  PROVE  TrueOf(r, roots, txns)
  BY DEF TrueOf

(* A run that has not come to its targets, or is over, says nothing.        *)
LEMMA NoReportIsTrue ==
  ASSUME NEW r, NEW roots, NEW txns, r.phase \notin Working \cup {"report", "reported"}
  PROVE  TrueOf(r, roots, txns)
  BY DEF TrueOf, Working

(* A result that tells what happened to its target.                         *)
LEMMA RecordIsHonest ==
  ASSUME TypeInv, TruthInv, NEW p \in Runs, run[p].phase \in Working,
         NEW status \in Statuses \ {"none", "blocked"}, NEW state \in States,
         NEW found \in Trees, NEW left \in Trees, Record(p, status, state, found, left),
         state \in {"unchanged", "restored"} /\ status # "unchanged" =>
           left = found \/ (state = "restored" /\ left \in Remains(found)),
         status \in {"matched", "unchanged", "written"} => left = Wanted(p),
         status = "different" => run[p].check,
         run[p].check => left = found
  PROVE  TrueOf(run'[p], root', txn')
<1> DEFINE r == run[p]
           s == run'[p]
           t == Head(r.todo)
<1>1. t \in Targets /\ status \in Statuses
  BY WantedIsATree
<1>2. /\ s.phase \in {"report", "target"} /\ s.check = r.check
      /\ s.catalog = r.catalog /\ s.uses = r.uses
  BY <1>1, RecordGives
<1>3. \A u \in Targets :
        /\ s.result[u].status = IF u = t THEN status ELSE r.result[u].status
        /\ s.result[u].state = IF u = t THEN state ELSE r.result[u].state
        /\ s.found[u] = IF u = t THEN found ELSE r.found[u]
        /\ s.left[u] = IF u = t THEN left ELSE r.left[u]
  BY <1>1, RecordGives
<1>4. Honest(s, t)
  BY <1>1, <1>2, <1>3 DEF Honest, ArtifactsOf, Wanted
<1>5. ASSUME NEW u \in Targets \ {t} PROVE Honest(s, u)
  <2>1. Honest(r, u)
    BY DEF TruthInv, TrueOf
  <2> QED BY <1>2, <1>3, <2>1 DEF Honest, ArtifactsOf
<1> QED
  BY <1>2, <1>4, <1>5, HonestIsTrue DEF Writing, Committing

(* The same of a registration's result, once its tree is compared with the  *)
(* one found.                                                               *)
LEMMA RegisteredIsHonest ==
  ASSUME TypeInv, LockInv, TruthInv, NEW p \in Runs, run[p].phase \in Writing,
         NEW status \in {"unchanged", "written", "error"}, NEW state \in States,
         root' \in [Targets -> Trees], Registered(p, status, state),
         LET t == Head(run[p].todo)
         IN  /\ state \in {"unchanged", "restored"} /\ status = "error" =>
                  \/ root'[t] = run[p].found[t]
                  \/ state = "restored" /\ root'[t] \in Remains(run[p].found[t])
             /\ status = "written" => state = "updated"
             /\ status \in {"unchanged", "written"} => root'[t] = Wanted(p)
  PROVE  TrueOf(run'[p], root', txn')
<1> DEFINE t == Head(run[p].todo)
<1>1. run[p].phase \in Working /\ t \in Targets /\ ~run[p].check
  BY WantedIsATree DEF Working, LockInv
<1>2. run[p].found[t] \in Trees /\ root'[t] \in Trees
  BY <1>1 DEF TypeInv, Locals
<1>3. Record(p, status, state, run[p].found[t], root'[t])
  BY RegisteredRecords
<1>4. status \in Statuses \ {"none", "blocked"}
  BY DEF Statuses
<1> QED
  BY <1>1, <1>2, <1>3, <1>4, RecordIsHonest

(* A report is true of every target: of what was found and is left there,   *)
(* and exit code 0 of all that were selected (execute_target, the exit code *)
(* of render_results).                                                      *)
THEOREM TrueReports == Spec => []ReportsAreTrue
<1>1. Init => TruthInv
  <2>1. ASSUME Init, NEW p \in Runs PROVE run[p].phase = "idle"
    BY <2>1 DEF Init, NoRun
  <2> QED BY <2>1 DEF TruthInv, TrueOf, Working, Writing, Committing
<1>2. TypeInv /\ LockInv /\ FairInv /\ TruthInv /\ [Next]_vars => TruthInv'
  <2> SUFFICES ASSUME TypeInv, LockInv, FairInv, TruthInv, [Next]_vars PROVE TruthInv'
    OBVIOUS
  <2> DEFINE Told(p) == TrueOf(run'[p], root', txn')
  <2>1. ASSUME NEW p \in Runs PROVE run[p] \in Locals /\ Fair(run[p]) /\ TrueOf(run[p], root, txn)
    BY DEF TypeInv, FairInv, TruthInv
  <2>2. ASSUME NEW p \in Runs, run[p].phase = "reading", run'[p].phase \in {"target", "report"},
               SameReport(run[p], run'[p]) \/ /\ run'[p].result = BlockedOf(run[p])
                                              /\ run'[p].found = run[p].found
                                              /\ run'[p].left = run[p].left
        PROVE  Told(p)
    <3> DEFINE r == run[p]
               s == run'[p]
    <3>1. \A t \in Targets : s.result[t] \in {NoResult, Blocked} /\ s.left[t] = s.found[t]
      BY <2>1, <2>2 DEF Fair, SameReport, BlockedOf
    <3>2. ASSUME NEW t \in Targets PROVE Honest(s, t)
      BY <3>1 DEF Honest, NoResult, Blocked
    <3> QED BY <2>2, <3>2, HonestIsTrue DEF Writing, Committing
  <2>3. ASSUME NEW p \in Runs, NEW phase \in Writing, run[p].phase \in Writing, Goto(p, phase),
               AtHand(run'[p], root', txn')
        PROVE  Told(p)
    <3> DEFINE r == run[p]
               s == run'[p]
    <3>1. /\ s.phase = phase /\ s.todo = r.todo /\ s.check = r.check /\ s.catalog = r.catalog
          /\ s.uses = r.uses /\ s.result = r.result /\ s.found = r.found /\ s.left = r.left
      BY <2>1, <2>3 DEF Goto, Becomes, TypeInv, Locals
    <3>2. ASSUME NEW t \in Targets, t # Head(s.todo) PROVE Honest(s, t)
      <4>1. Honest(r, t)
        BY <2>1, <2>3, <3>1, <3>2 DEF TrueOf, Working
      <4> QED BY <3>1, <4>1 DEF Honest, ArtifactsOf
    <3> QED BY <2>3, <3>1, <3>2 DEF TrueOf, Writing, Committing
  <2>4. ASSUME NEW p \in Runs, Step(p), run[p].phase \in Working PROVE Told(p)
    <3> DEFINE r == run[p]
               s == run'[p]
               t == Head(r.todo)
    <3>1. /\ r \in Locals /\ TrueOf(r, root, txn) /\ t \in Targets
          /\ Wanted(p) = ArtifactsOf(r, t) /\ Wanted(p) \in Trees
      BY <2>1, <2>4, WantedIsATree DEF Wanted, ArtifactsOf
    <3>2. CASE \/ ReadDefinitions(p) \/ ReadReferences(p) \/ LinkingFails(p) \/ Prepare(p)
                \/ Report(p) \/ Exit(p)
      BY <2>4, <3>2 DEF ReadDefinitions, ReadReferences, LinkingFails, Prepare, Report, Exit, At,
                        Working, Writing, Committing
    <3>3. CASE FailsEarly(p)
      <4>1. Absent \in Trees /\ Record(p, "error", "unchanged", Absent, Absent)
        BY <3>3 DEF FailsEarly, Fails, Trees
      <4> QED BY <2>4, <4>1, RecordIsHonest DEF Statuses, States
    <3>4. CASE Compare(p)
      <4>1. PICK seen \in Visible(t), status \in {"error", "matched", "different"} :
              /\ Record(p, status, "unchanged", seen, seen)
              /\ status = "matched" => seen = Wanted(p)
        BY <3>4 DEF Compare
      <4>2. seen \in Trees /\ r.check
        BY <3>1, <3>4 DEF Compare, Visible, TypeInv, Trees
      <4> QED BY <2>4, <4>1, <4>2, RecordIsHonest DEF Statuses, States
    <3>5. CASE Lock(p)
      <4> DEFINE there == [r.found EXCEPT ![t] = root[t]]
      <4>1. Becomes(p, [r EXCEPT !.phase = "recover", !.found = there])
        BY <3>5 DEF Lock
      <4>2. there[t] = root[t] /\ \A u \in Targets \ {t} : there[u] = r.found[u]
        BY <3>1 DEF Locals
      <4> HIDE DEF there
      <4>3. /\ s.phase = "recover" /\ s.todo = r.todo /\ s.check = r.check /\ s.catalog = r.catalog
            /\ s.uses = r.uses /\ s.result = r.result /\ s.found = there /\ s.left = r.left
        BY <3>1, <4>1 DEF Becomes, TypeInv, Locals
      <4>4. AtHand(s, root', txn')
        BY <3>5, <4>2, <4>3 DEF AtHand, Lock
      <4>5. ASSUME NEW u \in Targets, u # t PROVE Honest(s, u)
        <5>1. Honest(r, u)
          BY <3>1, <3>5 DEF TrueOf, Lock, At, Working, Writing, Committing
        <5> QED BY <4>2, <4>3, <4>5, <5>1 DEF Honest, ArtifactsOf
      <4> QED BY <4>3, <4>4, <4>5 DEF TrueOf, Writing, Committing
    <3>6. ASSUME r.phase \in Writing PROVE AtHand(r, root, txn)
      BY <3>1, <3>6 DEF TrueOf
    <3>7. CASE Recover(p)
      <4> DEFINE effect == IF root[t] = txn[t].old THEN "restored" ELSE "updated"
      <4>1. r.phase \in Writing /\ root[t] = r.found[t] /\ root' = root /\ r.phase = "recover"
        BY <3>6, <3>7 DEF AtHand, Recover, At, Writing
      <4>2. CASE Goto(p, "inspect")
        <5>1. s.phase = "inspect" /\ s.todo = r.todo /\ s.found = r.found
          BY <3>1, <4>2 DEF Goto, Becomes, TypeInv, Locals
        <5>2. AtHand(s, root', txn')
          BY <4>1, <5>1 DEF AtHand
        <5> QED BY <2>3, <4>1, <4>2, <5>2 DEF Writing, Committing
      <4>3. CASE Becomes(p, [r EXCEPT !.phase = "inspect", !.effect = effect])
        <5> HIDE DEF effect
        <5>1. /\ s.phase = "inspect" /\ s.todo = r.todo /\ s.check = r.check
              /\ s.catalog = r.catalog /\ s.uses = r.uses /\ s.result = r.result
              /\ s.found = r.found /\ s.left = r.left
          BY <3>1, <4>3 DEF Becomes, TypeInv, Locals
        <5>2. AtHand(s, root', txn')
          BY <4>1, <5>1 DEF AtHand
        <5>3. ASSUME NEW u \in Targets, u # t PROVE Honest(s, u)
          <6>1. Honest(r, u)
            BY <3>1, <4>1, <5>3 DEF TrueOf, Working
          <6> QED BY <5>1, <6>1 DEF Honest, ArtifactsOf
        <5> QED BY <5>1, <5>2, <5>3 DEF TrueOf, Writing, Committing
      <4>4. ASSUME NEW state \in {"unchanged", "indeterminate", effect}, Registered(p, "error", state)
            PROVE  Told(p)
        <5>1. root' \in [Targets -> Trees] /\ root'[t] = r.found[t]
          BY <4>1 DEF TypeInv
        <5> QED BY <4>1, <4>4, <5>1, RegisteredIsHonest DEF States
      <4> QED BY <3>7, <4>2, <4>3, <4>4 DEF Recover
    <3>8. CASE Inspect(p)
      <4>1. r.phase \in Writing /\ root[t] = r.found[t] /\ root' = root /\ r.phase = "inspect"
        BY <3>6, <3>8 DEF AtHand, Inspect, At, Writing
      <4>2. root' \in [Targets -> Trees] /\ root'[t] = r.found[t] /\ r.effect \in States
        BY <3>1, <4>1 DEF TypeInv, Locals
      <4>3. CASE UpToDate(p) /\ Registered(p, "unchanged", r.effect)
        <5>1. root'[t] = Wanted(p)
          BY <4>1, <4>3 DEF UpToDate
        <5> QED BY <4>1, <4>2, <4>3, <5>1, RegisteredIsHonest
      <4>4. CASE Registered(p, "error", r.effect)
        BY <4>1, <4>2, <4>4, RegisteredIsHonest
      <4>5. CASE txn' = [txn EXCEPT ![t] = Open(root[t], Wanted(p))] /\ Goto(p, "commit")
        <5>1. /\ s.phase = "commit" /\ s.todo = r.todo /\ s.found = r.found
              /\ s.catalog = r.catalog /\ s.uses = r.uses
          BY <3>1, <4>5 DEF Goto, Becomes, TypeInv, Locals
        <5>2. txn'[t].old = root[t] /\ txn'[t].new = Wanted(p)
          BY <3>1, <4>5 DEF TypeInv, Open
        <5>3. AtHand(s, root', txn')
          BY <3>1, <4>1, <5>1, <5>2 DEF AtHand, ArtifactsOf
        <5> QED BY <2>3, <4>1, <4>5, <5>3 DEF Writing, Committing
      <4> QED BY <3>8, <4>3, <4>4, <4>5 DEF Inspect
    <3>9. CASE Install(p)
      <4>1. /\ r.phase \in Writing /\ r.phase = "commit" /\ root[t] = r.found[t]
            /\ txn[t].old = r.found[t] /\ txn[t].new = Wanted(p)
        BY <3>1, <3>6, <3>9 DEF AtHand, Install, At, Writing, Committing
      <4>2. CASE root' = [root EXCEPT ![t] = txn[t].new] /\ Goto(p, "installed") /\ UNCHANGED txn
        <5>1. /\ s.phase = "installed" /\ s.todo = r.todo /\ s.found = r.found
              /\ s.catalog = r.catalog /\ s.uses = r.uses
          BY <3>1, <4>2 DEF Goto, Becomes, TypeInv, Locals
        <5>2. root'[t] = Wanted(p)
          BY <3>1, <4>1, <4>2 DEF TypeInv
        <5>3. AtHand(s, root', txn')
          BY <3>1, <4>1, <4>2, <5>1, <5>2 DEF AtHand, ArtifactsOf
        <5> QED BY <2>3, <4>1, <4>2, <5>3 DEF Writing, Committing
      <4>3. ASSUME UNCHANGED root, NEW state \in {"unchanged", "restored", "indeterminate"},
                   Registered(p, "error", state)
            PROVE  Told(p)
        <5>1. root' \in [Targets -> Trees] /\ root'[t] = r.found[t]
          BY <4>1, <4>3 DEF TypeInv
        <5> QED BY <4>1, <4>3, <5>1, RegisteredIsHonest DEF States
      <4> QED BY <3>9, <4>2, <4>3 DEF Install
    <3>10. ASSUME r.phase \in {"installed", "removing"}
           PROVE  /\ r.phase \in Writing /\ root[t] = Wanted(p) /\ txn[t] # None
                  /\ txn[t].old = r.found[t] /\ txn[t].new = Wanted(p)
      <4>1. r.phase \in Writing /\ r.phase \in Committing
        BY <3>10 DEF Writing, Committing
      <4> QED BY <3>1, <3>6, <3>10, <4>1 DEF AtHand, LockInv
    <3>11. CASE RemoveBackup(p)
      <4>1. r.phase = "installed" /\ txn' = Unproven(t) /\ Goto(p, "removing") /\ root' = root
        BY <3>11 DEF RemoveBackup, At
      <4>2. txn'[t].old = txn[t].old /\ txn'[t].new = txn[t].new
        <5>1. txn[t] \in OpenTransactions
          BY <3>1, <3>10, <4>1 DEF TypeInv, Transactions
        <5>2. txn'[t] = [txn[t] EXCEPT !.provable = FALSE]
          BY <3>1, <4>1 DEF Unproven, TypeInv
        <5> QED BY <5>1, <5>2 DEF OpenTransactions
      <4>3. /\ s.phase = "removing" /\ s.todo = r.todo /\ s.found = r.found
            /\ s.catalog = r.catalog /\ s.uses = r.uses
        BY <3>1, <4>1 DEF Goto, Becomes, TypeInv, Locals
      <4>4. AtHand(s, root', txn')
        BY <3>1, <3>10, <4>1, <4>2, <4>3 DEF AtHand, ArtifactsOf
      <4> QED BY <2>3, <3>10, <4>1, <4>4 DEF Writing, Committing
    <3>12. CASE Settle(p)
      <4> DEFINE old == IF At(p, "removing") THEN Remains(txn[t].old) ELSE {txn[t].old}
      <4>1. r.phase \in {"installed", "removing"} /\ r.found[t] \in Trees /\ root \in [Targets -> Trees]
        BY <3>1, <3>12 DEF Settle, At, TypeInv, Locals
      <4>2. /\ r.phase \in Writing /\ root[t] = Wanted(p) /\ txn[t].old = r.found[t]
            /\ txn[t].new = Wanted(p)
        BY <3>10, <4>1
      <4>3. old \subseteq Trees /\ \A tree \in old : tree = r.found[t] \/ tree \in Remains(r.found[t])
        BY <4>1, <4>2 DEF Remains, Trees
      <4> HIDE DEF old
      <4>4. CASE UNCHANGED root /\ Registered(p, "written", "updated")
        BY <3>1, <4>1, <4>2, <4>4, RegisteredIsHonest DEF States
      <4>5. CASE UNCHANGED root /\ Registered(p, "error", "updated")
        BY <3>1, <4>1, <4>2, <4>5, RegisteredIsHonest DEF States
      <4>6. ASSUME NEW tree \in old, root' = [root EXCEPT ![t] = tree], Registered(p, "error", "restored")
            PROVE  Told(p)
        <5>1. root' \in [Targets -> Trees] /\ root'[t] = tree
          BY <3>1, <4>1, <4>3, <4>6
        <5> QED BY <3>1, <4>2, <4>3, <4>6, <5>1, RegisteredIsHonest DEF States
      <4>7. ASSUME NEW tree \in old \cup {txn[t].new}, root' = [root EXCEPT ![t] = tree],
                   Registered(p, "error", "indeterminate")
            PROVE  Told(p)
        <5>1. root' \in [Targets -> Trees]
          BY <3>1, <4>1, <4>2, <4>3, <4>7
        <5> QED BY <3>1, <4>2, <4>7, <5>1, RegisteredIsHonest DEF States
      <4> QED BY <3>12, <4>4, <4>5, <4>6, <4>7 DEF Settle, old
    <3> QED
      BY <2>4, <3>2, <3>3, <3>4, <3>5, <3>7, <3>8, <3>9, <3>11, <3>12 DEF Step
  <2>5. ASSUME NEW p \in Runs, Start(p) \/ Step(p) \/ Crash(p) PROVE Told(p)
    <3> DEFINE r == run[p]
               s == run'[p]
    <3>1. CASE s.phase = "reading"
      BY <3>1, NoReportIsTrue DEF Working, Writing, Committing
    <3>2. CASE r.phase = "reading" /\ s.phase = "reading"
      BY <3>2, NoReportIsTrue DEF Working, Writing, Committing
    <3>3. CASE r.phase = "report" /\ s.phase = "reported" /\ SameReport(r, s)
               /\ s.catalog = r.catalog /\ s.uses = r.uses
               /\ s.exit = IF r.exit = 2 THEN 2 ELSE ExitOf(r.result)
      <4>1. ASSUME NEW t \in Targets PROVE Honest(s, t)
        <5>1. Honest(r, t)
          BY <2>1, <3>3 DEF TrueOf, Writing, Committing
        <5> QED BY <3>3, <5>1 DEF Honest, ArtifactsOf, SameReport
      <4>2. s.exit \in {2, ExitOf(s.result)}
        BY <3>3 DEF SameReport
      <4> QED BY <3>3, <4>1, <4>2 DEF TrueOf, Writing, Committing
    <3>4. CASE s.phase \in {"done", "dead"}
      BY <3>4, NoReportIsTrue DEF Working, Writing, Committing
    <3> QED
      BY <2>2, <2>4, <2>5, <3>1, <3>2, <3>3, <3>4, StepGives
  <2>6. ASSUME NEW p \in Runs, Start(p) \/ Step(p) \/ Crash(p), NEW q \in Runs \ {p} PROVE Told(q)
    <3> DEFINE r == run[q]
               t == Head(r.todo)
    <3>1. run'[q] = r /\ TrueOf(r, root, txn)
      BY <2>1, <2>6, StepIsLocal
    <3>2. CASE r.phase \in Writing
      <4>1. t \in Targets /\ holder[t] = q
        BY <3>2, WantedIsATree DEF LockInv, Working
      <4>2. root'[t] = root[t] /\ txn'[t] = txn[t]
        BY <2>6, <4>1, StepIsLocal
      <4> QED BY <3>1, <4>2 DEF TrueOf, AtHand
    <3>3. CASE r.phase \notin Writing
      BY <3>1, <3>3 DEF TrueOf
    <3> QED BY <3>2, <3>3
  <2>7. CASE UNCHANGED run /\ UNCHANGED outputs
    BY <2>7 DEF TruthInv, outputs
  <2> HIDE DEF Told
  <2>8. ASSUME NEW p \in Runs, Start(p) \/ Step(p) \/ Crash(p) PROVE TruthInv'
    <3>1. \A q \in Runs : Told(q)
      BY <2>5, <2>6, <2>8
    <3> QED BY <3>1 DEF Told, TruthInv, Runs
  <2> QED BY <2>7, <2>8 DEF Next, EditSources, Quiescent, vars
<1>3. TypeInv /\ FairInv /\ TruthInv => ReportsAreTrue
  <2> SUFFICES ASSUME TypeInv, FairInv, TruthInv, NEW p \in Runs, run[p].phase = "reported"
               PROVE  LET r == run[p]
                          artifacts(t) == Export(t, PlanOf(r.catalog, r.uses))
                      IN  /\ \A t \in Targets :
                               /\ r.result[t].state \in {"unchanged", "restored"}
                                  /\ r.result[t].status # "unchanged"
                                    => \/ r.left[t] = r.found[t]
                                       \/ /\ r.result[t].state = "restored"
                                          /\ r.left[t] \in Remains(r.found[t])
                               /\ r.result[t].status \in {"matched", "unchanged", "written"}
                                    => r.left[t] = artifacts(t)
                          /\ r.check \/ r.exit = 1 => r.left = r.found
                          /\ r.exit = 0 => \A t \in r.selected : r.left[t] = artifacts(t)
    BY DEF ReportsAreTrue
  <2> DEFINE r == run[p]
  <2>1. r \in Locals /\ Fair(r) /\ r.exit \in {2, ExitOf(r.result)}
    BY DEF TypeInv, FairInv, TruthInv, TrueOf
  <2>2. \A t \in Targets : Honest(r, t)
    BY DEF TruthInv, TrueOf, Writing, Committing
  <2>3. ASSUME \A t \in Targets : r.left[t] = r.found[t] PROVE r.left = r.found
    BY <2>1, <2>3 DEF Locals
  <2>4. ASSUME r.check PROVE r.left = r.found
    BY <2>2, <2>3, <2>4 DEF Honest
  <2>5. ASSUME r.exit = 1, ~r.check PROVE \A t \in Targets : r.left[t] = r.found[t]
    <3>1. \E t \in Targets : r.result[t].status = "blocked"
      BY <2>1, <2>2, <2>5 DEF ExitOf, Honest
    <3>2. Tried(r) = {}
      BY <2>1, <3>1 DEF Fair
    <3> QED BY <2>2, <3>2 DEF Tried, Honest
  <2>6. ASSUME r.exit = 0, NEW t \in r.selected PROVE r.left[t] = ArtifactsOf(r, t)
    <3>1. t \in Targets /\ r.result[t].status \in Statuses
      BY <2>1, <2>6 DEF Locals, Results
    <3>2. r.result[t].status \notin {"error", "blocked", "different"}
      BY <2>1, <2>6, <3>1 DEF ExitOf
    <3>3. r.result[t].status # "none"
      BY <2>1, <2>6, <3>1, <3>2 DEF Fair, Tried
    <3> QED BY <2>2, <3>1, <3>2, <3>3 DEF Honest, Statuses
  <2> QED BY <2>2, <2>3, <2>4, <2>5, <2>6 DEF Honest, ArtifactsOf
<1> QED BY <1>1, <1>2, <1>3, AllTargetsAreTried, TypesAndLocks, PTL DEF Spec
=============================================================================
