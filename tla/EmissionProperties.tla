------------------------- MODULE EmissionProperties -------------------------
(***************************************************************************)
(* What a run of `messages emit` may claim and what it may leave behind.   *)
(***************************************************************************)
EXTENDS Emission

(* No output is made from half of the project: whatever failed, was edited  *)
(* or ran at the same time, a root that holds an export holds that of one   *)
(* run which read every file, each as it really was at the moment the run   *)
(* read it, and found them linked and valid                                 *)
(* (execute_from_linked_project stops at any failed source, prepare_export  *)
(* at any blocked or invalid plan).  Files edited between two reads of a    *)
(* run may be of different moments: the code compares a file with itself    *)
(* only, never with the others.                                             *)
OutputsAreWhole ==
    \A t \in Targets : root[t] \notin {Absent} \cup Torn =>
        \E p \in Runs :
            /\ \A f \in Files : when[p][f] # Unread
            /\ LET catalog == [k \in Keys |-> past[when[p][k]].defs[k]]
                   uses == UNION {past[when[p][f]].refs[f] : f \in Sources}
               IN  /\ Links(catalog, uses) /\ Valid(PlanOf(catalog, uses))
                   /\ root[t] = Export(t, PlanOf(catalog, uses))

(* A report is true of every target, also when another target failed, the   *)
(* lock came late or an earlier run's transaction had to be recovered: a    *)
(* target said to be unchanged or restored settles to the tree it settled   *)
(* to when it was locked, or, restored only, to what this run's own         *)
(* interrupted removal left of that tree; one said to be matched, unchanged *)
(* or written has this run's artifacts; a check, a blocked run and a run    *)
(* without results change nothing; and exit code 0 stands for all selected  *)
(* targets (execute_target, render_results).                                *)
ReportsAreTrue ==
    \A p \in Runs : run[p].phase = "reported" =>
        LET r == run[p]
            artifacts(t) == Export(t, PlanOf(r.catalog, r.uses))
        IN  /\ \A t \in Targets :
                 /\ r.result[t].state \in {"unchanged", "restored"}
                    /\ r.result[t].status # "unchanged"
                      => \/ r.left[t] = r.found[t]
                         \/ /\ r.result[t].state = "restored"
                            /\ r.left[t] \in Remains(r.found[t])
                 /\ r.result[t].status \in {"matched", "unchanged", "written"}
                      => r.left[t] = artifacts(t)
            /\ r.check \/ r.exit = 1 => r.left = r.found
            /\ r.exit = 0 => \A t \in r.selected : r.left[t] = artifacts(t)

(* One failed target stops no other: a run that tried one of its targets    *)
(* reports a result of its own for each of them, whatever the others' were  *)
(* (the loop of execute_from_linked_project).                               *)
FailureStopsNoOther ==
    \A p \in Runs :
        LET tried == {t \in Targets : run[p].result[t].status \notin {"none", "blocked"}}
        IN  run[p].phase = "reported" /\ tried # {} => tried = run[p].selected
=============================================================================
