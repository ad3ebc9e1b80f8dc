----------------------- MODULE ReconciliationProperties -----------------------
(* What the intent registry and its planner guarantee, whatever evidence a  *)
(* host brings and whichever updates it forms by hand.                      *)
EXTENDS Reconciliation

(* Every variable stays in its type: IntentRegistryUpdate and               *)
(* RegistryEntry of crates/intlify_authoring_identity, and what reconcile   *)
(* returns is an update a host may publish as it is.                        *)
ChainTypeOK == chain \in Seq([update : Update, entries : SUBSET Entry])
TypeOK ==
    /\ ChainTypeOK
    /\ Planned => answer.outcome.update \in Update /\ answer.outcome.entries \subseteq Entry

-----------------------------------------------------------------------------
(* The registry.                                                            *)

(* After every accepted update an ID has one entry, and every declaration   *)
(* of the update's inventory is held by exactly one active ID: no sequence  *)
(* of updates gives one message two identities or none (check_base_state,   *)
(* check_target, check_coverage, IntentRegistrySnapshot::validate).         *)
OneIdentityEach ==
    \A i \in DOMAIN chain :
        /\ WellFormed(chain[i].entries)
        /\ \A declaration \in chain[i].update.inventory.declarations :
              \E e \in chain[i].entries : Holders(chain[i].entries, declaration) = {e}

(* The chain only grows, and an ID is never forgotten or reused: its entry  *)
(* changes only by a decision about it, and a retired one only by an        *)
(* explicit restore of the declaration it kept (apply, check_base_state).   *)
IdsArePermanent ==
    [][/\ \A i \in DOMAIN chain : i \in DOMAIN chain' /\ chain'[i] = chain[i]
       /\ IdsOf(Snapshot) \subseteq IdsOf(Snapshot')
       /\ \A e \in Snapshot \ Snapshot' :
             \E d \in chain'[Len(chain')].update.decisions :
                 /\ d.id = e.id /\ d.from = e.declaration
                 /\ e.state = "retired" <=> d.kind = "restore"]_vars

(* The artifacts of the chain, and those a walk back to an anchor reads     *)
(* before it reaches the anchor or the limit of its steps.                  *)
Artifacts == {"update", "inventory", "registry"} \X (1..Len(chain))
TooFar(anchor) == Len(chain) - anchor > MaxHistorySteps
Needed(anchor) ==
    {a \in Artifacts :
        /\ a[2] > anchor /\ a # <<"registry", Len(chain)>>
        /\ ~TooFar(IF a[1] = "registry" THEN a[2] ELSE a[2] - 1)}

(* Whoever retains the artifacts after a snapshot it accepted can replay    *)
(* the published chain from there, up to the limit of steps; without one of *)
(* them the answer is blocked and never verified; and a step whose stored   *)
(* result is not what its update gives is never verified (verify_history).  *)
HistoryVerifies ==
    \A anchor \in 0..Len(chain) :
        LET Result(lost) == VerifyHistory(chain, anchor, lost)
            Forged(i, entries) ==
                VerifyHistory([chain EXCEPT ![i].entries = entries], anchor, {})
        IN  /\ \A a \in Artifacts :
                  Result({a}) = IF a \in Needed(anchor) THEN "blocked"
                                ELSE IF TooFar(anchor) THEN "limit" ELSE "verified"
            /\ \A i \in (anchor + 1)..Len(chain) : \A e \in chain[i].entries :
                  Forged(i, chain[i].entries \ {e}) =
                      IF TooFar(anchor) THEN "limit" ELSE "not-replayed"

(* What a host publishes of a plan is the registry it was shown when the    *)
(* plan was made, although the registry may have moved on since: a plan for *)
(* another base is refused (check_names).                                   *)
PublishedAsPlanned ==
    [][chain' # chain /\ answer' # answer =>
        /\ Planned
        /\ Snapshot' = answer.outcome.entries]_vars

-----------------------------------------------------------------------------
(* The planner.                                                             *)

Answered == answer.kind = "given"
IsCurrent == Answered /\ answer.base = Generation
Decisions == IF Planned THEN answer.outcome.update.decisions ELSE {}

(* The planner never forms an update that its own registry refuses: what    *)
(* the host decided explicitly, what it draws and what the evidence shows   *)
(* together always fit the base, unless the host's lineage links do not     *)
(* (Planner::explicit, compete, allocate against apply).                    *)
PlansApply ==
    Answered /\ answer.inputs.links = {} =>
        answer.outcome \notin {Failed("update"), Failed("transition")}

(* A plan leaves no loose end.  Over a complete inventory the active        *)
(* entries are exactly the declarations; over a partial one the entries it  *)
(* does not show are left exactly as they were (retained, carried,          *)
(* remaining).                                                              *)
PlansAreWhole ==
    IsCurrent /\ Planned =>
        LET active == Active(answer.outcome.entries)
            held == {e.declaration : e \in active}
        IN  IF answer.inventory.complete
            THEN held = answer.inventory.declarations
            ELSE /\ answer.inventory.declarations \subseteq held
                 /\ \A e \in active :
                       e.declaration \in answer.inventory.declarations \/ e \in Snapshot

(* The bytes of a range under an edit.                                      *)
Bytes(range) == range.from..(range.to - 1)
Kept(edit, range) == {b \in Bytes(range) : Survives(edit.replacements, b)}

(* An ID follows the text it names: a continuation the planner makes by     *)
(* itself keeps both ends of the text and lands exactly on the new          *)
(* declaration, and its old place is gone; a declaration it calls new       *)
(* contains no byte of the old text of its file (fate, inserted, replay,    *)
(* account, compete).                                                       *)
PlansFollowText ==
    Planned => \A d \in Decisions :
        /\ d.basis = "verified-edit" =>
              /\ d.from.source \notin answer.inventory.units
              /\ \E edit \in answer.inputs.edits :
                    LET first == d.from.range.from
                        last == d.from.range.to - 1
                    IN  /\ edit.replay = "ok"
                        /\ edit.before = d.from.source /\ edit.after = d.to.source
                        /\ first <= last =>
                              /\ {first, last} \subseteq Kept(edit, d.from.range)
                              /\ Landing(edit.replacements, first) = d.to.range.from
                              /\ Landing(edit.replacements, last) = d.to.range.to - 1
        /\ d.basis = "confirmed-new" /\ answer.inputs.previous # {} =>
              \E edit \in answer.inputs.edits :
                  /\ edit.replay = "ok" /\ edit.after = d.to.source
                  /\ edit.before # Nowhere =>
                        \A b \in 0..(edit.before.length - 1) :
                            Survives(edit.replacements, b) =>
                                Landing(edit.replacements, b) \notin Bytes(d.to.range)

(* An ID is retired only when the inventory is complete and agrees with the *)
(* host's membership, and either no byte of its declaration is left or its  *)
(* whole unit has left (automatic, absence, absent).                        *)
NothingRetiredUnseen ==
    Planned =>
        \A d \in {d \in Decisions : d.kind = "retire"} :
            /\ answer.inventory.complete
            /\ UnitsOf(answer.inventory.units) = answer.inputs.membership
            /\ \/ d.from.source.unit \notin answer.inputs.membership
               \/ \E edit \in answer.inputs.edits :
                     /\ edit.before = d.from.source /\ edit.replay = "ok"
                     /\ Kept(edit, d.from.range) = {}

(* The plan a reconciliation forms and the check of its bases disagree over *)
(* nothing but a declaration whose unit was removed, by an edit that is     *)
(* recorded as something else than one replacement of the declaration       *)
(* (reconcile.rs against bases.rs).                                         *)
DisagreesOnlyOnRemovals ==
    IsCurrent /\ answer.outcome = Unresolved("bases") =>
        /\ answer.inventory.complete
        /\ \E e \in Active(Snapshot) :
              /\ e.declaration \notin answer.inventory.declarations
              /\ e.declaration.source.unit \notin answer.inputs.membership
              /\ \E edit \in EditsFrom(answer.inputs.edits, e.declaration.source) :
                    /\ edit.after = Nowhere
                    /\ Fate(edit.replacements, e.declaration.range) # "replaced"

(* "its bases are checked by verify_bases against the same evidence, so     *)
(* planning and checking cannot disagree about what a basis needs"          *)
(* (reconcile.rs:20-23): what the planner proposes is never unproven.       *)
PlannerAndCheckerAgree == Answered => answer.outcome # Unresolved("bases")
=============================================================================
