---------------------------- MODULE Reconciliation ----------------------------
(***************************************************************************)
(* Planning an update of the intent registry (crates/                      *)
(* intlify_authoring_identity/src/reconcile.rs and continuity/): from an   *)
(* inventory, the edits a host supplies as evidence and the decisions it   *)
(* took, reconcile either plans one complete update or reports why it      *)
(* cannot, and verify_bases checks every plan against the same evidence.   *)
(*                                                                         *)
(* A source snapshot is its unit, revision and length; what it contains    *)
(* matters only through whether an edit replays over it, which is a field  *)
(* of the edit.  Declarations have one role.                               *)
(***************************************************************************)
EXTENDS IntentRegistry, SourceEdits

CONSTANTS
    Units,          \* source units of the scope
    Scenes(_),      \* what a host may bring to a reconciliation, given the chain
    HandMade(_),    \* the updates it may form without the planner
    MaxGenerations  \* bound of the model: length of the chain

\* ByteRange::new: a range is not reversed, but it may be empty.
ASSUME DeclarationsAssumption ==
    \A d \in Declarations :
        d.range.from \in Nat /\ d.range.to \in Nat /\ d.range.from <= d.range.to

VARIABLE answer      \* what the last reconciliation was given and returned

vars == <<chain, answer>>

Generation == Len(chain)
NoAnswer == [kind |-> "none"]

\* The inventory the head was planned from; a genesis has none.
Previous == IF chain = <<>> THEN {} ELSE {chain[Len(chain)].update.inventory}

-----------------------------------------------------------------------------
(* The host's inputs, held to the rules that make them inputs at all.       *)

\* Their types: SourceSnapshot, Replacement, ExplicitDecision::new.
SourceEdit ==
    {edit \in Edits : /\ edit.replacements \in Seq(Replacements)
                      /\ edit.before # Nowhere => edit.before.length \in Nat}
WellTyped(inventory, inputs) ==
    /\ inventory \in Inventories
    /\ inventory.declarations \subseteq Declarations /\ IsFiniteSet(inventory.declarations)
    /\ inputs.edits \subseteq SourceEdit /\ IsFiniteSet(inputs.edits)
    /\ IsFiniteSet(inputs.explicit)
    /\ \A x \in inputs.explicit : x.decision \in Decision /\ x.decision.basis = "explicit"
    /\ inputs.links \subseteq LineageLink
    /\ inputs.candidates \in Seq(Ids)

\* base_snapshots: a retired entry says nothing about the base.
BaseSnapshots(entries, previous) ==
    {e.declaration.source : e \in Active(entries)} \cup UNION {p.units : p \in previous}

UnitsOf(sources) == {s.unit : s \in sources}

\* validate_edit, which takes an absent before for an empty text.
ValidEdit(edit) ==
    /\ edit.before # Nowhere \/ edit.after # Nowhere
    /\ ValidReplacements(edit.replacements,
                         IF edit.before = Nowhere THEN 0 ELSE edit.before.length)

\* check_edit_set: the edits read like one change list from base to inventory.
EditSetFits(edits, base, inventory) ==
    /\ \A edit \in edits :
          /\ edit.before # Nowhere => edit.before \in base
          /\ edit.before = Nowhere => edit.after.unit \notin UnitsOf(base)
          /\ edit.after # Nowhere => edit.after \in inventory.units
          /\ edit.after = Nowhere => edit.before.unit \notin UnitsOf(inventory.units)
    /\ \A e, f \in edits : e # f =>
          /\ e.before = Nowhere \/ f.before = Nowhere \/ e.before.unit # f.before.unit
          /\ e.after = Nowhere \/ f.after = Nowhere \/ e.after.unit # f.after.unit

\* Seeded fault: the membership is not compared with the inventory.
AutomaticByPins(inventory, inputs) ==
    chain = <<>> \/ {p.pins : p \in inputs.previous} = {inventory.pins}

\* automatic: newness and absence need no choice when the membership is the
\* inventory's, and the base was resolved against the same pins.
Automatic(inventory, inputs) ==
    LET units == UnitsOf(inventory.units)
    IN  /\ IF inventory.complete THEN units = inputs.membership
                                 ELSE units \subseteq inputs.membership
        /\ \/ chain = <<>>
           \/ /\ inputs.previous # {}
              /\ \A p \in inputs.previous : p.pins = inventory.pins

\* admit: pairing, the previous update, the supplied edits, the candidates.
Admitted(inventory, inputs) ==
    /\ Paired(inventory)
    /\ inputs.previous \subseteq Previous
    /\ \A edit \in inputs.edits : ValidEdit(edit)
    /\ EditSetFits(inputs.edits, BaseSnapshots(Snapshot, inputs.previous), inventory)
    /\ \A i, j \in DOMAIN inputs.candidates :
          inputs.candidates[i] = inputs.candidates[j] => i = j

-----------------------------------------------------------------------------
(* What the evidence says (continuity/evidence.rs).                         *)

EditsFrom(edits, source) == {e \in edits : e.before = source}

\* Where an edit that replays puts a declaration, if it survives.
Target(edit, declaration) ==
    [source |-> edit.after, range |-> Moved(edit.replacements, declaration.range)]
Carries(edit, declaration) ==
    /\ edit.replay = "ok" /\ edit.after # Nowhere
    /\ Fate(edit.replacements, declaration.range) = "moved"

\* Evidence::claims: the active entries an account puts on a declaration.
Claimants(declaration, inventory, edits) ==
    {e.id : e \in {e \in Active(Snapshot) :
        /\ declaration \in inventory.declarations
        /\ \/ e.declaration = declaration
           \/ \E edit \in EditsFrom(edits, e.declaration.source) :
                 Carries(edit, e.declaration) /\ Target(edit, e.declaration) = declaration}}

\* An edit into the declaration's own snapshot inserted all of its text.
ShownNew(declaration, edits) ==
    \E edit \in edits :
        /\ edit.replay = "ok" /\ edit.after = declaration.source
        /\ Inserted(edit.replacements, declaration.range)

\* Associations::account: where an entry's declaration went.
Account(e, inventory, edits) ==
    LET source == e.declaration.source
        from == EditsFrom(edits, source)
        held == source \in inventory.units
        Is(kind) == [kind |-> kind, edits |-> from]
    IN  IF ~inventory.complete /\ source.unit \notin UnitsOf(inventory.units) THEN Is("unseen")
        ELSE IF from = {} THEN (IF held THEN Is("unshown") ELSE Is("gone"))
        ELSE IF held \/ Cardinality(from) > 1 THEN Is("unshown")
        ELSE LET edit == CHOOSE edit \in from : TRUE
                 fate == Fate(edit.replacements, e.declaration.range)
             IN  IF edit.replay # "ok" THEN Is("unshown")
                 ELSE IF edit.after = Nowhere \/ fate = "replaced" THEN Is("gone")
                 ELSE IF fate = "touched" THEN Is("unshown")
                 ELSE IF Target(edit, e.declaration) \in inventory.declarations
                      THEN Is("carried") ELSE Is("unshown")

-----------------------------------------------------------------------------
(* The planner (reconcile.rs and reconcile/classify.rs).                    *)

\* Planner::fit, and the decision's declaration is in the inventory.
Fits(x, inventory) ==
    /\ x.base = Generation /\ x.inventory = inventory
    /\ FitsBase(x.decision, Snapshot, inventory)
    /\ x.decision.to \in inventory.declarations

\* Seeded fault: explicit decisions do not compete with each other.
AcceptedTogether(explicit, inventory) ==
    LET fitting == {x.decision : x \in {x \in explicit : Fits(x, inventory)}}
        moved == {d.id : d \in {d \in fitting : d.kind # "allocate"}}
    IN  {d \in fitting : \A h \in Holders(Snapshot, d.to) : h.id \in moved}

\* Planner::explicit: two that agree on an ID or a declaration compete, and
\* so does one onto a declaration another entry keeps.
AcceptedExplicit(explicit, inventory) ==
    LET alone == {x.decision : x \in {x \in explicit : Fits(x, inventory)}}
        fitting == {d \in alone : \A o \in alone \ {d} : o.id # d.id /\ o.to # d.to}
        moved == {d.id : d \in {d \in fitting : d.kind # "allocate"}}
    IN  {d \in fitting : \A h \in Holders(Snapshot, d.to) : h.id \in moved}

\* Seeded fault: an entry that is gone is kept whatever the inventory.
StaysGone(kind, inventory) == kind \in {"unseen", "gone"}

\* An entry whose declaration a partial inventory does not show is kept.
Stays(kind, inventory) == kind = "unseen" \/ (kind = "gone" /\ ~inventory.complete)

\* Steps 3 to 7: the decisions each rule makes, and whether anything is left
\* that the inputs do not show.
Classify(inventory, inputs) ==
    LET edits == inputs.edits
        explicit == AcceptedExplicit(inputs.explicit, inventory)
        chosen == {d.to : d \in explicit}
        moved == {d.id : d \in {d \in explicit : d.kind # "allocate"}}
        staying == {e \in Active(Snapshot) : e.id \notin moved}
        retained == {e \in staying : e.declaration \in inventory.declarations}
        gone == staying \ retained
        of(kind) == {e \in gone : Account(e, inventory, edits).kind = kind}
        edit(e) == CHOOSE edit \in EditsFrom(edits, e.declaration.source) : TRUE
        to(e) == Target(edit(e), e.declaration)
        Uncontested(e) ==
            /\ to(e) \notin chosen
            /\ Claimants(to(e), inventory, edits) = {e.id}
        continued == {e \in of("carried") : Uncontested(e)}
        \* absence: a removal has to agree with the membership.
        Removed(e) ==
            /\ \A x \in EditsFrom(edits, e.declaration.source) : x.after = Nowhere
            /\ e.declaration.source.unit \in inputs.membership
        absent == IF inventory.complete /\ Automatic(inventory, inputs)
                  THEN {e \in of("gone") : ~Removed(e)} ELSE {}
        kept == {e \in gone : Stays(Account(e, inventory, edits).kind, inventory)}
        remaining == inventory.declarations \
            (chosen \cup {e.declaration : e \in retained} \cup {to(e) : e \in of("carried")})
        new == IF ~Automatic(inventory, inputs) THEN {}
               ELSE {d \in remaining :
                        \/ Snapshot = {}
                        \/ Claimants(d, inventory, edits) = {} /\ ShownNew(d, edits)}
    IN  [resolved |-> /\ Cardinality(explicit) = Cardinality(inputs.explicit)
                      /\ gone = continued \cup absent \cup kept
                      /\ remaining = new,
         explicit |-> explicit,
         continuations |-> {[kind |-> "continue", id |-> e.id, from |-> e.declaration,
                             to |-> to(e), basis |-> "verified-edit", changes |-> {edit(e)}]
                            : e \in continued},
         retirements |-> {[kind |-> "retire", id |-> e.id, from |-> e.declaration,
                           to |-> Nowhere, basis |-> "complete-absence", changes |-> {}]
                          : e \in absent},
         new |-> new]

\* allocate: the next candidates, in the order of the new declarations.
Usable(class, candidates) ==
    /\ Cardinality(class.new) <= Len(candidates)
    /\ \A i \in 1..Cardinality(class.new) :
          candidates[i] \notin IdsOf(Snapshot) \cup {d.id : d \in class.explicit}
Allocations(class, candidates) ==
    LET n == Cardinality(class.new)
        order == CHOOSE f \in [1..n -> class.new] : \A i, j \in 1..n : f[i] = f[j] => i = j
    IN  {[kind |-> "allocate", id |-> candidates[i], from |-> Nowhere, to |-> order[i],
          basis |-> "confirmed-new", changes |-> {}] : i \in 1..n}

-----------------------------------------------------------------------------
(* The checker (continuity/bases.rs), which reads the same evidence again.  *)

\* Evidence::gather: the edits the decisions carry and the supplied ones.
Evidence(update, inputs) == inputs.edits \cup UNION {d.changes : d \in update.decisions}

\* continued: one edit, from the declaration's snapshot to its snapshot, the
\* only account of the former, carries it there and nothing else.
ShownContinued(d, inventory, edits) ==
    \E edit \in d.changes :
        /\ d.changes = {edit}
        /\ edit.before = d.from.source /\ edit.after = d.to.source
        /\ EditsFrom(edits, d.from.source) = {edit} /\ d.from.source \notin inventory.units
        /\ Carries(edit, d.from) /\ Target(edit, d.from) = d.to
        /\ Claimants(d.to, inventory, edits) \subseteq {d.id}

\* new.
ShownAllocated(d, inventory, edits) ==
    \/ Snapshot = {}
    \/ Claimants(d.to, inventory, edits) = {} /\ ShownNew(d.to, edits)

\* Seeded fault: a unit that left without an edit shows nothing.
ShownAbsentByEdit(d, inventory, inputs, edits) ==
    \E edit \in EditsFrom(edits, d.from.source) :
        /\ edit.replay = "ok"
        /\ Fate(edit.replacements, d.from.range) = "replaced"

\* absent: without an edit the whole unit has to be gone; one edit has to
\* replace the declaration, and a removal agrees with the membership.
ShownAbsent(d, inventory, inputs, edits) ==
    LET source == d.from.source
        from == EditsFrom(edits, source)
    IN  /\ source \notin inventory.units
        /\ \/ from = {} /\ source.unit \notin inputs.membership
           \/ \E edit \in from :
                 /\ from = {edit} /\ edit.replay = "ok"
                 /\ IF edit.after = Nowhere THEN source.unit \notin inputs.membership
                                            ELSE edit.after \in inventory.units
                 /\ Fate(edit.replacements, d.from.range) = "replaced"

\* The verdict on one decision by itself.
Verdict(d, update, inventory, inputs) ==
    LET edits == Evidence(update, inputs)
        Shown ==
            CASE d.basis = "unchanged-snapshot" -> TRUE
              [] d.basis = "verified-edit" -> ShownContinued(d, inventory, edits)
              [] d.basis = "confirmed-new" ->
                    Automatic(inventory, inputs) /\ ShownAllocated(d, inventory, edits)
              [] OTHER ->
                    Automatic(inventory, inputs) /\ ShownAbsent(d, inventory, inputs, edits)
    IN  IF d.basis = "explicit" THEN "explicit" ELSE IF Shown THEN "proven" ELSE "unproven"

\* verify_bases: nothing is known to be gone while another association is
\* not shown.
VerifyBases(update, inventory, inputs) ==
    LET alone == [d \in update.decisions |-> Verdict(d, update, inventory, inputs)]
        open == \E d \in update.decisions : d.kind # "retire" /\ alone[d] = "unproven"
    IN  [d \in update.decisions |->
            IF open /\ d.kind = "retire" /\ alone[d] = "proven" THEN "unproven" ELSE alone[d]]

-----------------------------------------------------------------------------
(* reconcile.                                                               *)

Failed(cause) == [kind |-> "failed", cause |-> cause]
Unresolved(cause) == [kind |-> "unresolved", cause |-> cause]

\* The update a classification amounts to.
Formed(class, inventory, inputs) ==
    [base |-> Generation, inventory |-> inventory,
     decisions |-> class.explicit \cup class.continuations \cup class.retirements
                   \cup Allocations(class, inputs.candidates),
     links |-> inputs.links]

\* plan: form the update, apply it to its base and check its bases.
Plan(update, inventory, inputs) ==
    LET result == Apply(Generation, Snapshot, update, inventory)
        verdicts == VerifyBases(update, inventory, inputs)
    IN  IF ~ValidUpdate(update) THEN Failed("update")
        ELSE IF result \in {"refused", "malformed"} THEN Failed("transition")
        ELSE IF result = "unchanged" THEN [kind |-> "unchanged"]
        ELSE IF \E d \in update.decisions : verdicts[d] = "unproven" THEN Unresolved("bases")
        ELSE [kind |-> "planned", update |-> update, entries |-> EntriesAfter(Snapshot, update)]

Outcome(inventory, inputs) ==
    LET class == Classify(inventory, inputs)
    IN  IF ~Admitted(inventory, inputs) THEN Failed("inputs")
        ELSE IF ~class.resolved THEN Unresolved("classification")
        ELSE IF ~Usable(class, inputs.candidates) THEN Failed("candidates")
        ELSE Plan(Formed(class, inventory, inputs), inventory, inputs)

-----------------------------------------------------------------------------
Reconcile ==
    /\ answer = NoAnswer
    /\ \E scene \in {s \in Scenes(chain) : WellTyped(s.inventory, s.inputs)} :
          answer' = [kind |-> "given", base |-> Generation,
                     inventory |-> scene.inventory, inputs |-> scene.inputs,
                     outcome |-> Outcome(scene.inventory, scene.inputs)]
    /\ UNCHANGED chain

Planned == answer.kind = "given" /\ answer.outcome.kind = "planned"

\* The host publishes a plan, perhaps after the registry moved on.
Publish ==
    /\ Planned
    /\ Len(chain) < MaxGenerations
    /\ Accept(answer.outcome.update, answer.inventory)
    /\ answer' = NoAnswer

\* An update a host formed without the planner goes through the same apply.
HandUpdate ==
    /\ Len(chain) < MaxGenerations
    /\ \E update \in HandMade(chain) : Accept(update, update.inventory)
    /\ UNCHANGED answer

\* Unresolved and failed plans, and plans the host does not publish.
Discard == answer # NoAnswer /\ answer' = NoAnswer /\ UNCHANGED chain

Init == RegistryInit /\ answer = NoAnswer
Next == Reconcile \/ Publish \/ HandUpdate \/ Discard
Spec == Init /\ [][Next]_vars
=============================================================================
