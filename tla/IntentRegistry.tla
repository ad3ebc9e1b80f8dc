---------------------------- MODULE IntentRegistry ----------------------------
(***************************************************************************)
(* The registry of message intents (crates/intlify_authoring_identity/     *)
(* src/registry): an immutable snapshot says which Intent ID names which   *)
(* declaration, an update decides about some IDs, and applying an update   *)
(* to its exact base under the inventory it was planned from gives the     *)
(* next snapshot or nothing at all.  The snapshots a host accepted form a  *)
(* chain, which anyone who retains its artifacts can replay.               *)
(*                                                                         *)
(* One owner and one scope.  A snapshot is named by its position in the    *)
(* chain, where the code uses the digest of an artifact that names its     *)
(* base in turn; an inventory is named by itself.  The order in which the  *)
(* checks of an update run only chooses which failure is reported.         *)
(***************************************************************************)
EXTENDS Naturals, Sequences, FiniteSets

CONSTANTS
    Ids,           \* MessageIntentId
    Declarations,  \* Occurrence with a declaration role
    Nowhere,       \* stands for an absent occurrence
    Inventories,   \* what an inventory may be
    Edits,         \* SourceEdit
    MaxHistorySteps   \* limits.history_steps

ASSUME NowhereAssumption == Nowhere \notin Declarations
ASSUME HistoryAssumption == MaxHistorySteps \in Nat
VARIABLE chain   \* the updates applied since genesis, each with its result

EntryState == {"active", "retired"}
Entry == [id : Ids, state : EntryState, declaration : Declarations]

(* An allocation has no base declaration, a retirement no current one.  Only *)
(* a verified edit carries a change list.                                    *)
DecisionOf(kind, from, to, basis, changes) ==
    [kind : {kind}, id : Ids, from : from, to : to, basis : basis, changes : changes]
Decision ==
    DecisionOf("continue", Declarations, Declarations, {"unchanged-snapshot", "explicit"}, {{}})
    \cup DecisionOf("continue", Declarations, Declarations, {"verified-edit"}, SUBSET Edits)
    \cup DecisionOf("allocate", {Nowhere}, Declarations, {"confirmed-new", "explicit"}, {{}})
    \cup DecisionOf("retire", Declarations, {Nowhere}, {"complete-absence"}, {{}})
    \cup DecisionOf("restore", Declarations, Declarations, {"explicit"}, {{}})

LineageLink == [kind : {"copy", "split", "merge"},
                predecessors : SUBSET Ids, successors : SUBSET Ids]
Update == [base : Nat, inventory : Inventories,
           decisions : SUBSET Decision, links : SUBSET LineageLink]

Decided(update) == {d.id : d \in update.decisions}
Given(update) == {d.to : d \in update.decisions} \ {Nowhere}

Snapshot == IF chain = <<>> THEN {} ELSE chain[Len(chain)].entries

\* The base a step of a chain starts from.
BaseOf(history, i) == IF i = 1 THEN {} ELSE history[i - 1].entries

IdsOf(entries) == {e.id : e \in entries}
Active(entries) == {e \in entries : e.state = "active"}
Holders(entries, declaration) == {e \in Active(entries) : e.declaration = declaration}

-----------------------------------------------------------------------------
(* What is well formed on its own.                                          *)

\* IntentRegistrySnapshot::validate: an ID has one entry, and no two active
\* entries share a declaration.
WellFormed(entries) ==
    /\ \A e, f \in entries : e.id = f.id => e = f
    /\ \A e, f \in Active(entries) : e.declaration = f.declaration => e.id = f.id

\* A copy leaves its source behind and names a new ID; a split has several
\* successors, a merge several predecessors.
ValidLink(update, link) ==
    CASE link.kind = "copy" ->
            \E p, s \in Ids :
                /\ link.predecessors = {p} /\ link.successors = {s} /\ p # s
                /\ \E d \in update.decisions : d.id = s /\ d.kind = "allocate"
      [] link.kind = "split" ->
            Cardinality(link.predecessors) = 1 /\ Cardinality(link.successors) >= 2
      [] OTHER ->
            Cardinality(link.predecessors) >= 2 /\ Cardinality(link.successors) = 1

\* IntentRegistryUpdate::validate.
ValidUpdate(update) ==
    /\ \A d, e \in update.decisions :
          \/ d = e
          \/ d.id # e.id /\ (d.to = Nowhere \/ d.to # e.to)
    /\ \A d \in update.decisions :
          d.kind = "continue" /\ d.basis = "unchanged-snapshot" => d.from = d.to
    /\ \A link \in update.links : ValidLink(update, link)

-----------------------------------------------------------------------------
(* apply: every check has to hold, and then the decisions take effect.      *)

\* check_base_state.
FitsBase(d, entries, inventory) ==
    LET holding(state) ==
            \E e \in entries : e.id = d.id /\ e.state = state /\ e.declaration = d.from
    IN  CASE d.kind = "allocate" -> d.id \notin IdsOf(entries)
          [] d.kind = "retire" -> inventory.complete /\ holding("active")
          [] d.kind = "continue" -> holding("active")
          [] OTHER -> holding("retired")

\* check_target: a declaration of the inventory that no entry the update
\* leaves alone holds.
TargetIsFree(d, entries, update, inventory) ==
    d.to # Nowhere =>
        /\ d.to \in inventory.declarations
        /\ \A e \in Holders(entries, d.to) : e.id = d.id \/ e.id \in Decided(update)

\* Seeded fault: a declaration counts as covered by the holder it loses.
CoversByAnyHolder(entries, update, inventory) ==
    \A declaration \in inventory.declarations :
        declaration \in Given(update) \/ Holders(entries, declaration) # {}

\* check_coverage.
Covers(entries, update, inventory) ==
    \A declaration \in inventory.declarations :
        \/ declaration \in Given(update)
        \/ \E e \in Holders(entries, declaration) : e.id \notin Decided(update)

\* check_links.
LinksResolve(entries, update) ==
    \A link \in update.links :
        /\ link.predecessors \subseteq IdsOf(entries)
        /\ link.successors \subseteq IdsOf(entries) \cup Decided(update)

\* check_pairing: of one owner and scope, only an unchecked unit is left.
Paired(inventory) == inventory.checked

\* Seeded fault: the base the update names is not compared.
ChecksPassAnyBase(position, entries, update, inventory) ==
    /\ update.inventory = inventory
    /\ Paired(inventory)
    /\ \A d \in update.decisions :
          FitsBase(d, entries, inventory) /\ TargetIsFree(d, entries, update, inventory)
    /\ Covers(entries, update, inventory)
    /\ LinksResolve(entries, update)

ChecksPass(position, entries, update, inventory) ==
    /\ update.base = position
    /\ update.inventory = inventory
    /\ Paired(inventory)
    /\ \A d \in update.decisions :
          FitsBase(d, entries, inventory) /\ TargetIsFree(d, entries, update, inventory)
    /\ Covers(entries, update, inventory)
    /\ LinksResolve(entries, update)

\* Seeded fault: a retired ID takes the declaration the decision gives.
EntryAfterGiven(d) ==
    [id |-> d.id,
     state |-> IF d.kind = "retire" THEN "retired" ELSE "active",
     declaration |-> d.to]

\* next_entry: a retired ID keeps its last declaration.
EntryAfter(d) ==
    [id |-> d.id,
     state |-> IF d.kind = "retire" THEN "retired" ELSE "active",
     declaration |-> IF d.kind = "retire" THEN d.from ELSE d.to]

\* Seeded fault: a retirement deletes the entry.
EntriesAfterDeleting(entries, update) ==
    {e \in entries : e.id \notin Decided(update)}
    \cup {EntryAfter(d) : d \in {d \in update.decisions : d.kind # "retire"}}

\* next_entries.
EntriesAfter(entries, update) ==
    {e \in entries : e.id \notin Decided(update)} \cup {EntryAfter(d) : d \in update.decisions}

\* An update that decides and records nothing leaves its base as it is; a
\* result that is not well formed is refused like a failed check.
Apply(position, entries, update, inventory) ==
    IF ~ChecksPass(position, entries, update, inventory) THEN "refused"
    ELSE IF update.decisions = {} /\ update.links = {} THEN "unchanged"
    ELSE IF WellFormed(EntriesAfter(entries, update)) THEN "applied"
    ELSE "malformed"

-----------------------------------------------------------------------------
(* Verifying a chain from its retained artifacts.                           *)

\* Seeded fault: the stored snapshot is not compared with the result.
ReplaysUncompared(history, i) ==
    Apply(i - 1, BaseOf(history, i), history[i].update, history[i].update.inventory) = "applied"

\* replay: the stored snapshot is the result of its update, exactly.
Replays(history, i) ==
    LET step == history[i]
        base == BaseOf(history, i)
    IN  /\ Apply(i - 1, base, step.update, step.update.inventory) = "applied"
        /\ step.entries = EntriesAfter(base, step.update)

\* verify_history walks from the head to the anchor, looking each artifact up
\* by its reference, and replays nothing before everything was found.
\* `lost' holds the artifacts that are not retained; the head and the anchor
\* are supplied and are never looked up.
VerifyHistory(history, anchor, lost) ==
    LET walked == {i \in DOMAIN history : i > anchor \/ anchor > Len(history)}
        Lacks(i) ==
            \/ <<"update", i>> \in lost
            \/ <<"inventory", i>> \in lost
            \/ i - 1 # anchor /\ <<"registry", i - 1>> \in lost
        Beyond(i) == Len(history) - i >= MaxHistorySteps
        Stops == {i \in walked : Lacks(i) \/ Beyond(i)}
        first == CHOOSE i \in Stops : \A j \in Stops : j <= i
    IN  IF Stops # {} THEN (IF Beyond(first) THEN "limit" ELSE "blocked")
        ELSE IF anchor > Len(history) THEN "not-anchored"
        ELSE IF \A i \in walked : Replays(history, i) THEN "verified"
        ELSE "not-replayed"

-----------------------------------------------------------------------------
\* The host accepts the result of an update applied to the head.
Accept(update, inventory) ==
    /\ update \in Update /\ ValidUpdate(update)
    /\ Apply(Len(chain), Snapshot, update, inventory) = "applied"
    /\ chain' = Append(chain, [update |-> update, entries |-> EntriesAfter(Snapshot, update)])

RegistryInit == chain = <<>>
RegistryNext == \E update \in Update, inventory \in Inventories : Accept(update, inventory)
RegistrySpec == RegistryInit /\ [][RegistryNext]_chain
=============================================================================
