----------------------------- MODULE MessageLink -----------------------------
(***************************************************************************)
(* The message linker (crates/intlify_linker/src): from the definitions    *)
(* catalogs contain and the references code makes, which messages every    *)
(* delivery unit must carry in every locale, and what is wrong with the    *)
(* project.                                                                *)
(*                                                                         *)
(* A request is a record:                                                  *)
(*   definitions  set of [scope, key, locale, at], at the source location  *)
(*   references   set of [id, unit, scope, selector]                       *)
(*   mapping      declared scope -> the scope it is resolved to            *)
(*   partial      side -> the declared scopes with an incomplete input     *)
(*   locales, fallbacks, roots, baselines, dynamic   the policy            *)
(*   units, edges the delivery graph                                       *)
(* A scope has one key domain (validate_resolved_domains), so domains are  *)
(* left out, and so are the reasons given for configured roots.  Of the    *)
(* limits the pattern budget is kept: it is charged while matching.        *)
(***************************************************************************)
EXTENDS KeySelectors

CONSTANTS Requests,        \* the requests that are submitted
          MaxMatchStates   \* LinkLimitCounter::PatternMatchStatesTotal

ASSUME MaxMatchStatesAssumption == MaxMatchStates \in Nat

-----------------------------------------------------------------------------
(* LinkRequest::try_new and the tables it is given.                         *)

\* What the types of the tables guarantee.  ConfiguredRoot::try_new refuses
\* a root that selects dynamically.
WellFormed(r) ==
    /\ DOMAIN r = {"definitions", "references", "mapping", "partial", "locales", "fallbacks",
                   "roots", "baselines", "dynamic", "units", "edges"}
    /\ IsFiniteSet(r.definitions) /\ IsFiniteSet(r.references) /\ IsFiniteSet(r.roots)
    /\ \A d \in r.definitions : IsVector(d.key)
    /\ \A x \in r.references \cup r.roots : ValidSelector(x.selector)
    /\ \A root \in r.roots : root.selector # UnboundedDynamic
    /\ \A source \in DOMAIN r.fallbacks : IsVector(r.fallbacks[source])
    /\ r.dynamic \in {"compat", "strict"}

ASSUME RequestsAssumption == \A r \in Requests : WellFormed(r)

Resolved(r, scope) == r.mapping[scope]

\* ScopeMappingTable::try_new: one hop, between declared scopes.
ValidMapping(r) ==
    \A s \in DOMAIN r.mapping :
        r.mapping[s] \in DOMAIN r.mapping /\ r.mapping[r.mapping[s]] = r.mapping[s]

\* validate_and_canonicalize_policy
ValidPolicy(r) ==
    /\ r.locales # {}
    /\ \A source \in DOMAIN r.fallbacks :
          LET targets == r.fallbacks[source]
          IN  /\ source \in r.locales /\ targets # <<>>
              /\ ToSet(targets) \subseteq r.locales \ {source}
              /\ IsInjective(targets)
    /\ \A b \in r.baselines : b.locale \in r.locales

\* DeliveryUnitGraph::try_new.  A finite graph has a cycle exactly when some
\* set of nodes has no member without a parent in the set.
ValidGraph(r) ==
    /\ r.edges \subseteq r.units \X r.units
    /\ \A set \in (SUBSET r.units) \ {{}} : \E n \in set : \A m \in set : <<m, n>> \notin r.edges

\* validate_scope_bindings
ValidScopes(r) ==
    \A x \in r.definitions \cup r.references \cup r.roots \cup r.baselines :
        x.scope \in DOMAIN r.mapping

\* Seeded fault: the delivery unit of a reference is not looked up.
ValidDeliveryOfRoots(r) == r.units = {} => r.roots = {}

\* validate_delivery_bindings
ValidDelivery(r) ==
    /\ \A ref \in r.references : ref.unit \in r.units
    /\ r.units = {} => r.roots = {}

\* ResolvedLinkPolicy::resolve: mapped together, baselines must still agree.
ValidResolution(r) ==
    \A b, c \in r.baselines :
        Resolved(r, b.scope) = Resolved(r, c.scope) => b.locale = c.locale

Admissible(r) ==
    /\ ValidMapping(r) /\ ValidPolicy(r) /\ ValidGraph(r)
    /\ ValidScopes(r) /\ ValidDelivery(r) /\ ValidResolution(r)

-----------------------------------------------------------------------------
(* The semantic index.                                                      *)

Logical(scope, key) == [scope |-> scope, key |-> key]

\* build_semantic_index
Definitions(r) ==
    {[logical |-> Logical(Resolved(r, d.scope), d.key), locale |-> d.locale, at |-> d.at] :
        d \in r.definitions}

References(r) ==
    {[id |-> f.id, unit |-> f.unit, scope |-> Resolved(r, f.scope), selector |-> f.selector] :
        f \in r.references}

ConfiguredRoots(r) ==
    {[scope |-> Resolved(r, root.scope), selector |-> root.selector] : root \in r.roots}

Candidates(r, scope) == {d.logical.key : d \in {e \in Definitions(r) : e.logical.scope = scope}}

\* analyze_definitions: defined twice in one locale, a message is out for all.
Ambiguities(r) ==
    LET defs == Definitions(r)
    IN  {d \in defs : \E e \in defs : e.logical = d.logical /\ e.locale = d.locale /\ e.at # d.at}

AmbiguousLogical(r) == {d.logical : d \in Ambiguities(r)}
UniqueDefinitions(r) == {d \in Definitions(r) : d.logical \notin AmbiguousLogical(r)}

\* ResolvedScopeCompletenessTable: partial if any contributor is.
SideClosed(r, side, scope) ==
    \A s \in DOMAIN r.mapping : Resolved(r, s) = scope => s \notin r.partial[side]

DefinitionSideClosed(r, scope) == SideClosed(r, "definitions", scope)
BothSidesClosed(r, scope) == SideClosed(r, "definitions", scope) /\ SideClosed(r, "references", scope)

-----------------------------------------------------------------------------
(* Coverage baselines and typed-key models.                                 *)

Scopes(r) == {Resolved(r, s) : s \in DOMAIN r.mapping}
BaselineOf(r, scope) == {b.locale : b \in {c \in r.baselines : Resolved(r, c.scope) = scope}}
UniqueIn(r, scope) == {d \in UniqueDefinitions(r) : d.logical.scope = scope}

BaselineDefinitions(r, scope) == {d \in UniqueIn(r, scope) : d.locale \in BaselineOf(r, scope)}

\* Seeded fault: the difference is taken the other way round.
KeysUntranslated(r, scope) ==
    {d.logical.key : d \in BaselineDefinitions(r, scope)}
    \ {d.logical.key : d \in UniqueIn(r, scope) \ BaselineDefinitions(r, scope)}

\* analyze_coverage: the production keys the baseline does not define.
KeysMissing(r, scope) ==
    {d.logical.key : d \in {e \in UniqueIn(r, scope) : e.locale \in r.locales}}
    \ {d.logical.key : d \in BaselineDefinitions(r, scope)}

CoverageSelected(r, scope) == BaselineOf(r, scope) # {} /\ DefinitionSideClosed(r, scope)

\* construct_typed_key_models
HasModel(r, scope) ==
    /\ CoverageSelected(r, scope)
    /\ \A l \in AmbiguousLogical(r) : l.scope # scope
    /\ KeysMissing(r, scope) = {}

TypedKeyModels(r) ==
    {[scope |-> s, baseline |-> BaselineDefinitions(r, s)] : s \in {t \in Scopes(r) : HasModel(r, t)}}

-----------------------------------------------------------------------------
(* Selection and locale-aware resolution.                                   *)

Chain(r, locale) ==
    <<locale>> \o IF locale \in DOMAIN r.fallbacks THEN r.fallbacks[locale] ELSE <<>>

LogicalOf(scope, keys) == {Logical(scope, k) : k \in keys}

\* A dynamic reference selects all it could mean, or nothing where it is an error.
Selected(r, ref) ==
    LogicalOf(ref.scope,
        IF ref.selector # UnboundedDynamic THEN SelectKeys(ref.selector, Candidates(r, ref.scope))
        ELSE IF r.dynamic = "compat" THEN Candidates(r, ref.scope) ELSE {})

RootSelected(r) ==
    UNION {LogicalOf(root.scope, SelectKeys(root.selector, Candidates(r, root.scope))) :
             root \in ConfiguredRoots(r)}

\* PatternWorkBudget: the states charged over all references and roots.
Charged(by, key) == {<<by, key, s>> : s \in MatchStates(by.selector.tokens, key)}
ChargedBy(r, by) == UNION {Charged(by, key) : key \in Candidates(r, by.scope)}
MatchWork(r) ==
    Cardinality(UNION {ChargedBy(r, x) :
        x \in {y \in References(r) \cup ConfiguredRoots(r) : y.selector.kind = "pattern"}})

UnmatchedNonExact(r, ref) ==
    /\ IsNonExactBounded(ref.selector)
    /\ Selected(r, ref) = {}
    /\ DefinitionSideClosed(r, ref.scope)

\* resolve_references: the messages whose absence would be a fact.
Demands(r) ==
    {l \in RootSelected(r) \cup UNION {Selected(r, ref) : ref \in References(r)} :
        l \notin AmbiguousLogical(r) /\ DefinitionSideClosed(r, l.scope)}

ExactDefinition(r, logical, locale) ==
    {d \in UniqueDefinitions(r) : d.logical = logical /\ d.locale = locale}

\* The definition a locale gets: the first one along its chain, if any.
Chosen(r, logical, locale) ==
    LET chain == Chain(r, locale)
        hits == {i \in DOMAIN chain : ExactDefinition(r, logical, chain[i]) # {}}
    IN  IF hits = {} THEN {} ELSE ExactDefinition(r, logical, chain[Min(hits)])

Facts(r) == [l \in Demands(r) |-> [locale \in r.locales |-> Chosen(r, l, locale)]]

-----------------------------------------------------------------------------
(* Placement: every unit carries what its own references reach, a root unit *)
(* of the graph also what the configured roots reach.                       *)

RootUnits(r) == {n \in r.units : \A m \in r.units : <<m, n>> \notin r.edges}

\* build_duplicate_reachability
Reachable(r, unit) ==
    ((UNION {Selected(r, ref) : ref \in {f \in References(r) : f.unit = unit}})
     \cup (IF unit \in RootUnits(r) THEN RootSelected(r) ELSE {}))
    \ AmbiguousLogical(r)

UnboundedScopes(r) == {ref.scope : ref \in {f \in References(r) : f.selector = UnboundedDynamic}}

-----------------------------------------------------------------------------
(* Findings.                                                                *)

\* reference_resolution_failures
Failures(r, facts, ref) ==
    IF ref.selector = UnboundedDynamic THEN {}
    ELSE IF UnmatchedNonExact(r, ref) THEN {[key |-> "selector", locale |-> l] : l \in r.locales}
    ELSE {f \in [key : {l.key : l \in Selected(r, ref)}, locale : r.locales] :
             /\ Logical(ref.scope, f.key) \in DOMAIN facts
             /\ facts[Logical(ref.scope, f.key)][f.locale] = {}}

Unresolved(r, facts) ==
    {[kind |-> "unresolved", reference |-> ref.id, failures |-> Failures(r, facts, ref)] :
        ref \in {f \in References(r) : Failures(r, facts, f) # {}}}

MissingTranslations(r, facts) ==
    UNION {{[kind |-> "missing", reference |-> ref.id, logical |-> l, locale |-> locale] :
              l \in {m \in Selected(r, ref) \cap DOMAIN facts :
                       \E d \in facts[m][locale] : d.locale # locale}} :
             ref \in References(r), locale \in r.locales}

OrphanedTranslations(r) ==
    {[kind |-> "orphaned", definition |-> d] :
        d \in {e \in UniqueDefinitions(r) :
                 /\ CoverageSelected(r, e.logical.scope)
                 /\ e.logical.key \in KeysMissing(r, e.logical.scope)
                 /\ e.locale \notin BaselineOf(r, e.logical.scope)}}

\* Seeded fault: only what the root units reach counts as reached.
UnusedByRootUnits(r) ==
    {d \in UniqueDefinitions(r) :
        /\ \A unit \in RootUnits(r) : d.logical \notin Reachable(r, unit)
        /\ d.logical.scope \notin UnboundedScopes(r)
        /\ BothSidesClosed(r, d.logical.scope)}

\* should_report_unused
UnusedDefinitions(r) ==
    {d \in UniqueDefinitions(r) :
        /\ \A unit \in r.units : d.logical \notin Reachable(r, unit)
        /\ d.logical.scope \notin UnboundedScopes(r)
        /\ BothSidesClosed(r, d.logical.scope)}

Partials(r) ==
    {[kind |-> "partial", scope |-> s, side |-> side] :
        s \in Scopes(r), side \in {"definitions", "references"}}

\* materialize_findings
Findings(r, facts) ==
    {[kind |-> "ambiguous", logical |-> d.logical, locale |-> d.locale] : d \in Ambiguities(r)}
    \cup Unresolved(r, facts)
    \cup MissingTranslations(r, facts)
    \cup OrphanedTranslations(r)
    \cup {[kind |-> "unused", definition |-> d] : d \in UnusedDefinitions(r)}
    \cup {[kind |-> "unbounded", reference |-> ref.id, mode |-> r.dynamic] :
             ref \in {f \in References(r) : f.selector = UnboundedDynamic}}
    \cup {[kind |-> "wide", reference |-> ref.id] :
             ref \in {f \in References(r) : f.selector = AllInScope}}
    \cup {p \in Partials(r) : ~SideClosed(r, p.side, p.scope)}

\* LinkFindingRecord::blocking
Blocking(f) ==
    \/ f.kind \in {"ambiguous", "unresolved", "partial"}
    \/ f.kind = "unbounded" /\ f.mode = "strict"

-----------------------------------------------------------------------------
(* link                                                                     *)

\* materialize_plans needs a fact for everything a unit reaches.
FactsSuffice(r, facts) == \A unit \in r.units : Reachable(r, unit) \subseteq DOMAIN facts

\* build_duplicate_reachability looks the unit of every reference up, and the
\* completeness of its scope is looked up by whoever asks if a side is closed;
\* both answer InternalInvariant when they find nothing.
UnitIsKnown(r, ref) == ref.unit \in r.units
ScopeIsKnown(r, ref) == ref.scope \in Scopes(r)
LookupsSucceed(r) ==
    \A ref \in References(r) : UnitIsKnown(r, ref) /\ ScopeIsKnown(r, ref)

Plans(r, facts) ==
    [unit \in r.units |-> [locale \in r.locales |->
        UNION {facts[l][locale] : l \in Reachable(r, unit)}]]

NoPlans == [unit \in {} |-> {}]

Outcome(status, findings, plans, models) ==
    [status |-> status, findings |-> findings, plans |-> plans, models |-> models]
NoOutcome(status) == Outcome(status, {}, NoPlans, {})

Link(r) ==
    LET facts == Facts(r)
        findings == Findings(r, facts)
        blocked == \E f \in findings : Blocking(f)
    IN  IF MatchWork(r) > MaxMatchStates THEN NoOutcome("limit")
        ELSE IF ~LookupsSucceed(r) \/ ~(blocked \/ FactsSuffice(r, facts))
             THEN NoOutcome("internal")
        ELSE IF blocked THEN Outcome("blocked", findings, NoPlans, TypedKeyModels(r))
        ELSE Outcome("planned", findings, Plans(r, facts), TypedKeyModels(r))

-----------------------------------------------------------------------------
(* A caller submits a request, and links it if it is admitted.              *)

VARIABLES request, outcome
vars == <<request, outcome>>

Init == request \in Requests /\ outcome = NoOutcome("submitted")

Admit ==
    /\ outcome.status = "submitted"
    /\ outcome' = NoOutcome(IF Admissible(request) THEN "admitted" ELSE "rejected")
    /\ UNCHANGED request

LinkRequest ==
    /\ outcome.status = "admitted"
    /\ outcome' = Link(request)
    /\ UNCHANGED request

Next == Admit \/ LinkRequest

Spec == Init /\ [][Next]_vars
=============================================================================
