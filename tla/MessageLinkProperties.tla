------------------------ MODULE MessageLinkProperties ------------------------
(***************************************************************************)
(* What the linker promises to the exporters, to the author of a catalog   *)
(* and to typed accessors.  The definitions of this section say what a     *)
(* reference asks for without the linker's index, facts or automaton.      *)
(***************************************************************************)
EXTENDS MessageLink

\* A pattern covers a key if the key can be cut into one piece per token.
Covers(pattern, key) ==
    \E cut \in [0..Len(pattern) -> 0..Len(key)] :
        /\ cut[0] = 0 /\ cut[Len(pattern)] = Len(key)
        /\ \A i \in DOMAIN pattern :
              /\ cut[i - 1] <= cut[i]
              /\ pattern[i] # AnyMany => cut[i] = cut[i - 1] + 1
              /\ pattern[i].kind = "literal" => key[cut[i]] = pattern[i].token

Means(selector, key) ==
    CASE selector.kind = "exact"   -> key = selector.key
      [] selector.kind = "prefix"  -> \E n \in 0..Len(key) : SubSeq(key, 1, n) = selector.tokens
      [] selector.kind = "pattern" -> Covers(selector.tokens, key)
      [] OTHER                     -> TRUE

\* The selectors that make a unit carry messages of a scope.
Askers(r, unit, scope) ==
    {f.selector : f \in {g \in r.references : g.unit = unit /\ r.mapping[g.scope] = scope}}
    \cup {root.selector : root \in {x \in r.roots :
             r.mapping[x.scope] = scope /\ ~\E m \in r.units : <<m, unit>> \in r.edges}}

\* A definition is the one a locale falls back to: none is nearer.
Nearest(r, d, locale) ==
    LET chain == Chain(r, locale)
        same == {e \in Definitions(r) : e.logical = d.logical}
    IN  \E i \in DOMAIN chain :
            /\ chain[i] = d.locale
            /\ \A j \in 1 .. i - 1 : \A e \in same : e.locale # chain[j]

Unused(o) == {f.definition : f \in {g \in o.findings : g.kind = "unused"}}
Blockers(o) == {f \in o.findings : Blocking(f)}
Without(r, defs) ==
    [r EXCEPT !.definitions =
        {d \in @ : \A e \in defs :
            ~(e.logical = Logical(Resolved(r, d.scope), d.key) /\ e.locale = d.locale /\ e.at = d.at)}]

-----------------------------------------------------------------------------
(* The plan of a unit in a locale holds the nearest definition of exactly   *)
(* the messages the unit's references and, in a root unit, the configured   *)
(* roots ask for (build_duplicate_reachability, materialize_plans,          *)
(* match_pattern): nothing dead is shipped.                                 *)
PlansHoldWhatIsAsked ==
    outcome.status = "planned" =>
        \A unit \in request.units, locale \in request.locales :
            outcome.plans[unit][locale] =
                {d \in Definitions(request) :
                    /\ \E s \in Askers(request, unit, d.logical.scope) : Means(s, d.logical.key)
                    /\ Nearest(request, d, locale)}

(* When the linker publishes plans no lookup in code can come up empty: an  *)
(* exact reference finds its message in every locale, a bounded one finds   *)
(* some message, and all that it means (materialize_findings withholds the  *)
(* plans otherwise).  And it never trips over its own tables: no admitted   *)
(* request meets an InternalInvariant where link looks up a reference's     *)
(* unit, a scope's completeness or the fact of a message that a unit        *)
(* reaches.  (The checks of order, capacity and model relations that name   *)
(* InternalInvariant too are of representations that are not modelled.)     *)
NoLookupComesUpEmpty ==
    /\ outcome.status # "internal"
    /\ outcome.status = "planned" =>
        \A f \in request.references : f.selector # UnboundedDynamic =>
          \A locale \in request.locales :
            LET scope == request.mapping[f.scope]
                carried == {d.logical : d \in outcome.plans[f.unit][locale]}
                meant == {k \in {d.logical.key : d \in Definitions(request)} :
                            Logical(scope, k) \in {d.logical : d \in Definitions(request)}
                            /\ Means(f.selector, k)}
            IN  meant # {} /\ LogicalOf(scope, meant) \subseteq carried

(* A message reported unused can be deleted, in a project that links and   *)
(* in one that does not: with any of them removed the project links to the  *)
(* same plans and is blocked for the same reasons, and with all removed     *)
(* nothing more is unused (should_report_unused; design/014: "every emitted *)
(* target re-links clean - zero unresolved-message, zero unused-message     *)
(* when pruned").                                                           *)
UnusedCanBePruned ==
    outcome.status \in {"planned", "blocked"} =>
        /\ \A gone \in SUBSET Unused(outcome) :
              LET pruned == Link(Without(request, gone))
              IN  /\ pruned.plans = outcome.plans
                  /\ Blockers(pruned) = Blockers(outcome)
        /\ Unused(Link(Without(request, Unused(outcome)))) = {}

(* A typed-key model offers every key its scope's plans carry, and each key *)
(* it offers has one definition in the baseline locale: typed accessors     *)
(* never lack a shipped key nor type one from nothing (analyze_coverage,    *)
(* construct_typed_key_models).                                             *)
ModelsCoverPlans ==
    \A m \in outcome.models :
        LET offered == {d.logical.key : d \in m.baseline}
        IN  /\ \A k \in offered : Cardinality({d \in m.baseline : d.logical.key = k}) = 1
            /\ outcome.status = "planned" =>
                  \A unit \in request.units, locale \in request.locales :
                      \A d \in outcome.plans[unit][locale] :
                          d.logical.scope = m.scope => d.logical.key \in offered
=============================================================================
