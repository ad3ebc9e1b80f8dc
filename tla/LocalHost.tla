------------------------------ MODULE LocalHost ------------------------------
(***************************************************************************)
(* The in-memory authoring host (crates/intlify_local_host): one owner     *)
(* binding, the chain of registries published for it, and the authority    *)
(* state, shared by any number of sessions.  A session snapshots all three *)
(* when it opens; it prepares and confirms outside the host's guard, while *)
(* other sessions publish and the host changes grants, and its writes are  *)
(* checked again under the guard.  Every operation takes the guard at most *)
(* once, so each is one action; a refused operation changes nothing.  The  *)
(* guard is never poisoned: no code that runs under it panics.             *)
(***************************************************************************)
EXTENDS Naturals, Sequences, FiniteSets

CONSTANTS
    Principals,       \* callers the host may list
    Inventories,      \* source inventories a session may bring
    Intents, Reasons, \* what an explicit decision is about, and its reason
    GrantTables,      \* the tables set_grants is given
    MaxGenerations,   \* limits.generations
    MaxConfirmations, \* limits.authority.confirmations
    MaxSessions, MaxRevisions, MaxDraws,   \* bounds of the model
    MaxPrepared, MaxConfirmed              \* bounds of the model

Action == {"analyze-source", "read-registry", "initialize-registry", "update-registry",
           "resolve-identity"}
Binding == {"not_enrolled", "uninitialized", "active", "unavailable"}
Operation == {"initialize", "manual", "development"}

\* A listed principal holds a set of actions; an unlisted one is no caller.
GrantTable == UNION {[P -> SUBSET Action] : P \in SUBSET Principals}

ASSUME GrantsAssumption == GrantTables \subseteq GrantTable
ASSUME LimitsAssumption == MaxGenerations \in Nat /\ MaxConfirmations \in Nat

(* An explicit decision about an intent is bound to a base and an inventory *)
(* where it is used.  An update carries the decisions its plan was given    *)
(* and the fresh intents drawn for it; a registry is identified by its own  *)
(* identity and every update applied since its genesis, as the reference    *)
(* hashes a snapshot that holds the references of its base and its update.  *)
Decision == [intent : Intents, reason : Reasons]
Explicit == {D \in SUBSET Decision : \A d, e \in D : d.intent = e.intent => d = e}
Update == [inventory : Inventories, explicit : Explicit, fresh : Nat]
NoRegistry == [identity |-> 0, updates |-> <<>>]
Registry == [identity : Nat, updates : Seq(Update)]
Genesis(n) == [identity |-> n, updates |-> <<>>]
Apply(base, update) == [base EXCEPT !.updates = Append(@, update)]

Plan == [base : Registry, update : Update]
Confirmation == [authority : Nat \ {0}, confirmer : Principals, base : Registry,
                 inventory : Inventories, decision : Decision]
PublicationRecord ==
    [generation : Nat, revision : Nat, publisher : Principals, operation : Operation,
     base : Registry, result : Registry,
     confirmations : SUBSET [confirmer : Principals, intent : Intents]]
Session == [caller : Principals, revision : Nat, current : Registry,
            pins : SUBSET Registry, grants : GrantTable, development : BOOLEAN,
            acquired : SUBSET Inventories]
Authority == [revision : Nat, grants : GrantTable, development : BOOLEAN]

VARIABLES
    binding, generation, authority, chain,   \* HostState, behind one guard
    sessions,        \* the sessions opened so far; an index is an authority
    prepared,        \* the plans prepare returned; any session may publish one
    confirmations,   \* the confirmations issued; any session may present one
    drawn            \* how many identities were drawn

host == <<binding, generation, authority, chain>>
vars == <<host, sessions, prepared, confirmations, drawn>>

Tip == IF chain = <<>> THEN NoRegistry ELSE chain[Len(chain)].result
Published == {chain[i].result : i \in DOMAIN chain}

-----------------------------------------------------------------------------
(* The host's own operations.                                               *)

Enroll ==
    /\ binding = "not_enrolled"
    /\ binding' = "uninitialized"
    /\ generation' = generation + 1
    /\ UNCHANGED <<authority, chain, sessions, prepared, confirmations, drawn>>

SetGrants(table) ==
    /\ authority.revision < MaxRevisions
    /\ authority' = [authority EXCEPT !.grants = table, !.revision = @ + 1]
    /\ generation' = generation + 1
    /\ UNCHANGED <<binding, chain, sessions, prepared, confirmations, drawn>>

SetDevelopment(active) ==
    /\ authority.revision < MaxRevisions
    /\ authority' = [authority EXCEPT !.development = active, !.revision = @ + 1]
    /\ UNCHANGED <<binding, generation, chain, sessions, prepared, confirmations, drawn>>

LoseControlState ==
    /\ binding' = "unavailable"
    /\ UNCHANGED <<generation, authority, chain, sessions, prepared, confirmations, drawn>>

\* A session snapshots the authority, the current registry and its pins.
Open(caller, pins, acquired) ==
    /\ Len(sessions) < MaxSessions
    /\ binding \notin {"not_enrolled", "unavailable"}
    /\ caller \in DOMAIN authority.grants
    /\ pins \subseteq Published
    /\ sessions' = Append(sessions,
         [caller |-> caller, revision |-> authority.revision, current |-> Tip,
          pins |-> pins, grants |-> authority.grants,
          development |-> authority.development, acquired |-> acquired])
    /\ UNCHANGED <<host, prepared, confirmations, drawn>>

-----------------------------------------------------------------------------
(* What a session's authority allows: fixed when it opened.                 *)

Holds(s, principal, action) ==
    /\ principal \in DOMAIN sessions[s].grants
    /\ action \in sessions[s].grants[principal]

\* bind_registry: the destination's chain, and an accepted anchor.
BindRegistry(s, registry) ==
    /\ sessions[s].current # NoRegistry
    /\ registry.identity = sessions[s].current.identity
    /\ registry \in sessions[s].pins \cup {sessions[s].current}

\* bind_inventory: every unit is a source the session acquired.
BindInventory(s, inventory) == inventory \in sessions[s].acquired

\* Reconciliation of the session's registry with an inventory returns a plan;
\* which intents it draws fresh is the reconciler's choice.
Prepare(s, inventory, explicit, fresh) ==
    /\ Cardinality(prepared) < MaxPrepared
    /\ sessions[s].current # NoRegistry
    /\ \A action \in {"analyze-source", "read-registry"} :
          Holds(s, sessions[s].caller, action)
    /\ BindRegistry(s, sessions[s].current) /\ BindInventory(s, inventory)
    /\ fresh = 0 \/ (fresh = drawn + 1 /\ drawn < MaxDraws)
    /\ drawn' = IF fresh = 0 THEN drawn ELSE fresh
    /\ prepared' = prepared \cup
         {[base |-> sessions[s].current,
           update |-> [inventory |-> inventory, explicit |-> explicit, fresh |-> fresh]]}
    /\ UNCHANGED <<host, sessions, confirmations>>

\* Any listed principal confirms one decision under the session's authority.
Confirm(s, confirmer, base, inventory, decision) ==
    /\ Cardinality(confirmations) < MaxConfirmed
    /\ Holds(s, confirmer, "resolve-identity")
    /\ BindRegistry(s, base) /\ BindInventory(s, inventory)
    /\ confirmations' = confirmations \cup
         {[authority |-> s, confirmer |-> confirmer, base |-> base,
           inventory |-> inventory, decision |-> decision]}
    /\ UNCHANGED <<host, sessions, prepared, drawn>>

-----------------------------------------------------------------------------
(* Publication, under the guard.                                            *)

\* Seeded fault: the authority revision is not compared.
CheckCurrentRegistry(s) ==
    /\ binding # "unavailable"
    /\ Tip = sessions[s].current

CheckCurrent(s) ==
    /\ binding # "unavailable"
    /\ Tip = sessions[s].current
    /\ authority.revision = sessions[s].revision

WithinHistory == Len(chain) < MaxGenerations

\* Seeded fault: a confirmation given under another authority is accepted.
MatchedByAny(s, plan, given) ==
    LET confirms(c, d) ==
          /\ c.base = plan.base /\ c.inventory = plan.update.inventory
          /\ c.decision = d
    IN  /\ \A d \in plan.update.explicit : \E c \in given : confirms(c, d)
        /\ \A c \in given : \E d \in plan.update.explicit : confirms(c, d)
        /\ Cardinality(given) = Cardinality(plan.update.explicit)

\* matched: confirmations and explicit decisions pair one to one.
Matched(s, plan, given) ==
    LET confirms(c, d) ==
          /\ c.authority = s
          /\ c.base = plan.base /\ c.inventory = plan.update.inventory
          /\ c.decision = d
    IN  /\ \A d \in plan.update.explicit : \E c \in given : confirms(c, d)
        /\ \A c \in given : \E d \in plan.update.explicit : confirms(c, d)
        /\ Cardinality(given) = Cardinality(plan.update.explicit)

AuthorizeUpdate(s, plan, given, mode) ==
    /\ Holds(s, sessions[s].caller, "update-registry")
    /\ Cardinality(given) <= MaxConfirmations
    /\ BindRegistry(s, plan.base) /\ BindInventory(s, plan.update.inventory)
    /\ mode = "development" => sessions[s].development /\ plan.update.explicit = {}
    /\ Matched(s, plan, given)

AuthorizeInitialization(s) ==
    /\ Holds(s, sessions[s].caller, "initialize-registry")
    /\ sessions[s].current = NoRegistry

\* Seeded fault: the host generation is not advanced.
PushUnnumbered(s, operation, base, result, given) ==
    /\ UNCHANGED generation
    /\ chain' = Append(chain,
         [generation |-> generation, revision |-> authority.revision,
          publisher |-> sessions[s].caller, operation |-> operation,
          base |-> base, result |-> result,
          confirmations |-> {[confirmer |-> c.confirmer, intent |-> c.decision.intent] :
                             c \in given}])
    /\ UNCHANGED <<authority, sessions, prepared, confirmations>>

\* Seeded fault: the record keeps the confirmed decision, not its intent.
PushDecisions(s, operation, base, result, given) ==
    /\ generation' = generation + 1
    /\ chain' = Append(chain,
         [generation |-> generation', revision |-> authority.revision,
          publisher |-> sessions[s].caller, operation |-> operation,
          base |-> base, result |-> result,
          confirmations |-> {[confirmer |-> c.confirmer, intent |-> c.decision] : c \in given}])
    /\ UNCHANGED <<authority, sessions, prepared, confirmations>>

\* The new registry and its provenance become current together.
Push(s, operation, base, result, given) ==
    /\ generation' = generation + 1
    /\ chain' = Append(chain,
         [generation |-> generation', revision |-> authority.revision,
          publisher |-> sessions[s].caller, operation |-> operation,
          base |-> base, result |-> result,
          confirmations |-> {[confirmer |-> c.confirmer, intent |-> c.decision.intent] :
                             c \in given}])
    /\ UNCHANGED <<authority, sessions, prepared, confirmations>>

\* Seeded fault: the plan's own base is not compared with the tip.
CommitAnyUpdate(s, plan, given, mode) ==
    /\ CheckCurrent(s)
    /\ AuthorizeUpdate(s, plan, given, mode)
    /\ WithinHistory
    /\ Push(s, mode, plan.base, Apply(plan.base, plan.update), given)
    /\ UNCHANGED <<binding, drawn>>

CommitUpdate(s, plan, given, mode) ==
    /\ CheckCurrent(s)
    /\ plan.base = Tip
    /\ AuthorizeUpdate(s, plan, given, mode)
    /\ WithinHistory
    /\ Push(s, mode, plan.base, Apply(plan.base, plan.update), given)
    /\ UNCHANGED <<binding, drawn>>

\* Seeded fault: a lost control state does not stop an initialization.
InitializeAnyway(s) ==
    /\ binding # "active"
    /\ authority.revision = sessions[s].revision
    /\ AuthorizeInitialization(s)
    /\ WithinHistory
    /\ drawn < MaxDraws /\ drawn' = drawn + 1
    /\ Push(s, "initialize", NoRegistry, Genesis(drawn'), {})
    /\ binding' = "active"

\* Seeded fault: the binding is not made active.
InitializeInactive(s) ==
    /\ binding \notin {"unavailable", "active"}
    /\ authority.revision = sessions[s].revision
    /\ AuthorizeInitialization(s)
    /\ WithinHistory
    /\ drawn < MaxDraws /\ drawn' = drawn + 1
    /\ Push(s, "initialize", NoRegistry, Genesis(drawn'), {})
    /\ UNCHANGED binding

\* Session::initialize draws the identity; commit_initialization checks the
\* binding and the revision again, not what the session saw of the chain.
Initialize(s) ==
    /\ binding \notin {"unavailable", "active"}
    /\ authority.revision = sessions[s].revision
    /\ AuthorizeInitialization(s)
    /\ WithinHistory
    /\ drawn < MaxDraws /\ drawn' = drawn + 1
    /\ Push(s, "initialize", NoRegistry, Genesis(drawn'), {})
    /\ binding' = "active"

-----------------------------------------------------------------------------
Init ==
    /\ binding = "not_enrolled" /\ generation = 0 /\ chain = <<>>
    /\ authority = [revision |-> 0, grants |-> [p \in {} |-> {}], development |-> FALSE]
    /\ sessions = <<>> /\ prepared = {} /\ confirmations = {} /\ drawn = 0

\* An operation works on what its request names; sets of requests are bounded
\* by what has been prepared and confirmed.
Next ==
    \/ Enroll \/ LoseControlState
    \/ \E table \in GrantTables : SetGrants(table)
    \/ \E active \in BOOLEAN : SetDevelopment(active)
    \/ \E caller \in Principals, pins \in SUBSET Published,
          acquired \in SUBSET Inventories : Open(caller, pins, acquired)
    \/ \E s \in DOMAIN sessions :
          \/ Initialize(s)
          \/ \E inventory \in Inventories, explicit \in Explicit,
                fresh \in {0, drawn + 1} : Prepare(s, inventory, explicit, fresh)
          \/ \E confirmer \in Principals, base \in Published,
                inventory \in Inventories, decision \in Decision :
                Confirm(s, confirmer, base, inventory, decision)
          \/ \E plan \in prepared, given \in SUBSET confirmations,
                mode \in {"manual", "development"} : CommitUpdate(s, plan, given, mode)

Spec == Init /\ [][Next]_vars
=============================================================================
