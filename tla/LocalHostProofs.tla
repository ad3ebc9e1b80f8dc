--------------------------- MODULE LocalHostProofs ---------------------------
(***************************************************************************)
(* The guarantees of the local host for any number of principals,          *)
(* inventories, sessions and limits.  The inductive invariant adds two     *)
(* facts to the properties: a session under the revision in force holds    *)
(* exactly the authority in force, and a confirmation was issued by a      *)
(* principal its session lists with resolve-identity.                      *)
(***************************************************************************)
EXTENDS LocalHostProperties, SequenceTheorems, TLAPS

LEMMA AppendFacts ==
    ASSUME NEW S, NEW q \in Seq(S), NEW e \in S
    PROVE  /\ Append(q, e) \in Seq(S)
           /\ Len(Append(q, e)) = Len(q) + 1
           /\ DOMAIN Append(q, e) = DOMAIN q \cup {Len(q) + 1}
           /\ \A i \in DOMAIN q : Append(q, e)[i] = q[i]
           /\ Append(q, e)[Len(q) + 1] = e
           /\ Append(q, e) # <<>>
  OBVIOUS

(* Applying an update gives a registry whose last update it is.             *)
LEMMA ApplyUpdate ==
    ASSUME NEW base \in Registry, NEW update \in Update
    PROVE  /\ Apply(base, update) \in Registry
           /\ Apply(base, update).updates # <<>>
           /\ LastUpdate(Apply(base, update)) = update
  <1>1. base.updates \in Seq(Update) /\ base.identity \in Nat
    BY DEF Registry
  <1>2. Apply(base, update) = [identity |-> base.identity, updates |-> Append(base.updates, update)]
    BY DEF Apply, Registry
  <1> QED BY <1>1, <1>2, AppendFacts DEF Registry, LastUpdate

LEMMA TipIsRegistry ==
    ASSUME chain \in Seq(PublicationRecord)
    PROVE  Tip \in Registry
  <1>1. CASE chain = <<>>
    BY <1>1 DEF Tip, Registry, NoRegistry
  <1>2. CASE chain # <<>>
    <2>1. chain[Len(chain)] \in PublicationRecord
      BY <1>2
    <2> QED BY <1>2, <2>1 DEF Tip, PublicationRecord
  <1> QED BY <1>1, <1>2

LEMMA PublishedAreRegistries ==
    ASSUME chain \in Seq(PublicationRecord)
    PROVE  Published \subseteq Registry
  <1>1. \A i \in DOMAIN chain : chain[i] \in PublicationRecord
    OBVIOUS
  <1>2. \A r \in PublicationRecord : r.result \in Registry
    BY DEF PublicationRecord
  <1> QED BY <1>1, <1>2 DEF Published

-----------------------------------------------------------------------------
(* Types.                                                                   *)

THEOREM TypeCorrect == Spec => []TypeOK
  <1>1. Init => TypeOK
    BY DEF Init, TypeOK, Binding, Authority, GrantTable
  <1>2. TypeOK /\ [Next]_vars => TypeOK'
    <2> SUFFICES ASSUME TypeOK, [Next]_vars PROVE TypeOK'
      OBVIOUS
    <2> USE DEF TypeOK
    <2>1. CASE Enroll \/ LoseControlState
      BY <2>1 DEF Enroll, LoseControlState, Binding
    <2>2. ASSUME NEW table \in GrantTables, SetGrants(table) PROVE TypeOK'
      <3>1. authority' = [revision |-> authority.revision + 1, grants |-> table,
                          development |-> authority.development]
        BY <2>2 DEF SetGrants, Authority
      <3>2. authority' \in Authority
        BY <3>1, GrantsAssumption DEF Authority
      <3> QED BY <2>2, <3>2 DEF SetGrants
    <2>3. ASSUME NEW active \in BOOLEAN, SetDevelopment(active) PROVE TypeOK'
      <3>1. authority' = [revision |-> authority.revision + 1, grants |-> authority.grants,
                          development |-> active]
        BY <2>3 DEF SetDevelopment, Authority
      <3>2. authority' \in Authority
        BY <3>1 DEF Authority
      <3> QED BY <2>3, <3>2 DEF SetDevelopment
    <2>4. ASSUME NEW caller \in Principals, NEW pins \in SUBSET Published,
                 NEW acquired \in SUBSET Inventories, Open(caller, pins, acquired)
          PROVE  TypeOK'
      <3>1. [caller |-> caller, revision |-> authority.revision, current |-> Tip,
             pins |-> pins, grants |-> authority.grants,
             development |-> authority.development, acquired |-> acquired] \in Session
        BY TipIsRegistry, PublishedAreRegistries DEF Session, Authority
      <3> QED BY <2>4, <3>1, AppendFacts DEF Open, host
    <2>5. ASSUME NEW s \in DOMAIN sessions, Initialize(s) PROVE TypeOK'
      <3>1. sessions[s] \in Session
        OBVIOUS
      <3>2. [generation |-> generation', revision |-> authority.revision,
             publisher |-> sessions[s].caller, operation |-> "initialize",
             base |-> NoRegistry, result |-> Genesis(drawn'),
             confirmations |-> {[confirmer |-> c.confirmer, intent |-> c.decision.intent] :
                                c \in {}}] \in PublicationRecord
        BY <2>5, <3>1 DEF Initialize, Push, PublicationRecord, Session, Authority, Operation,
           NoRegistry, Genesis, Registry
      <3> QED BY <2>5, <3>2, AppendFacts DEF Initialize, Push, Binding
    <2>6. ASSUME NEW s \in DOMAIN sessions, NEW inventory \in Inventories,
                 NEW explicit \in Explicit, NEW fresh \in {0, drawn + 1},
                 Prepare(s, inventory, explicit, fresh)
          PROVE  TypeOK'
      <3>1. sessions[s] \in Session
        OBVIOUS
      <3> QED BY <2>6, <3>1 DEF Prepare, host, Plan, Update, Session
    <2>7. ASSUME NEW s \in DOMAIN sessions, NEW confirmer \in Principals,
                 NEW base \in Published, NEW inventory \in Inventories,
                 NEW decision \in Decision, Confirm(s, confirmer, base, inventory, decision)
          PROVE  TypeOK'
      <3>1. s \in Nat \ {0}
        OBVIOUS
      <3> QED BY <2>7, <3>1, PublishedAreRegistries DEF Confirm, host, Confirmation
    <2>8. ASSUME NEW s \in DOMAIN sessions, NEW plan \in prepared,
                 NEW given \in SUBSET confirmations, NEW mode \in {"manual", "development"},
                 CommitUpdate(s, plan, given, mode)
          PROVE  TypeOK'
      <3>1. sessions[s] \in Session
        OBVIOUS
      <3>2. plan.base \in Registry /\ Apply(plan.base, plan.update) \in Registry
        BY ApplyUpdate DEF Plan
      <3>3. {[confirmer |-> c.confirmer, intent |-> c.decision.intent] : c \in given}
              \subseteq [confirmer : Principals, intent : Intents]
        BY DEF Confirmation, Decision
      <3>4. [generation |-> generation', revision |-> authority.revision,
             publisher |-> sessions[s].caller, operation |-> mode,
             base |-> plan.base, result |-> Apply(plan.base, plan.update),
             confirmations |-> {[confirmer |-> c.confirmer, intent |-> c.decision.intent] :
                                c \in given}] \in PublicationRecord
        BY <2>8, <3>1, <3>2, <3>3 DEF CommitUpdate, Push, PublicationRecord, Session, Authority,
           Operation
      <3> QED BY <2>8, <3>4, AppendFacts DEF CommitUpdate, Push
    <2>9. CASE UNCHANGED vars
      BY <2>9 DEF vars, host
    <2> QED
      BY <2>1, <2>2, <2>3, <2>4, <2>5, <2>6, <2>7, <2>8, <2>9 DEF Next
  <1> QED BY <1>1, <1>2, PTL DEF Spec

-----------------------------------------------------------------------------
(* The chain.                                                               *)

\* What Push appends to the chain.
RecordOf(s, operation, base, result, given) ==
    [generation |-> generation + 1, revision |-> authority.revision,
     publisher |-> sessions[s].caller, operation |-> operation,
     base |-> base, result |-> result,
     confirmations |-> {[confirmer |-> c.confirmer, intent |-> c.decision.intent] : c \in given}]

(* Only the two commits touch the chain.                                    *)
LEMMA OnlyCommitsPublish ==
    ASSUME [Next]_vars, chain' # chain
    PROVE  \/ \E s \in DOMAIN sessions : Initialize(s)
           \/ \E s \in DOMAIN sessions, plan \in prepared, given \in SUBSET confirmations,
                 mode \in {"manual", "development"} : CommitUpdate(s, plan, given, mode)
  BY DEF Next, vars, host, Enroll, LoseControlState, SetGrants, SetDevelopment, Open, Prepare,
     Confirm

(* An initialization finds no chain: the binding says there is none.        *)
LEMMA InitializeBegins ==
    ASSUME TypeOK, BindingMatchesChain, NEW s \in DOMAIN sessions, Initialize(s)
    PROVE  /\ chain = <<>>
           /\ chain' = Append(chain, RecordOf(s, "initialize", NoRegistry, Genesis(drawn + 1), {}))
           /\ RecordOf(s, "initialize", NoRegistry, Genesis(drawn + 1), {}) \in PublicationRecord
           /\ generation' = generation + 1 /\ authority' = authority
           /\ WithinHistory
  <1>1. chain = <<>>
    BY DEF Initialize, BindingMatchesChain, TypeOK, Binding
  <1>2. sessions[s] \in Session
    BY DEF TypeOK
  <1>3. RecordOf(s, "initialize", NoRegistry, Genesis(drawn + 1), {}) \in PublicationRecord
    BY <1>2 DEF RecordOf, TypeOK, PublicationRecord, Session, Authority, Operation,
       NoRegistry, Genesis, Registry
  <1>4. drawn' = drawn + 1 /\ generation' = generation + 1 /\ authority' = authority
    BY DEF Initialize, Push
  <1>5. chain' = Append(chain, RecordOf(s, "initialize", NoRegistry, Genesis(drawn + 1), {}))
    BY <1>4 DEF Initialize, Push, RecordOf
  <1>6. WithinHistory
    BY DEF Initialize
  <1> QED BY <1>1, <1>3, <1>4, <1>5, <1>6

(* An update is applied to the tip, and there is one: the session that      *)
(* publishes saw a registry, and what it saw is current.                    *)
LEMMA CommitExtends ==
    ASSUME TypeOK, NEW s \in DOMAIN sessions, NEW plan \in prepared,
           NEW given \in SUBSET confirmations, NEW mode \in {"manual", "development"},
           CommitUpdate(s, plan, given, mode)
    PROVE  LET r == RecordOf(s, mode, plan.base, Apply(plan.base, plan.update), given)
           IN  /\ chain # <<>> /\ plan.base = Tip
               /\ chain' = Append(chain, r) /\ r \in PublicationRecord
               /\ LastUpdate(r.result) = plan.update
               /\ generation' = generation + 1 /\ authority' = authority
               /\ WithinHistory
  <1> DEFINE r == RecordOf(s, mode, plan.base, Apply(plan.base, plan.update), given)
  <1>1. chain # <<>> /\ plan.base = Tip
    BY DEF CommitUpdate, CheckCurrent, AuthorizeUpdate, BindRegistry, Tip
  <1>2. generation' = generation + 1 /\ authority' = authority
    BY DEF CommitUpdate, Push
  <1>3. chain' = Append(chain, r)
    BY <1>2 DEF CommitUpdate, Push, RecordOf
  <1>4. plan \in Plan /\ sessions[s] \in Session
    BY DEF TypeOK
  <1>5. Apply(plan.base, plan.update) \in Registry
        /\ LastUpdate(Apply(plan.base, plan.update)) = plan.update
    BY <1>4, ApplyUpdate DEF Plan
  <1>6. {[confirmer |-> c.confirmer, intent |-> c.decision.intent] : c \in given}
          \subseteq [confirmer : Principals, intent : Intents]
    BY DEF TypeOK, Confirmation, Decision
  <1>7. r \in PublicationRecord
    BY <1>4, <1>5, <1>6 DEF RecordOf, TypeOK, PublicationRecord, Session, Authority, Operation, Plan
  <1>8. WithinHistory
    BY DEF CommitUpdate
  <1> QED BY <1>1, <1>2, <1>3, <1>5, <1>7, <1>8 DEF RecordOf

(* Appending the next record keeps the chain linear and its records ordered. *)
LEMMA AppendKeepsChain ==
    ASSUME TypeOK, ChainLinear, RecordsAreOrdered, WithinHistory,
           NEW r \in PublicationRecord, chain' = Append(chain, r),
           generation' = generation + 1, authority' = authority,
           r.generation = generation + 1, r.revision = authority.revision,
           \/ chain = <<>> /\ r.base = NoRegistry /\ r.result.updates = <<>>
           \/ chain # <<>> /\ r.base = Tip /\ r.result = Apply(r.base, LastUpdate(r.result))
    PROVE  ChainLinear' /\ RecordsAreOrdered'
  <1>1. /\ DOMAIN chain' = DOMAIN chain \cup {Len(chain) + 1}
        /\ \A i \in DOMAIN chain : chain'[i] = chain[i]
        /\ chain'[Len(chain) + 1] = r
        /\ DOMAIN chain = 1..Len(chain) /\ Len(chain) \in Nat
    BY AppendFacts DEF TypeOK
  <1>2. ChainLinear'
    <2>0. Len(chain') <= MaxGenerations
      BY AppendFacts, LimitsAssumption DEF TypeOK, WithinHistory
    <2> SUFFICES ASSUME NEW i \in DOMAIN chain'
                 PROVE  IF i = 1
                        THEN chain'[i].base = NoRegistry /\ chain'[i].result.updates = <<>>
                        ELSE /\ chain'[i].base = chain'[i - 1].result
                             /\ chain'[i].result = Apply(chain'[i].base, LastUpdate(chain'[i].result))
      BY <2>0 DEF ChainLinear
    <2>1. CASE i \in DOMAIN chain
      <3>1. i = 1 \/ i - 1 \in DOMAIN chain
        BY <2>1, <1>1
      <3> QED BY <2>1, <3>1, <1>1 DEF ChainLinear
    <2>2. CASE i = Len(chain) + 1 /\ chain = <<>>
      BY <2>2, <1>1
    <2>3. CASE i = Len(chain) + 1 /\ chain # <<>>
      <3>1. i # 1 /\ i - 1 = Len(chain) /\ Len(chain) \in DOMAIN chain
        BY <2>3, <1>1 DEF TypeOK
      <3>2. chain'[i - 1].result = Tip
        BY <2>3, <3>1, <1>1 DEF Tip
      <3> QED BY <2>3, <3>1, <3>2, <1>1
    <2> QED BY <2>1, <2>2, <2>3, <1>1
  <1>3. RecordsAreOrdered'
    <2>1. \A i \in DOMAIN chain : chain[i].generation \in Nat /\ chain[i].revision \in Nat
      <3>1. \A q \in PublicationRecord : q.generation \in Nat /\ q.revision \in Nat
        BY DEF PublicationRecord
      <3>2. \A i \in DOMAIN chain : chain[i] \in PublicationRecord
        BY DEF TypeOK
      <3> QED BY <3>1, <3>2
    <2>2. generation \in Nat /\ authority.revision \in Nat
      BY DEF TypeOK, Authority
    <2>3. ASSUME NEW i \in DOMAIN chain', NEW j \in DOMAIN chain', i < j
          PROVE  /\ chain'[i].generation < chain'[j].generation
                 /\ chain'[i].revision <= chain'[j].revision
      <3>1. i \in DOMAIN chain
        BY <2>3, <1>1
      <3>2. CASE j \in DOMAIN chain
        BY <2>3, <3>1, <3>2, <1>1 DEF RecordsAreOrdered
      <3>3. CASE j = Len(chain) + 1
        BY <3>1, <3>3, <2>1, <2>2, <1>1 DEF RecordsAreOrdered
      <3> QED BY <3>2, <3>3, <1>1
    <2>4. ASSUME NEW i \in DOMAIN chain'
          PROVE  chain'[i].generation <= generation' /\ chain'[i].revision <= authority'.revision
      <3>1. CASE i \in DOMAIN chain
        BY <3>1, <2>1, <2>2, <1>1 DEF RecordsAreOrdered
      <3>2. CASE i = Len(chain) + 1
        BY <3>2, <2>2, <1>1
      <3> QED BY <3>1, <3>2, <1>1
    <2> QED BY <2>3, <2>4 DEF RecordsAreOrdered
  <1> QED BY <1>2, <1>3

(* The host generation and the authority revision never go back.            *)
LEMMA HostGrows ==
    ASSUME TypeOK, [Next]_vars
    PROVE  /\ generation <= generation' /\ authority.revision <= authority'.revision
           /\ generation' \in Nat /\ authority'.revision \in Nat
  <1> DEFINE Grows == /\ generation' \in {generation, generation + 1}
                      /\ authority'.revision \in {authority.revision, authority.revision + 1}
  <1>1. ASSUME NEW table \in GrantTables, SetGrants(table) PROVE Grows
    BY <1>1 DEF SetGrants, TypeOK, Authority
  <1>2. ASSUME NEW active \in BOOLEAN, SetDevelopment(active) PROVE Grows
    BY <1>2 DEF SetDevelopment, TypeOK, Authority
  <1>3. ASSUME NEW s \in DOMAIN sessions, NEW plan \in prepared,
               NEW given \in SUBSET confirmations, NEW mode \in {"manual", "development"},
               CommitUpdate(s, plan, given, mode)
        PROVE  Grows
    BY <1>3 DEF CommitUpdate, Push
  <1>4. ASSUME NEW s \in DOMAIN sessions, Initialize(s) PROVE Grows
    BY <1>4 DEF Initialize, Push
  <1>5. ASSUME Enroll PROVE Grows
    BY <1>5 DEF Enroll
  <1>6. ASSUME UNCHANGED <<generation, authority>> PROVE Grows
    BY <1>6
  <1>7. Grows
    <2> HIDE DEF Grows
    <2> QED
      BY <1>1, <1>2, <1>3, <1>4, <1>5, <1>6
      DEF Next, vars, host, LoseControlState, Open, Prepare, Confirm
  <1>8. generation \in Nat /\ authority.revision \in Nat
    BY DEF TypeOK, Authority
  <1> QED BY <1>7, <1>8

ChainIInv == ChainLinear /\ RecordsAreOrdered /\ BindingMatchesChain

LEMMA ChainInvariant == Spec => []ChainIInv
  <1>1. Init => ChainIInv
    BY LimitsAssumption DEF Init, ChainIInv, ChainLinear, RecordsAreOrdered, BindingMatchesChain
  <1>2. TypeOK /\ ChainIInv /\ [Next]_vars => ChainIInv'
    <2> SUFFICES ASSUME TypeOK, ChainIInv, [Next]_vars PROVE ChainIInv'
      OBVIOUS
    <2> USE DEF ChainIInv
    <2>1. ASSUME NEW s \in DOMAIN sessions, Initialize(s) PROVE ChainIInv'
      <3> DEFINE r == RecordOf(s, "initialize", NoRegistry, Genesis(drawn + 1), {})
      <3>1. /\ chain = <<>> /\ chain' = Append(chain, r) /\ r \in PublicationRecord
            /\ generation' = generation + 1 /\ authority' = authority /\ WithinHistory
        BY <2>1, InitializeBegins
      <3>2. /\ r.generation = generation + 1 /\ r.revision = authority.revision
            /\ r.base = NoRegistry /\ r.result.updates = <<>>
        BY DEF RecordOf, Genesis
      <3>3. ChainLinear' /\ RecordsAreOrdered'
        BY <3>1, <3>2, AppendKeepsChain
      <3>4. binding' = "active" /\ chain' # <<>>
        BY <2>1, <3>1, AppendFacts DEF Initialize, TypeOK
      <3> QED BY <3>3, <3>4 DEF BindingMatchesChain
    <2>2. ASSUME NEW s \in DOMAIN sessions, NEW plan \in prepared,
                 NEW given \in SUBSET confirmations, NEW mode \in {"manual", "development"},
                 CommitUpdate(s, plan, given, mode)
          PROVE  ChainIInv'
      <3> DEFINE r == RecordOf(s, mode, plan.base, Apply(plan.base, plan.update), given)
      <3>1. /\ chain # <<>> /\ plan.base = Tip
            /\ chain' = Append(chain, r) /\ r \in PublicationRecord
            /\ LastUpdate(r.result) = plan.update
            /\ generation' = generation + 1 /\ authority' = authority /\ WithinHistory
        BY <2>2, CommitExtends
      <3>2. /\ r.generation = generation + 1 /\ r.revision = authority.revision
            /\ r.base = Tip /\ r.result = Apply(r.base, LastUpdate(r.result))
        BY <3>1 DEF RecordOf
      <3>3. ChainLinear' /\ RecordsAreOrdered'
        BY <3>1, <3>2, AppendKeepsChain
      <3>4. binding' = binding /\ chain' # <<>>
        BY <2>2, <3>1, AppendFacts DEF CommitUpdate, TypeOK
      <3>5. BindingMatchesChain'
        BY <3>1, <3>4 DEF BindingMatchesChain
      <3> QED BY <3>3, <3>5
    <2>3. CASE chain' = chain
      <3>1. ChainLinear'
        BY <2>3 DEF ChainLinear
      <3>2. generation <= generation' /\ authority.revision <= authority'.revision
            /\ generation' \in Nat /\ authority'.revision \in Nat
        BY HostGrows
      <3>3. RecordsAreOrdered'
        <4>1. \A i \in DOMAIN chain : chain[i].generation \in Nat /\ chain[i].revision \in Nat
          <5>1. \A q \in PublicationRecord : q.generation \in Nat /\ q.revision \in Nat
            BY DEF PublicationRecord
          <5>2. \A i \in DOMAIN chain : chain[i] \in PublicationRecord
            BY DEF TypeOK
          <5> QED BY <5>1, <5>2
        <4>2. generation \in Nat /\ authority.revision \in Nat
          BY DEF TypeOK, Authority
        <4> QED BY <2>3, <3>2, <4>1, <4>2 DEF RecordsAreOrdered
      <3>4. BindingMatchesChain'
        <4>1. CASE \E s \in DOMAIN sessions : Initialize(s)
          BY <4>1, <2>1
        <4>2. CASE Enroll
          BY <4>2, <2>3 DEF Enroll, BindingMatchesChain
        <4>3. CASE LoseControlState
          BY <4>3, <2>3 DEF LoseControlState, BindingMatchesChain
        <4>4. CASE UNCHANGED binding
          BY <4>4, <2>3 DEF BindingMatchesChain
        <4> QED
          BY <4>1, <4>2, <4>3, <4>4
          DEF Next, vars, host, SetGrants, SetDevelopment, Open, Prepare, Confirm, CommitUpdate
      <3> QED BY <3>1, <3>3, <3>4
    <2> QED BY <2>1, <2>2, <2>3, OnlyCommitsPublish
  <1> QED BY <1>1, <1>2, TypeCorrect, PTL DEF Spec

(* Publications form one chain, whatever the sessions saw.                  *)
THEOREM ChainIsLinear == Spec => []ChainLinear
  <1>1. ChainIInv => ChainLinear
    BY DEF ChainIInv
  <1> QED BY <1>1, ChainInvariant, PTL

(* Generations and authority revisions grow along the chain.                *)
THEOREM ProvenanceIsOrdered == Spec => []RecordsAreOrdered
  <1>1. ChainIInv => RecordsAreOrdered
    BY DEF ChainIInv
  <1> QED BY <1>1, ChainInvariant, PTL

(* The binding agrees with the chain.                                       *)
THEOREM BindingAgrees == Spec => []BindingMatchesChain
  <1>1. ChainIInv => BindingMatchesChain
    BY DEF ChainIInv
  <1> QED BY <1>1, ChainInvariant, PTL

-----------------------------------------------------------------------------
(* The authority.                                                           *)

\* A session under the revision in force has the grants and mode in force.
SessionsInForce ==
    \A s \in DOMAIN sessions :
        /\ sessions[s].revision <= authority.revision
        /\ sessions[s].revision = authority.revision =>
             /\ sessions[s].grants = authority.grants
             /\ sessions[s].development = authority.development

\* A confirmation was issued by a principal its authority lets resolve.
ConfirmationsGranted ==
    \A c \in confirmations :
        c.authority \in DOMAIN sessions /\ Holds(c.authority, c.confirmer, "resolve-identity")

AuthorityIInv == SessionsInForce /\ ConfirmationsGranted

LEMMA AuthorityInvariant == Spec => []AuthorityIInv
  <1>1. Init => AuthorityIInv
    BY DEF Init, AuthorityIInv, SessionsInForce, ConfirmationsGranted
  <1>2. TypeOK /\ AuthorityIInv /\ [Next]_vars => AuthorityIInv'
    <2> SUFFICES ASSUME TypeOK, AuthorityIInv, [Next]_vars PROVE AuthorityIInv'
      OBVIOUS
    <2> USE DEF AuthorityIInv
    <2>a. authority.revision \in Nat /\ \A s \in DOMAIN sessions : sessions[s].revision \in Nat
      <3>1. \A q \in Session : q.revision \in Nat
        BY DEF Session
      <3>2. \A s \in DOMAIN sessions : sessions[s] \in Session
        BY DEF TypeOK
      <3> QED BY <3>1, <3>2 DEF TypeOK, Authority
    <2>1. ASSUME authority'.revision = authority.revision + 1, UNCHANGED <<sessions, confirmations>>
          PROVE  AuthorityIInv'
      BY <2>1, <2>a DEF SessionsInForce, ConfirmationsGranted, Holds
    <2>2. ASSUME NEW caller \in Principals, NEW pins \in SUBSET Published,
                 NEW acquired \in SUBSET Inventories, Open(caller, pins, acquired)
          PROVE  AuthorityIInv'
      <3> DEFINE new == [caller |-> caller, revision |-> authority.revision, current |-> Tip,
                         pins |-> pins, grants |-> authority.grants,
                         development |-> authority.development, acquired |-> acquired]
      <3>1. sessions' = Append(sessions, new) /\ UNCHANGED <<authority, confirmations>>
        BY <2>2 DEF Open, host
      <3>2. new \in Session
        BY TipIsRegistry, PublishedAreRegistries DEF TypeOK, Session, Authority
      <3>3. /\ DOMAIN sessions' = DOMAIN sessions \cup {Len(sessions) + 1}
            /\ \A i \in DOMAIN sessions : sessions'[i] = sessions[i]
            /\ sessions'[Len(sessions) + 1] = new
        <4> HIDE DEF new
        <4> QED BY <3>1, <3>2, AppendFacts DEF TypeOK
      <3>4. SessionsInForce'
        BY <3>1, <3>3, <2>a DEF SessionsInForce
      <3>5. ConfirmationsGranted'
        BY <3>1, <3>3 DEF ConfirmationsGranted, Holds
      <3> QED BY <3>4, <3>5
    <2>3. ASSUME NEW s \in DOMAIN sessions, NEW confirmer \in Principals, NEW base \in Published,
                 NEW inventory \in Inventories, NEW decision \in Decision,
                 Confirm(s, confirmer, base, inventory, decision)
          PROVE  AuthorityIInv'
      BY <2>3 DEF Confirm, host, SessionsInForce, ConfirmationsGranted, Holds
    <2>4. ASSUME UNCHANGED <<authority, sessions, confirmations>>
          PROVE  AuthorityIInv'
      BY <2>4 DEF SessionsInForce, ConfirmationsGranted, Holds
    <2>5. ASSUME NEW table \in GrantTables, SetGrants(table) PROVE AuthorityIInv'
      BY <2>5, <2>1 DEF SetGrants, TypeOK, Authority
    <2>6. ASSUME NEW active \in BOOLEAN, SetDevelopment(active) PROVE AuthorityIInv'
      BY <2>6, <2>1 DEF SetDevelopment, TypeOK, Authority
    <2>7. ASSUME NEW s \in DOMAIN sessions, Initialize(s) PROVE AuthorityIInv'
      BY <2>7, <2>4 DEF Initialize, Push
    <2>8. ASSUME NEW s \in DOMAIN sessions, NEW plan \in prepared,
                 NEW given \in SUBSET confirmations, NEW mode \in {"manual", "development"},
                 CommitUpdate(s, plan, given, mode)
          PROVE  AuthorityIInv'
      BY <2>8, <2>4 DEF CommitUpdate, Push
    <2>9. ASSUME NEW s \in DOMAIN sessions, NEW inventory \in Inventories,
                 NEW explicit \in Explicit, NEW fresh \in {0, drawn + 1},
                 Prepare(s, inventory, explicit, fresh)
          PROVE  AuthorityIInv'
      BY <2>9, <2>4 DEF Prepare, host
    <2>10. CASE Enroll \/ LoseControlState \/ UNCHANGED vars
      BY <2>10, <2>4 DEF Enroll, LoseControlState, vars, host
    <2> QED
      BY <2>2, <2>3, <2>5, <2>6, <2>7, <2>8, <2>9, <2>10 DEF Next
  <1> QED BY <1>1, <1>2, TypeCorrect, PTL DEF Spec

(* Once the control state is lost no commit passes its first check.         *)
THEOREM LossIsFinal == Spec => UnavailableIsFinal
  <1>1. [Next]_vars => [binding = "unavailable" => UNCHANGED <<binding, chain>>]_vars
    <2> SUFFICES ASSUME [Next]_vars, binding = "unavailable"
                 PROVE  UNCHANGED <<binding, chain>>
      OBVIOUS
    <2>1. \A s \in DOMAIN sessions : ~Initialize(s)
      BY DEF Initialize
    <2>2. \A s \in DOMAIN sessions, plan \in prepared, given \in SUBSET confirmations,
            mode \in {"manual", "development"} : ~CommitUpdate(s, plan, given, mode)
      BY DEF CommitUpdate, CheckCurrent
    <2> QED
      BY <2>1, <2>2 DEF Next, vars, host, Enroll, LoseControlState, SetGrants, SetDevelopment,
         Open, Prepare, Confirm
  <1> QED BY <1>1, PTL DEF Spec, UnavailableIsFinal

\* What the last record of an extended chain is.
LEMMA NewestIsAppended ==
    ASSUME TypeOK, NEW r \in PublicationRecord, chain' = Append(chain, r)
    PROVE  Newest = r
  BY AppendFacts DEF TypeOK, Newest

(* Whoever publishes holds the power at that moment: the commit compares    *)
(* the revision, and under one revision the session holds what is in force. *)
THEOREM PublisherHoldsPower == Spec => PublisherInForce
  <1> DEFINE Granted ==
        Publishes =>
          /\ Newest.publisher \in DOMAIN authority.grants
          /\ (IF Newest.operation = "initialize" THEN "initialize-registry" ELSE "update-registry")
               \in authority.grants[Newest.publisher]
          /\ Newest.operation = "development" => authority.development
  <1>1. TypeOK /\ ChainIInv /\ AuthorityIInv /\ [Next]_vars => [Granted]_vars
    <2> SUFFICES ASSUME TypeOK, ChainIInv, AuthorityIInv, [Next]_vars, chain' # chain
                 PROVE  Granted
      BY DEF Publishes
    <2>1. ASSUME NEW s \in DOMAIN sessions, Initialize(s) PROVE Granted
      <3> DEFINE r == RecordOf(s, "initialize", NoRegistry, Genesis(drawn + 1), {})
      <3>1. chain' = Append(chain, r) /\ r \in PublicationRecord
        BY <2>1, InitializeBegins DEF ChainIInv
      <3>2. Newest = r
        BY <3>1, NewestIsAppended
      <3>3. Holds(s, sessions[s].caller, "initialize-registry")
            /\ sessions[s].grants = authority.grants
        BY <2>1 DEF Initialize, AuthorizeInitialization, AuthorityIInv, SessionsInForce
      <3> QED BY <3>2, <3>3 DEF RecordOf, Holds
    <2>2. ASSUME NEW s \in DOMAIN sessions, NEW plan \in prepared,
                 NEW given \in SUBSET confirmations, NEW mode \in {"manual", "development"},
                 CommitUpdate(s, plan, given, mode)
          PROVE  Granted
      <3> DEFINE r == RecordOf(s, mode, plan.base, Apply(plan.base, plan.update), given)
      <3>1. chain' = Append(chain, r) /\ r \in PublicationRecord
        BY <2>2, CommitExtends
      <3>2. Newest = r
        BY <3>1, NewestIsAppended
      <3>3. /\ Holds(s, sessions[s].caller, "update-registry")
            /\ mode = "development" => sessions[s].development
            /\ sessions[s].grants = authority.grants
            /\ sessions[s].development = authority.development
        BY <2>2 DEF CommitUpdate, CheckCurrent, AuthorizeUpdate, AuthorityIInv, SessionsInForce
      <3> QED BY <3>2, <3>3 DEF RecordOf, Holds
    <2> QED BY <2>1, <2>2, OnlyCommitsPublish
  <1> QED BY <1>1, TypeCorrect, ChainInvariant, AuthorityInvariant, PTL
       DEF Spec, PublisherInForce

(* Every explicit decision published was confirmed, as published, by a      *)
(* principal who holds resolve-identity at that moment.                     *)
THEOREM DecisionsAreConfirmed == Spec => ConfirmersInForce
  <1> DEFINE
        Confirmed(d) == \E c \in confirmations :
              /\ c.decision = d
              /\ c.base = Newest.base /\ c.inventory = NewestUpdate.inventory
              /\ sessions[c.authority].revision = authority.revision
              /\ c.confirmer \in DOMAIN authority.grants
              /\ "resolve-identity" \in authority.grants[c.confirmer]
              /\ [confirmer |-> c.confirmer, intent |-> d.intent] \in Newest.confirmations
        Accounted ==
          Publishes /\ Newest.operation # "initialize" =>
            /\ \A d \in NewestUpdate.explicit : Confirmed(d)
            /\ {c.intent : c \in Newest.confirmations} = {d.intent : d \in NewestUpdate.explicit}
  <1>1. TypeOK /\ ChainIInv /\ AuthorityIInv /\ [Next]_vars => [Accounted]_vars
    <2> SUFFICES ASSUME TypeOK, ChainIInv, AuthorityIInv, [Next]_vars, chain' # chain
                 PROVE  Accounted
      BY DEF Publishes
    <2>1. ASSUME NEW s \in DOMAIN sessions, Initialize(s) PROVE Accounted
      <3> DEFINE r == RecordOf(s, "initialize", NoRegistry, Genesis(drawn + 1), {})
      <3>1. chain' = Append(chain, r) /\ r \in PublicationRecord
        BY <2>1, InitializeBegins DEF ChainIInv
      <3>2. Newest.operation = "initialize"
        BY <3>1, NewestIsAppended DEF RecordOf
      <3> QED BY <3>2
    <2>2. ASSUME NEW s \in DOMAIN sessions, NEW plan \in prepared,
                 NEW given \in SUBSET confirmations, NEW mode \in {"manual", "development"},
                 CommitUpdate(s, plan, given, mode)
          PROVE  Accounted
      <3> DEFINE r == RecordOf(s, mode, plan.base, Apply(plan.base, plan.update), given)
      <3>1. /\ chain' = Append(chain, r) /\ r \in PublicationRecord
            /\ LastUpdate(r.result) = plan.update
        BY <2>2, CommitExtends
      <3>2. /\ Newest.base = plan.base /\ NewestUpdate = plan.update
            /\ Newest.confirmations =
                 {[confirmer |-> c.confirmer, intent |-> c.decision.intent] : c \in given}
        BY <3>1, NewestIsAppended DEF RecordOf, NewestUpdate
      <3>3. /\ \A d \in plan.update.explicit : \E c \in given :
                 /\ c.authority = s /\ c.decision = d
                 /\ c.base = plan.base /\ c.inventory = plan.update.inventory
            /\ \A c \in given : c.decision \in plan.update.explicit
        BY <2>2 DEF CommitUpdate, AuthorizeUpdate, Matched
      <3>4. sessions[s].revision = authority.revision /\ sessions[s].grants = authority.grants
        BY <2>2 DEF CommitUpdate, CheckCurrent, AuthorityIInv, SessionsInForce
      <3>5. ASSUME NEW d \in NewestUpdate.explicit PROVE Confirmed(d)
        <4>1. PICK c \in given : /\ c.authority = s /\ c.decision = d
                                 /\ c.base = plan.base /\ c.inventory = plan.update.inventory
          BY <3>2, <3>3, <3>5
        <4>2. c \in confirmations /\ Holds(s, c.confirmer, "resolve-identity")
          BY <4>1 DEF AuthorityIInv, ConfirmationsGranted
        <4>3. [confirmer |-> c.confirmer, intent |-> d.intent] \in Newest.confirmations
          BY <4>1, <3>2
        <4> QED BY <4>1, <4>2, <4>3, <3>2, <3>4 DEF Holds
      <3>6. {c.intent : c \in Newest.confirmations} = {d.intent : d \in NewestUpdate.explicit}
        <4>1. {c.intent : c \in Newest.confirmations} = {c.decision.intent : c \in given}
          <5>1. ASSUME NEW c \in given
                PROVE  [confirmer |-> c.confirmer, intent |-> c.decision.intent]
                         \in Newest.confirmations
            BY <3>2
          <5>2. ASSUME NEW n \in Newest.confirmations
                PROVE  \E c \in given : n.intent = c.decision.intent
            BY <3>2
          <5>3. ASSUME NEW c \in given
                PROVE  \E n \in Newest.confirmations : n.intent = c.decision.intent
            BY <5>1
          <5> QED BY <5>2, <5>3
        <4>2. {c.decision.intent : c \in given} = {d.intent : d \in plan.update.explicit}
          BY <3>3
        <4> QED BY <4>1, <4>2, <3>2
      <3> QED BY <3>5, <3>6
    <2> QED BY <2>1, <2>2, OnlyCommitsPublish
  <1> QED BY <1>1, TypeCorrect, ChainInvariant, AuthorityInvariant, PTL
       DEF Spec, ConfirmersInForce
=============================================================================
