------------------------- MODULE IntentRegistryProofs -------------------------
(* Proofs about the intent registry, for every set of IDs, declarations,    *)
(* inventories and edits, whatever a host brings to a reconciliation and    *)
(* forms by hand.                                                           *)
EXTENDS ReconciliationProperties, WellFoundedInduction, TLAPS

-----------------------------------------------------------------------------
(* Natural numbers: a least one, and induction over a set of them.          *)
LEMMA LeastOfNaturals ==
    ASSUME NEW S \in SUBSET Nat, S # {}
    PROVE  \E m \in S : \A n \in S : m <= n
  <1> DEFINE R == {p \in Nat \X Nat : p[1] < p[2]}
  <1>1. R = OpToRel(<, Nat)
    BY DEF OpToRel
  <1>2. IsWellFoundedOn(R, Nat)
    BY ONLY <1>1, NatLessThanWellFounded, Zenon
  <1>3. PICK m \in S : \A n \in S : <<n, m>> \notin R
    <2> HIDE DEF R
    <2> QED BY <1>2, WFMin
  <1>4. ASSUME NEW n \in S PROVE m <= n
    <2>1. n \in Nat /\ m \in Nat /\ <<n, m>> \notin R
      BY <1>3
    <2>2. ~(n < m)
      BY <2>1
    <2> QED BY <2>1, <2>2
  <1> QED BY <1>4

LEMMA InductionOnNaturals ==
    ASSUME NEW S, 0 \in S, \A n \in Nat : n \in S => n + 1 \in S
    PROVE  Nat \subseteq S
  <1> SUFFICES ASSUME Nat \ S # {} PROVE FALSE
    OBVIOUS
  <1>1. PICK m \in Nat \ S : \A n \in Nat \ S : m <= n
    BY LeastOfNaturals
  <1>2. m # 0 /\ m - 1 \in Nat
    BY <1>1
  <1>3. m - 1 \in S
    BY <1>1, <1>2
  <1>4. (m - 1) + 1 \in S
    BY <1>2, <1>3
  <1> QED BY <1>1, <1>4

-----------------------------------------------------------------------------
(* A decision gives the declarations its kind has.                          *)
LEMMA DecisionShape ==
    ASSUME NEW d \in Decision
    PROVE  /\ d.id \in Ids /\ d.kind \in {"continue", "allocate", "retire", "restore"}
           /\ d.kind = "allocate" => d.from = Nowhere
           /\ d.kind # "allocate" => d.from \in Declarations
           /\ d.kind = "retire" => d.to = Nowhere
           /\ d.kind # "retire" => d.to \in Declarations
  BY DEF Decision, DecisionOf

LEMMA EntryAfterTyped ==
    ASSUME NEW d \in Decision
    PROVE  /\ EntryAfter(d) \in Entry
           /\ EntryAfter(d).id = d.id
           /\ EntryAfter(d).state = "active" <=> d.kind # "retire"
           /\ EntryAfter(d).state = "active" => EntryAfter(d).declaration = d.to
  BY DecisionShape DEF EntryAfter, Entry, EntryState

LEMMA EntriesAfterTyped ==
    ASSUME NEW update \in Update, NEW entries \in SUBSET Entry
    PROVE  EntriesAfter(entries, update) \subseteq Entry
  BY EntryAfterTyped DEF EntriesAfter, Update

(* The checks of apply suffice: an update that is valid on its own and      *)
(* passes them leaves a well formed snapshot, so the result is never        *)
(* refused after the checks.                                                *)
LEMMA ChecksSuffice ==
    ASSUME NEW position, NEW inventory, NEW update \in Update, NEW entries \in SUBSET Entry,
           ValidUpdate(update), WellFormed(entries),
           ChecksPass(position, entries, update, inventory)
    PROVE  WellFormed(EntriesAfter(entries, update))
<1> DEFINE after == EntriesAfter(entries, update)
           kept == {e \in entries : e.id \notin Decided(update)}
<1>1. update.decisions \subseteq Decision
  BY DEF Update
<1>2. ASSUME NEW e \in after
      PROVE  \/ e \in kept /\ e \in entries /\ e.id \notin Decided(update)
             \/ \E d \in update.decisions : e = EntryAfter(d)
  BY <1>2 DEF EntriesAfter
<1>3. ASSUME NEW d \in update.decisions
      PROVE  EntryAfter(d).id \in Decided(update)
  BY <1>1, EntryAfterTyped DEF Decided
<1>4. ASSUME NEW d \in update.decisions, NEW f \in update.decisions, d # f
      PROVE  /\ d.id # f.id
             /\ d.kind # "retire" => d.to # f.to
  <2>1. d.id # f.id /\ (d.to = Nowhere \/ d.to # f.to)
    BY <1>4 DEF ValidUpdate
  <2>2. d.kind # "retire" => d.to # Nowhere
    BY <1>1, DecisionShape, NowhereAssumption
  <2> QED
    BY <2>1, <2>2
<1>5. ASSUME NEW e \in after, NEW f \in after, e.id = f.id
      PROVE  e = f
  <2>1. CASE e \in kept /\ f \in kept
    BY <2>1, <1>5 DEF WellFormed
  <2>2. CASE \E d \in update.decisions, g \in update.decisions :
                e = EntryAfter(d) /\ f = EntryAfter(g)
    BY <2>2, <1>5, <1>4, <1>1, EntryAfterTyped
  <2> QED
    BY <1>5, <1>2, <1>3, <2>1, <2>2
<1>6. ASSUME NEW e \in kept, e.state = "active", NEW d \in update.decisions,
             d.kind # "retire"
      PROVE  e.declaration # d.to
  <2>1. TargetIsFree(d, entries, update, inventory)
    BY DEF ChecksPass
  <2>2. d.to # Nowhere
    BY <1>1, <1>6, DecisionShape, NowhereAssumption
  <2>3. d.id \in Decided(update)
    BY DEF Decided
  <2>4. e \in Holders(entries, d.to) => e.id = d.id \/ e.id \in Decided(update)
    BY <2>1, <2>2 DEF TargetIsFree
  <2> QED
    BY <1>6, <2>3, <2>4 DEF Holders, Active
<1>7. ASSUME NEW e \in Active(after), NEW f \in Active(after), e.declaration = f.declaration
      PROVE  e.id = f.id
  <2>0. e \in after /\ f \in after /\ e.state = "active" /\ f.state = "active"
    BY DEF Active
  <2>1. CASE e \in kept /\ f \in kept
    BY <2>1, <2>0, <1>7 DEF WellFormed, Active
  <2>2. CASE \E d \in update.decisions, g \in update.decisions :
                e = EntryAfter(d) /\ f = EntryAfter(g)
    BY <2>2, <2>0, <1>7, <1>4, <1>1, EntryAfterTyped
  <2>3. CASE e \in kept /\ \E d \in update.decisions : f = EntryAfter(d)
    BY <2>3, <2>0, <1>7, <1>6, <1>1, EntryAfterTyped
  <2>4. CASE f \in kept /\ \E d \in update.decisions : e = EntryAfter(d)
    BY <2>4, <2>0, <1>7, <1>6, <1>1, EntryAfterTyped
  <2> QED
    BY <2>0, <1>2, <2>1, <2>2, <2>3, <2>4
<1> QED
  BY <1>5, <1>7 DEF WellFormed

(* So apply never gives a result that is malformed.                         *)
LEMMA NeverMalformed ==
    ASSUME NEW position, NEW inventory, NEW update \in Update, NEW entries \in SUBSET Entry,
           ValidUpdate(update), WellFormed(entries)
    PROVE  Apply(position, entries, update, inventory) # "malformed"
  BY ChecksSuffice DEF Apply

LEMMA AppliedMeans ==
    ASSUME NEW position, NEW inventory, NEW update, NEW entries,
           Apply(position, entries, update, inventory) = "applied"
    PROVE  /\ ChecksPass(position, entries, update, inventory)
           /\ WellFormed(EntriesAfter(entries, update))
  BY DEF Apply

-----------------------------------------------------------------------------
(* What every step of the chain keeps.                                      *)

(* Each step of the chain is a valid update, and its stored result is what  *)
(* applying it to the step before gives.                                    *)
StepReplays(i) == ValidUpdate(chain[i].update) /\ Replays(chain, i)
RegistryInv == ChainTypeOK /\ \A i \in 1..Len(chain) : StepReplays(i)

LEMMA StepTyped ==
    ASSUME ChainTypeOK
    PROVE  /\ Len(chain) \in Nat /\ DOMAIN chain = 1..Len(chain)
           /\ chain # <<>> => Len(chain) \in 1..Len(chain)
           /\ \A i \in 1..Len(chain) :
                 chain[i].update \in Update /\ chain[i].entries \subseteq Entry
<1> DEFINE S == [update : Update, entries : SUBSET Entry]
<1>1. chain \in Seq(S)
  BY DEF ChainTypeOK
<1>2. \A step \in S : step.update \in Update /\ step.entries \subseteq Entry
  OBVIOUS
<1> HIDE DEF S
<1>3. \A i \in 1..Len(chain) : chain[i] \in S
  BY <1>1
<1>4. Len(chain) \in Nat /\ DOMAIN chain = 1..Len(chain) /\ (chain # <<>> => Len(chain) # 0)
  BY <1>1
<1> QED
  BY <1>2, <1>3, <1>4

LEMMA SnapshotTyped ==
    ASSUME ChainTypeOK
    PROVE  Snapshot \subseteq Entry
  BY StepTyped DEF Snapshot

(* Accepting an update appends one step and changes nothing else.           *)
LEMMA AcceptAppends ==
    ASSUME NEW update, NEW inventory, ChainTypeOK, Accept(update, inventory)
    PROVE  /\ chain' = Append(chain, [update |-> update,
                                      entries |-> EntriesAfter(Snapshot, update)])
           /\ ChainTypeOK'
           /\ Len(chain') = Len(chain) + 1 /\ Len(chain) \in Nat
           /\ \A i \in 1..Len(chain) : chain'[i] = chain[i]
           /\ chain'[Len(chain) + 1].update = update
           /\ chain'[Len(chain) + 1].entries = EntriesAfter(Snapshot, update)
           /\ Snapshot' = EntriesAfter(Snapshot, update)
<1> DEFINE step == [update |-> update, entries |-> EntriesAfter(Snapshot, update)]
<1>1. chain' = Append(chain, step) /\ update \in Update
  BY DEF Accept
<1>2. step \in [update : Update, entries : SUBSET Entry]
  BY <1>1, SnapshotTyped, EntriesAfterTyped
<1>3. chain \in Seq([update : Update, entries : SUBSET Entry])
  BY DEF ChainTypeOK
<1>4. chain' \in Seq([update : Update, entries : SUBSET Entry])
  BY <1>1, <1>2, <1>3
<1>5. /\ Len(chain') = Len(chain) + 1 /\ Len(chain) \in Nat
      /\ \A i \in 1..Len(chain) : chain'[i] = chain[i]
      /\ chain'[Len(chain) + 1] = step
  BY <1>1, <1>2, <1>3
<1>6. chain' # <<>>
  BY <1>4, <1>5
<1>7. Snapshot' = EntriesAfter(Snapshot, update)
  BY <1>5, <1>6 DEF Snapshot
<1> QED
  BY <1>1, <1>4, <1>5, <1>7 DEF ChainTypeOK

LEMMA AcceptKeepsInv ==
    ASSUME NEW update, NEW inventory, RegistryInv, Accept(update, inventory)
    PROVE  RegistryInv'
<1>1. ChainTypeOK /\ \A i \in 1..Len(chain) : StepReplays(i)
  BY DEF RegistryInv
<1>2. /\ ChainTypeOK'
      /\ Len(chain') = Len(chain) + 1 /\ Len(chain) \in Nat
      /\ \A i \in 1..Len(chain) : chain'[i] = chain[i]
      /\ chain'[Len(chain) + 1].update = update
      /\ chain'[Len(chain) + 1].entries = EntriesAfter(Snapshot, update)
  BY <1>1, AcceptAppends
<1>3. ASSUME NEW i \in 1..(Len(chain) + 1)
      PROVE  BaseOf(chain', i) = IF i = Len(chain) + 1 THEN Snapshot ELSE BaseOf(chain, i)
  <2>1. Len(chain) = 0 <=> chain = <<>>
    BY <1>1 DEF ChainTypeOK
  <2> QED
    BY <2>1, <1>2, <1>3 DEF BaseOf, Snapshot
<1>4. ASSUME NEW i \in 1..(Len(chain) + 1)
      PROVE  StepReplays(i)'
  <2>1. CASE i \in 1..Len(chain)
    <3>1. chain'[i] = chain[i] /\ BaseOf(chain', i) = BaseOf(chain, i)
      BY <2>1, <1>2, <1>3
    <3> QED
      BY <3>1, <2>1, <1>1 DEF StepReplays, Replays
  <2>2. CASE i = Len(chain) + 1
    <3>1. ValidUpdate(update) /\ Apply(Len(chain), Snapshot, update, inventory) = "applied"
      BY DEF Accept
    <3>2. update.inventory = inventory
      BY <3>1, AppliedMeans DEF ChecksPass
    <3>3. i - 1 = Len(chain) /\ BaseOf(chain', i) = Snapshot
      BY <2>2, <1>2, <1>3
    <3> QED
      BY <2>2, <1>2, <3>1, <3>2, <3>3 DEF StepReplays, Replays
  <2> QED
    BY <2>1, <2>2, <1>2
<1> QED
  BY <1>2, <1>4 DEF RegistryInv

(* The steps of the specification that change the chain accept one update.  *)
LEMMA ChainSteps ==
    ASSUME [Next]_vars
    PROVE  \/ UNCHANGED chain
           \/ \E update, inventory : Accept(update, inventory)
  BY DEF Next, vars, Reconcile, Publish, HandUpdate, Discard

LEMMA InvHolds == Spec => []RegistryInv
<1>1. Init => RegistryInv
  BY DEF Init, RegistryInit, RegistryInv, ChainTypeOK
<1>2. RegistryInv /\ [Next]_vars => RegistryInv'
  <2> SUFFICES ASSUME RegistryInv, [Next]_vars PROVE RegistryInv'
    OBVIOUS
  <2>1. CASE UNCHANGED chain
    BY <2>1 DEF RegistryInv, ChainTypeOK, StepReplays, Replays, BaseOf
  <2>2. CASE \E update, inventory : Accept(update, inventory)
    BY <2>2, AcceptKeepsInv
  <2> QED
    BY <2>1, <2>2, ChainSteps
<1> QED
  BY <1>1, <1>2, PTL DEF Spec

-----------------------------------------------------------------------------
(* The theorems.                                                            *)

(* The chain stays typed: what is accepted is an update of the registry's   *)
(* decisions, and its result is entries (ChainTypeOK, a part of TypeOK).    *)
THEOREM ChainIsTyped == Spec => []ChainTypeOK
  BY InvHolds, PTL DEF RegistryInv

(* After every accepted update an ID has one entry and every declaration of *)
(* its inventory exactly one active holder, whichever updates came before.  *)
THEOREM IdentitiesAreOneToOne == Spec => []OneIdentityEach
<1>1. RegistryInv => OneIdentityEach
  <2> SUFFICES ASSUME RegistryInv, NEW i \in DOMAIN chain
               PROVE  /\ WellFormed(chain[i].entries)
                      /\ \A declaration \in chain[i].update.inventory.declarations :
                            \E e \in chain[i].entries :
                                Holders(chain[i].entries, declaration) = {e}
    BY DEF OneIdentityEach
  <2> DEFINE base == BaseOf(chain, i)
             update == chain[i].update
             after == EntriesAfter(base, update)
  <2>1. i \in 1..Len(chain)
    BY StepTyped DEF RegistryInv
  <2>2. StepReplays(i) /\ update \in Update
    BY <2>1, StepTyped DEF RegistryInv
  <2>3. /\ chain[i].entries = after
        /\ Apply(i - 1, base, update, update.inventory) = "applied"
    BY <2>2 DEF StepReplays, Replays
  <2>4. WellFormed(after) /\ ChecksPass(i - 1, base, update, update.inventory)
    BY <2>3, AppliedMeans
  <2>5. ASSUME NEW declaration \in update.inventory.declarations
        PROVE  \E e \in after : e \in Holders(after, declaration)
    <3>1. Covers(base, update, update.inventory)
      BY <2>4 DEF ChecksPass
    <3>2. CASE declaration \in Given(update)
      <4>1. PICK d \in update.decisions : d.to = declaration /\ declaration # Nowhere
        BY <3>2 DEF Given
      <4>2. d \in Decision
        BY <2>2 DEF Update
      <4>3. d.kind # "retire"
        BY <4>1, <4>2, DecisionShape
      <4>4. EntryAfter(d) \in after
        BY DEF EntriesAfter
      <4> QED
        BY <4>1, <4>2, <4>3, <4>4, EntryAfterTyped DEF Holders, Active
    <3>3. CASE \E e \in Holders(base, declaration) : e.id \notin Decided(update)
      BY <3>3 DEF EntriesAfter, Holders, Active
    <3> QED
      BY <3>1, <3>2, <3>3 DEF Covers
  <2>6. ASSUME NEW declaration, NEW e \in Holders(after, declaration),
               NEW f \in Holders(after, declaration)
        PROVE  e = f
    BY <2>4 DEF WellFormed, Holders, Active
  <2>7. ASSUME NEW declaration \in update.inventory.declarations
        PROVE  \E e \in after : Holders(after, declaration) = {e}
    <3>1. PICK e \in after : e \in Holders(after, declaration)
      BY <2>5
    <3>2. Holders(after, declaration) = {e}
      BY <3>1, <2>6
    <3> QED
      BY <3>2
  <2> QED
    BY <2>3, <2>4, <2>7
<1> QED
  BY <1>1, InvHolds, PTL

(* The snapshot a step starts from is well formed.                          *)
LEMMA SnapshotWellFormed ==
    ASSUME RegistryInv
    PROVE  WellFormed(Snapshot)
<1>1. CASE chain = <<>>
  BY <1>1 DEF Snapshot, WellFormed, Active
<1>2. CASE chain # <<>>
  <2>1. Len(chain) \in 1..Len(chain) /\ StepReplays(Len(chain))
    BY <1>2, StepTyped DEF RegistryInv
  <2> QED
    BY <2>1, <1>2, AppliedMeans DEF StepReplays, Replays, Snapshot
<1> QED
  BY <1>1, <1>2

(* One accepted update keeps every ID and changes an entry only by a        *)
(* decision that names what the entry was.                                  *)
LEMMA AcceptKeepsIds ==
    ASSUME NEW update, NEW inventory, RegistryInv, Accept(update, inventory)
    PROVE  /\ IdsOf(Snapshot) \subseteq IdsOf(EntriesAfter(Snapshot, update))
           /\ \A e \in Snapshot \ EntriesAfter(Snapshot, update) : \E d \in update.decisions :
                 /\ d.id = e.id /\ d.from = e.declaration
                 /\ e.state = "retired" <=> d.kind = "restore"
<1> DEFINE after == EntriesAfter(Snapshot, update)
<1>1. update.decisions \subseteq Decision /\ Snapshot \subseteq Entry
  BY SnapshotTyped DEF Accept, Update, RegistryInv
<1>2. ASSUME NEW e \in Snapshot, e.id \notin Decided(update)
      PROVE  e \in after
  BY <1>2 DEF EntriesAfter
<1>3. ASSUME NEW d \in update.decisions
      PROVE  EntryAfter(d) \in after /\ EntryAfter(d).id = d.id
  BY <1>1, EntryAfterTyped DEF EntriesAfter
<1>4. IdsOf(Snapshot) \subseteq IdsOf(after)
  <2> SUFFICES ASSUME NEW e \in Snapshot PROVE \E f \in after : f.id = e.id
    BY DEF IdsOf
  <2>1. CASE e.id \notin Decided(update)
    BY <2>1, <1>2
  <2>2. CASE e.id \in Decided(update)
    BY <2>2, <1>3 DEF Decided
  <2> QED
    BY <2>1, <2>2
<1>5. ASSUME NEW e \in Snapshot, e \notin after
      PROVE  \E d \in update.decisions :
                /\ d.id = e.id /\ d.from = e.declaration
                /\ e.state = "retired" <=> d.kind = "restore"
  <2>1. PICK d \in update.decisions : d.id = e.id
    BY <1>2, <1>5 DEF Decided
  <2>2. FitsBase(d, Snapshot, inventory)
    BY AppliedMeans DEF Accept, ChecksPass
  <2>3. d.kind \in {"continue", "allocate", "retire", "restore"}
    BY <1>1, DecisionShape
  <2>4. d.kind # "allocate"
    BY <2>1, <2>2 DEF FitsBase, IdsOf
  <2>5. ASSUME NEW x \in Snapshot, x.id = d.id
        PROVE  x = e
    BY <2>1, <2>5, SnapshotWellFormed DEF WellFormed
  <2>6. CASE d.kind = "restore"
    <3>1. \E x \in Snapshot : x.id = d.id /\ x.state = "retired" /\ x.declaration = d.from
      BY <2>2, <2>6 DEF FitsBase
    <3> QED
      BY <3>1, <2>1, <2>5, <2>6
  <2>7. CASE d.kind \in {"continue", "retire"}
    <3>1. \E x \in Snapshot : x.id = d.id /\ x.state = "active" /\ x.declaration = d.from
      BY <2>2, <2>7 DEF FitsBase
    <3> QED
      BY <3>1, <2>1, <2>5, <2>7
  <2> QED
    BY <2>3, <2>4, <2>6, <2>7
<1> QED
  BY <1>4, <1>5

(* The chain only grows; an ID is never forgotten, and a retired one comes  *)
(* back only by an explicit restore of the declaration it kept.             *)
THEOREM IdsStay == Spec => IdsArePermanent
<1> DEFINE Keeps ==
      /\ \A i \in DOMAIN chain : i \in DOMAIN chain' /\ chain'[i] = chain[i]
      /\ IdsOf(Snapshot) \subseteq IdsOf(Snapshot')
      /\ \A e \in Snapshot \ Snapshot' : \E d \in chain'[Len(chain')].update.decisions :
            /\ d.id = e.id /\ d.from = e.declaration
            /\ e.state = "retired" <=> d.kind = "restore"
<1>1. RegistryInv /\ [Next]_vars => Keeps
  <2> SUFFICES ASSUME RegistryInv, [Next]_vars PROVE Keeps
    OBVIOUS
  <2>1. CASE UNCHANGED chain
    BY <2>1 DEF Snapshot, IdsOf
  <2>2. ASSUME NEW update, NEW inventory, Accept(update, inventory)
        PROVE  Keeps
    <3>1. /\ ChainTypeOK' /\ ChainTypeOK
          /\ Len(chain') = Len(chain) + 1 /\ Len(chain) \in Nat
          /\ \A i \in 1..Len(chain) : chain'[i] = chain[i]
          /\ chain'[Len(chain')].update = update
          /\ Snapshot' = EntriesAfter(Snapshot, update)
      BY <2>2, AcceptAppends DEF RegistryInv
    <3>2. DOMAIN chain = 1..Len(chain) /\ DOMAIN chain' = 1..Len(chain')
      BY <3>1 DEF ChainTypeOK
    <3>3. \A i \in DOMAIN chain : i \in DOMAIN chain' /\ chain'[i] = chain[i]
      BY <3>1, <3>2
    <3> QED
      BY <3>1, <3>3, <2>2, AcceptKeepsIds
  <2> QED
    BY <2>1, <2>2, ChainSteps
<1>2. RegistryInv /\ [Next]_vars => [Keeps]_vars
  BY <1>1
<1> QED
  BY <1>2, InvHolds, PTL DEF Spec, IdsArePermanent

-----------------------------------------------------------------------------
(* A plan that is published late.                                           *)

(* A plan names the step it was made for and carries what it gives there,   *)
(* however far the chain has grown since.                                   *)
PlanInv ==
    Planned => \E base \in 0..Len(chain) :
        /\ answer.outcome.update.base = base
        /\ answer.outcome.entries =
              EntriesAfter(BaseOf(chain, base + 1), answer.outcome.update)

LEMMA PlanShape ==
    ASSUME NEW inventory, NEW inputs, Outcome(inventory, inputs).kind = "planned"
    PROVE  /\ Outcome(inventory, inputs).update.base = Generation
           /\ Outcome(inventory, inputs).entries =
                 EntriesAfter(Snapshot, Outcome(inventory, inputs).update)
<1> DEFINE update == Formed(Classify(inventory, inputs), inventory, inputs)
<1>1. Outcome(inventory, inputs) = Plan(update, inventory, inputs)
  BY DEF Outcome, Failed, Unresolved
<1>2. update.base = Generation
  BY DEF Formed
<1> HIDE DEF update
<1>3. Plan(update, inventory, inputs) =
        [kind |-> "planned", update |-> update, entries |-> EntriesAfter(Snapshot, update)]
  BY <1>1 DEF Plan, Failed, Unresolved
<1> QED
  BY <1>1, <1>2, <1>3

LEMMA BaseOfNext ==
    ASSUME ChainTypeOK
    PROVE  BaseOf(chain, Len(chain) + 1) = Snapshot
<1>1. Len(chain) \in Nat /\ (Len(chain) = 0 <=> chain = <<>>)
  BY DEF ChainTypeOK
<1> QED
  BY <1>1 DEF BaseOf, Snapshot

LEMMA PlanInvHolds == Spec => []PlanInv
<1>1. Init => PlanInv
  BY DEF Init, PlanInv, Planned, NoAnswer
<1>2. RegistryInv /\ PlanInv /\ [Next]_vars => PlanInv'
  <2> SUFFICES ASSUME RegistryInv, PlanInv, [Next]_vars PROVE PlanInv'
    OBVIOUS
  <2>0. ChainTypeOK /\ Len(chain) \in Nat
    BY StepTyped DEF RegistryInv
  <2>1. CASE Reconcile
    <3> SUFFICES ASSUME Planned' PROVE PlanInv'
      BY DEF PlanInv
    <3>1. PICK scene \in Scenes(chain) :
            answer' = [kind |-> "given", base |-> Generation,
                       inventory |-> scene.inventory, inputs |-> scene.inputs,
                       outcome |-> Outcome(scene.inventory, scene.inputs)]
      BY <2>1 DEF Reconcile
    <3>2. answer'.outcome = Outcome(scene.inventory, scene.inputs) /\ chain' = chain
      BY <3>1, <2>1 DEF Reconcile
    <3>3. /\ answer'.outcome.update.base = Len(chain)
          /\ answer'.outcome.entries = EntriesAfter(Snapshot, answer'.outcome.update)
      BY <3>2, PlanShape DEF Planned, Generation
    <3> QED
      BY <3>2, <3>3, <2>0, BaseOfNext DEF PlanInv
  <2>2. CASE Publish \/ Discard
    BY <2>2 DEF Publish, Discard, PlanInv, Planned, NoAnswer
  <2>3. CASE HandUpdate
    <3>1. PICK update : Accept(update, update.inventory) /\ answer' = answer
      BY <2>3 DEF HandUpdate
    <3>2. /\ ChainTypeOK' /\ Len(chain') = Len(chain) + 1
          /\ \A i \in 1..Len(chain) : chain'[i] = chain[i]
      BY <3>1, <2>0, AcceptAppends
    <3>3. \A base \in 0..Len(chain) : BaseOf(chain', base + 1) = BaseOf(chain, base + 1)
      BY <3>2, <2>0 DEF BaseOf
    <3> QED
      BY <3>1, <3>2, <3>3, <2>0 DEF PlanInv, Planned
  <2>4. CASE UNCHANGED vars
    BY <2>4 DEF vars, PlanInv, Planned, BaseOf
  <2> QED
    BY <2>1, <2>2, <2>3, <2>4 DEF Next
<1> QED
  BY <1>1, <1>2, InvHolds, PTL DEF Spec

(* What a host publishes of a plan is what the plan said when it was made:  *)
(* the base an update names is compared with the head (check_names).        *)
THEOREM PlansArePublishedAsPlanned == Spec => PublishedAsPlanned
<1> DEFINE AsPlanned ==
      chain' # chain /\ answer' # answer => Planned /\ Snapshot' = answer.outcome.entries
<1>1. RegistryInv /\ PlanInv /\ [Next]_vars => AsPlanned
  <2> SUFFICES ASSUME RegistryInv, PlanInv, [Next]_vars, chain' # chain, answer' # answer
               PROVE  Planned /\ Snapshot' = answer.outcome.entries
    OBVIOUS
  <2>1. Publish
    BY DEF Next, vars, Reconcile, HandUpdate, Discard
  <2>2. Planned /\ Accept(answer.outcome.update, answer.inventory)
    BY <2>1 DEF Publish
  <2>3. answer.outcome.update.base = Len(chain)
    BY <2>2, AppliedMeans DEF Accept, ChecksPass
  <2>4. Snapshot' = EntriesAfter(Snapshot, answer.outcome.update)
    BY <2>2, AcceptAppends DEF RegistryInv
  <2>5. answer.outcome.entries =
          EntriesAfter(BaseOf(chain, Len(chain) + 1), answer.outcome.update)
    BY <2>2, <2>3 DEF PlanInv
  <2> QED
    BY <2>2, <2>4, <2>5, BaseOfNext DEF RegistryInv
<1>2. RegistryInv /\ PlanInv /\ [Next]_vars => [AsPlanned]_vars
  BY <1>1
<1> QED
  BY <1>2, InvHolds, PlanInvHolds, PTL DEF Spec, PublishedAsPlanned

(* Planning adds nothing to what the registry may do: every behaviour of    *)
(* the planner and its host is one of the registry by itself.               *)
THEOREM ReconciliationImplementsRegistry == Spec => RegistrySpec
<1>1. Init => RegistryInit
  BY DEF Init
<1>2. [Next]_vars => [RegistryNext]_chain
  <2> SUFFICES ASSUME [Next]_vars PROVE [RegistryNext]_chain
    OBVIOUS
  <2>1. ASSUME NEW update, NEW inventory, Accept(update, inventory)
        PROVE  RegistryNext
    <3>1. update \in Update /\ inventory = update.inventory
      BY <2>1, AppliedMeans DEF Accept, ChecksPass
    <3>2. inventory \in Inventories
      BY <3>1 DEF Update
    <3> QED
      BY <2>1, <3>1, <3>2 DEF RegistryNext
  <2> QED
    BY <2>1, ChainSteps
<1> QED
  BY <1>1, <1>2, PTL DEF Spec, RegistrySpec

-----------------------------------------------------------------------------
(* Verifying a retained history.                                            *)

LEMMA LastPosition ==
    ASSUME NEW n \in Nat, NEW S \in SUBSET (1..n), S # {}
    PROVE  \E m \in S : \A j \in S : j <= m
<1> DEFINE T == {n - j : j \in S}
<1>0. \A j \in S : j \in 1..n /\ n - j \in Nat
  OBVIOUS
<1>1. T \in SUBSET Nat /\ T # {}
  BY <1>0
<1>2. PICK t \in T : \A x \in T : t <= x
  BY <1>1, LeastOfNaturals
<1>3. PICK m \in S : t = n - m
  BY <1>2
<1>4. ASSUME NEW j \in S PROVE j <= m
  <2>1. n - m <= n - j
    BY <1>2, <1>3
  <2>2. m \in 1..n /\ j \in 1..n
    OBVIOUS
  <2> QED BY <2>1, <2>2
<1> QED BY <1>4

(* The walk needs an artifact of step i that was lost; and step i lies      *)
(* beyond the limit of steps.                                               *)
Misses(i, anchor, lost) ==
    \/ <<"update", i>> \in lost
    \/ <<"inventory", i>> \in lost
    \/ i - 1 # anchor /\ <<"registry", i - 1>> \in lost
IsBeyond(i, n) == n - i >= MaxHistorySteps

(* What verify_history answers is decided by the newest step it stops at.   *)
LEMMA WalkEnds ==
    ASSUME NEW history, NEW n \in Nat, Len(history) = n, DOMAIN history = 1..n,
           NEW anchor \in 0..n, NEW lost
    PROVE  /\ (\E i \in (anchor + 1)..n : Misses(i, anchor, lost) /\ ~IsBeyond(i, n))
                => VerifyHistory(history, anchor, lost) = "blocked"
           /\ ((~\E i \in (anchor + 1)..n : Misses(i, anchor, lost) /\ ~IsBeyond(i, n))
               /\ n - anchor > MaxHistorySteps)
                => VerifyHistory(history, anchor, lost) = "limit"
           /\ ((~\E i \in (anchor + 1)..n : Misses(i, anchor, lost) /\ ~IsBeyond(i, n))
               /\ ~(n - anchor > MaxHistorySteps))
                => VerifyHistory(history, anchor, lost) =
                      IF \A i \in (anchor + 1)..n : Replays(history, i)
                      THEN "verified" ELSE "not-replayed"
<1> DEFINE walked == {i \in DOMAIN history : i > anchor \/ anchor > Len(history)}
           Stops == {i \in walked : Misses(i, anchor, lost) \/ IsBeyond(i, n)}
           first == CHOOSE i \in Stops : \A j \in Stops : j <= i
<1>1. VerifyHistory(history, anchor, lost) =
         IF Stops # {} THEN (IF IsBeyond(first, n) THEN "limit" ELSE "blocked")
         ELSE IF anchor > Len(history) THEN "not-anchored"
         ELSE IF \A i \in walked : Replays(history, i) THEN "verified"
         ELSE "not-replayed"
  BY DEF VerifyHistory, Misses, IsBeyond
<1>2. walked = (anchor + 1)..n
  <2>1. ASSUME NEW i \in 1..n PROVE (i > anchor \/ anchor > n) <=> i \in (anchor + 1)..n
    OBVIOUS
  <2>2. (anchor + 1)..n \subseteq 1..n
    OBVIOUS
  <2> QED BY <2>1, <2>2
<1>3. Stops \in SUBSET (1..n) /\ MaxHistorySteps \in Nat
  BY HistoryAssumption
<1> HIDE DEF walked
<1>4. ASSUME Stops # {} PROVE first \in Stops /\ \A j \in Stops : j <= first
  <2>1. \E m \in Stops : \A j \in Stops : j <= m
    BY <1>3, <1>4, LastPosition
  <2> HIDE DEF Stops
  <2> QED BY <2>1
<1>5. ASSUME NEW i \in (anchor + 1)..n, Misses(i, anchor, lost), ~IsBeyond(i, n)
      PROVE  VerifyHistory(history, anchor, lost) = "blocked"
  <2>1. i \in Stops
    BY <1>2, <1>5
  <2>2. first \in Stops /\ i <= first
    BY <1>4, <2>1
  <2>3. first \in 1..n /\ i \in 1..n
    BY <1>3, <2>1, <2>2
  <2>4. ~IsBeyond(first, n)
    <3> HIDE DEF first, Stops
    <3> QED BY <1>3, <1>5, <2>2, <2>3 DEF IsBeyond
  <2> QED BY <1>1, <2>1, <2>4
<1>6. ASSUME ~\E i \in (anchor + 1)..n : Misses(i, anchor, lost) /\ ~IsBeyond(i, n),
             n - anchor > MaxHistorySteps
      PROVE  VerifyHistory(history, anchor, lost) = "limit"
  <2>1. anchor + 1 \in (anchor + 1)..n /\ IsBeyond(anchor + 1, n)
    BY <1>3, <1>6 DEF IsBeyond
  <2>2. Stops # {}
    BY <1>2, <2>1
  <2>3. first \in Stops
    BY <1>4, <2>2
  <2>4. IsBeyond(first, n)
    BY <1>2, <1>6, <2>3
  <2> QED BY <1>1, <2>2, <2>4
<1>7. ASSUME ~\E i \in (anchor + 1)..n : Misses(i, anchor, lost) /\ ~IsBeyond(i, n),
             ~(n - anchor > MaxHistorySteps)
      PROVE  Stops = {}
  <2> SUFFICES ASSUME NEW i \in Stops PROVE FALSE
    OBVIOUS
  <2>1. i \in (anchor + 1)..n /\ IsBeyond(i, n)
    BY <1>2, <1>7
  <2> QED BY <2>1, <1>3, <1>7 DEF IsBeyond
<1>8. ~(anchor > n)
  OBVIOUS
<1> HIDE DEF Stops, first
<1>9. (\E i \in (anchor + 1)..n : Misses(i, anchor, lost) /\ ~IsBeyond(i, n))
        => VerifyHistory(history, anchor, lost) = "blocked"
  BY <1>5
<1>10. ASSUME ~\E i \in (anchor + 1)..n : Misses(i, anchor, lost) /\ ~IsBeyond(i, n),
             ~(n - anchor > MaxHistorySteps)
       PROVE  VerifyHistory(history, anchor, lost) =
                 IF \A i \in (anchor + 1)..n : Replays(history, i)
                 THEN "verified" ELSE "not-replayed"
  <2>1. Stops = {}
    BY <1>7, <1>10
  <2> QED BY <1>1, <1>2, <1>8, <2>1
<1>11. ((~\E i \in (anchor + 1)..n : Misses(i, anchor, lost) /\ ~IsBeyond(i, n))
        /\ n - anchor > MaxHistorySteps)
         => VerifyHistory(history, anchor, lost) = "limit"
  BY <1>6
<1>12. ((~\E i \in (anchor + 1)..n : Misses(i, anchor, lost) /\ ~IsBeyond(i, n))
        /\ ~(n - anchor > MaxHistorySteps))
         => VerifyHistory(history, anchor, lost) =
                 IF \A i \in (anchor + 1)..n : Replays(history, i)
                 THEN "verified" ELSE "not-replayed"
  BY <1>10
<1> QED BY ONLY <1>9, <1>11, <1>12, Zenon

(* Whoever retains the artifacts after a snapshot it accepted can replay    *)
(* the published chain from there, up to the limit of steps; nothing lost   *)
(* and nothing forged is ever verified.                                     *)
THEOREM HistoriesVerify == Spec => []HistoryVerifies
<1>1. RegistryInv => HistoryVerifies
  <2> SUFFICES ASSUME RegistryInv, NEW anchor \in 0..Len(chain)
               PROVE  /\ \A a \in Artifacts :
                            VerifyHistory(chain, anchor, {a}) =
                                IF a \in Needed(anchor) THEN "blocked"
                                ELSE IF TooFar(anchor) THEN "limit" ELSE "verified"
                      /\ \A i \in (anchor + 1)..Len(chain) : \A e \in chain[i].entries :
                            VerifyHistory([chain EXCEPT ![i].entries = chain[i].entries \ {e}],
                                          anchor, {}) =
                                IF TooFar(anchor) THEN "limit" ELSE "not-replayed"
    BY DEF HistoryVerifies
  <2> DEFINE n == Len(chain)
  <2>1. n \in Nat /\ DOMAIN chain = 1..n /\ MaxHistorySteps \in Nat /\ ChainTypeOK
    BY StepTyped, HistoryAssumption DEF RegistryInv
  <2>2. \A i \in 1..n : Replays(chain, i)
    BY DEF RegistryInv, StepReplays
  <2>3. ASSUME NEW a \in Artifacts
        PROVE  VerifyHistory(chain, anchor, {a}) =
                   IF a \in Needed(anchor) THEN "blocked"
                   ELSE IF TooFar(anchor) THEN "limit" ELSE "verified"
    <3>1. PICK kind \in {"update", "inventory", "registry"}, j \in 1..n : a = <<kind, j>>
      BY DEF Artifacts
    <3>2. a \in Needed(anchor) <=>
             \E i \in (anchor + 1)..n : Misses(i, anchor, {a}) /\ ~IsBeyond(i, n)
      <4>1. CASE kind = "registry"
        <5>1. a \in Needed(anchor) <=> j > anchor /\ j # n /\ ~(n - j > MaxHistorySteps)
          BY <3>1, <4>1 DEF Needed, TooFar
        <5>2. \A i \in (anchor + 1)..n :
                 Misses(i, anchor, {a}) <=> i - 1 # anchor /\ j = i - 1
          BY <3>1, <4>1 DEF Misses
        <5>3. ASSUME a \in Needed(anchor)
              PROVE  \E i \in (anchor + 1)..n : Misses(i, anchor, {a}) /\ ~IsBeyond(i, n)
          <6> HIDE DEF n
          <6>0. /\ j \in Nat /\ anchor \in Nat /\ n \in Nat /\ MaxHistorySteps \in Nat
                /\ j > anchor /\ j # n /\ j <= n /\ ~(n - j > MaxHistorySteps)
            <7>1. /\ j \in 1..n /\ anchor \in 0..n /\ n \in Nat /\ MaxHistorySteps \in Nat
              BY <2>1, <3>1 DEF n
            <7>2. j \in Nat /\ anchor \in Nat /\ j <= n
              BY <7>1
            <7> QED BY <7>1, <7>2, <5>1, <5>3
          <6>1. j + 1 \in (anchor + 1)..n /\ (j + 1) - 1 = j /\ j # anchor
            BY ONLY <6>0
          <6>2a. ~(n - (j + 1) >= MaxHistorySteps)
            BY ONLY <6>0
          <6>2. ~IsBeyond(j + 1, n)
            BY <6>2a DEF IsBeyond
          <6> QED BY <5>2, <6>1, <6>2
        <5>4. ASSUME NEW i \in (anchor + 1)..n, Misses(i, anchor, {a}), ~IsBeyond(i, n)
              PROVE  a \in Needed(anchor)
          <6>1. i - 1 # anchor /\ j = i - 1
            BY <5>2, <5>4
          <6>2. ~(n - i >= MaxHistorySteps)
            BY <5>4 DEF IsBeyond
          <6>3. j > anchor /\ j # n /\ ~(n - j > MaxHistorySteps)
            BY <6>1, <6>2, <2>1
          <6> QED BY <5>1, <6>3
        <5> QED BY <5>3, <5>4
      <4>2. CASE kind \in {"update", "inventory"}
        <5>1. a \in Needed(anchor) <=> j > anchor /\ ~(n - (j - 1) > MaxHistorySteps)
          BY <3>1, <4>2 DEF Needed, TooFar
        <5>2. \A i \in (anchor + 1)..n : Misses(i, anchor, {a}) <=> j = i
          BY <3>1, <4>2 DEF Misses
        <5>3. j > anchor => j \in (anchor + 1)..n
          BY <2>1
        <5>4. ~IsBeyond(j, n) <=> ~(n - (j - 1) > MaxHistorySteps)
          BY <2>1 DEF IsBeyond
        <5>5. \A i \in (anchor + 1)..n : i > anchor
          BY <2>1
        <5> QED BY <5>1, <5>2, <5>3, <5>4, <5>5
      <4> QED BY <4>1, <4>2
    <3>3. \A i \in (anchor + 1)..n : Replays(chain, i)
      BY <2>1, <2>2
    <3> QED BY <2>1, <3>2, <3>3, WalkEnds DEF TooFar
  <2>4. ASSUME NEW i \in (anchor + 1)..n, NEW e \in chain[i].entries
        PROVE  VerifyHistory([chain EXCEPT ![i].entries = chain[i].entries \ {e}], anchor, {}) =
                   IF TooFar(anchor) THEN "limit" ELSE "not-replayed"
    <3> DEFINE forged == [chain EXCEPT ![i].entries = chain[i].entries \ {e}]
               S == [update : Update, entries : SUBSET Entry]
    <3>1. i \in 1..n /\ chain \in Seq(S)
      BY <2>1 DEF ChainTypeOK
    <3>2. chain[i] \in S
      <4> HIDE DEF S, forged
      <4>1. i \in 1..Len(chain) /\ chain \in Seq(S)
        BY <3>1
      <4> QED BY <4>1
    <3>3. [chain[i] EXCEPT !.entries = chain[i].entries \ {e}] \in S
      BY <3>2
    <3>4. forged = [chain EXCEPT ![i] = [chain[i] EXCEPT !.entries = chain[i].entries \ {e}]]
      OBVIOUS
    <3> HIDE DEF S
    <3>5. forged \in Seq(S) /\ Len(forged) = n /\ DOMAIN forged = 1..n
      <4> DEFINE given == [chain[i] EXCEPT !.entries = chain[i].entries \ {e}]
      <4>1. given \in S /\ i \in 1..Len(chain) /\ chain \in Seq(S)
        BY <3>1, <3>3
      <4>2. forged = [chain EXCEPT ![i] = given]
        BY <3>4
      <4> HIDE DEF given, forged
      <4>3. [chain EXCEPT ![i] = given] \in Seq(S) /\ Len([chain EXCEPT ![i] = given]) = Len(chain)
        BY <4>1
      <4>4. DOMAIN [chain EXCEPT ![i] = given] = DOMAIN chain
        OBVIOUS
      <4> QED BY <4>2, <4>3, <4>4, <2>1
    <3>6. /\ forged[i].entries = chain[i].entries \ {e}
          /\ forged[i].update = chain[i].update
          /\ BaseOf(forged, i) = BaseOf(chain, i)
      <4>1. forged[i] = [chain[i] EXCEPT !.entries = chain[i].entries \ {e}]
        BY <3>1, <3>4, <2>1
      <4>2. chain[i] = [update |-> chain[i].update, entries |-> chain[i].entries]
        BY <3>2 DEF S
      <4>3. i # 1 => forged[i - 1] = chain[i - 1]
        BY <3>1, <3>4, <2>1
      <4> HIDE DEF forged
      <4>4. forged[i].entries = chain[i].entries \ {e} /\ forged[i].update = chain[i].update
        BY <4>1, <4>2
      <4> QED BY <4>3, <4>4 DEF BaseOf
    <3> HIDE DEF forged
    <3>7. ~Replays(forged, i)
      <4>1. chain[i].entries = EntriesAfter(BaseOf(chain, i), chain[i].update)
        BY <2>2, <3>1 DEF Replays
      <4> QED BY <3>6, <4>1 DEF Replays
    <3>8. ~\E m \in (anchor + 1)..n : Misses(m, anchor, {}) /\ ~IsBeyond(m, n)
      BY DEF Misses
    <3>9. VerifyHistory(forged, anchor, {}) = IF TooFar(anchor) THEN "limit" ELSE "not-replayed"
      BY <2>1, <3>5, <3>7, <3>8, WalkEnds DEF TooFar
    <3> QED BY <3>9 DEF forged
  <2> QED BY <2>3, <2>4
<1> QED
  BY <1>1, InvHolds, PTL
=============================================================================
