-------------------------- MODULE LocalHostProperties --------------------------
(* What the local host guarantees of the chain it publishes, whatever its   *)
(* sessions do with what they saw when they opened.                         *)
EXTENDS LocalHost

(* Every variable stays in its type: HostState, Session, Confirmation and   *)
(* PublicationRecord of crates/intlify_local_host.                          *)
TypeOK ==
    /\ binding \in Binding
    /\ generation \in Nat
    /\ authority \in Authority
    /\ chain \in Seq(PublicationRecord)
    /\ sessions \in Seq(Session)
    /\ prepared \subseteq Plan
    /\ confirmations \subseteq Confirmation
    /\ drawn \in Nat

LastUpdate(registry) == registry.updates[Len(registry.updates)]

(* The publications form one chain: the first is a genesis, each later one  *)
(* is exactly one update of the one before it.  No update is lost and no    *)
(* second genesis appears, though sessions prepare and initialize against   *)
(* the registry they saw when they opened (commit_update, check_current,    *)
(* commit_initialization); nor does the chain outgrow the retained history, *)
(* however many of them found it short of that (within_history).            *)
ChainLinear ==
    /\ Len(chain) <= MaxGenerations
    /\ \A i \in DOMAIN chain :
          IF i = 1
          THEN chain[i].base = NoRegistry /\ chain[i].result.updates = <<>>
          ELSE /\ chain[i].base = chain[i - 1].result
               /\ chain[i].result = Apply(chain[i].base, LastUpdate(chain[i].result))

(* Provenance is ordered: each publication took a later host generation than *)
(* the one before and no older authority, and none is ahead of the host.    *)
RecordsAreOrdered ==
    /\ \A i, j \in DOMAIN chain : i < j =>
          /\ chain[i].generation < chain[j].generation
          /\ chain[i].revision <= chain[j].revision
    /\ \A i \in DOMAIN chain :
          chain[i].generation <= generation /\ chain[i].revision <= authority.revision

(* The binding says what the chain holds: no chain before initialization,   *)
(* one from then on; an update needs no check that the binding is active.   *)
BindingMatchesChain ==
    /\ binding \in {"not_enrolled", "uninitialized"} => chain = <<>>
    /\ binding = "active" => chain # <<>>

(* What the step just published, if it published.                           *)
Publishes == chain' # chain
Newest == chain'[Len(chain')]
NewestUpdate == LastUpdate(Newest.result)

(* A publication is made by a principal who holds the power now, not only   *)
(* when the session opened: a grant revoked, or a development session       *)
(* ended, between open and publish stops it (the revision check of          *)
(* check_current and commit_initialization).                                *)
PublisherInForce ==
    [][Publishes =>
        /\ Newest.publisher \in DOMAIN authority.grants
        /\ (IF Newest.operation = "initialize" THEN "initialize-registry" ELSE "update-registry")
             \in authority.grants[Newest.publisher]
        /\ Newest.operation = "development" => authority.development]_vars

(* Every explicit decision of a published update was confirmed, exactly as  *)
(* published and for this base and inventory, by a principal who still      *)
(* holds resolve-identity, under the authority that is still in force; and  *)
(* the record names exactly the confirmers of those decisions (matched).    *)
ConfirmersInForce ==
    [][Publishes /\ Newest.operation # "initialize" =>
        /\ \A d \in NewestUpdate.explicit : \E c \in confirmations :
              /\ c.decision = d
              /\ c.base = Newest.base /\ c.inventory = NewestUpdate.inventory
              /\ sessions[c.authority].revision = authority.revision
              /\ c.confirmer \in DOMAIN authority.grants
              /\ "resolve-identity" \in authority.grants[c.confirmer]
              /\ [confirmer |-> c.confirmer, intent |-> d.intent] \in Newest.confirmations
        /\ {c.intent : c \in Newest.confirmations} = {d.intent : d \in NewestUpdate.explicit}]_vars

(* Once the control state is lost nothing is published and the binding is   *)
(* never read as another state again, by sessions opened before either      *)
(* (Unavailable, "Nothing is written").                                     *)
UnavailableIsFinal ==
    [][binding = "unavailable" => UNCHANGED <<binding, chain>>]_vars
=============================================================================
