-------------------- MODULE ReferenceInventoryProperties --------------------
(* What the reference inventory and its caches promise.                         *)
EXTENDS ReferenceInventory

(* The state is well typed: cached entries and held artifacts are artifacts,    *)
(* and a running invocation points into its own batch and candidate list.       *)
TypeOK ==
    /\ cancel \subseteq Workers /\ faults \in 0..MaxFaults
    /\ \A key \in DOMAIN extern : extern[key].wire > 0
    /\ \A key \in DOMAIN cache :
         cache[key].artifact.wire > 0 /\ cache[key].by \in Workers
    /\ \A w \in Workers : inv[w] # Idle =>
         /\ inv[w].status \in Terminal \cup {"groups", "storing", "external"}
         /\ inv[w].request \in Requests
         /\ inv[w].left \subseteq inv[w].request.groups
         /\ inv[w].status = "groups" /\ GroupsLeft(w) /\ LocalFailure(Group(w)) = "none" =>
                inv[w].candidate \in 1..(Len(Candidates(w)) + 1)
         /\ inv[w].next \in 1..(Len(inv[w].request.externals) + 1)
         /\ \A i \in DOMAIN inv[w].pending : inv[w].pending[i].entry.by = w

\* What some groups and files of a request yield when nothing is ever cached.
Yield(q, groups, files) ==
    LET scans == {g \in groups : LocalFailure(g) = "none"}
        made == {g \in scans : "artifact" \in DOMAIN Scanned(g, q)}
        read == {x \in files : "artifact" \in DOMAIN Decoded(x, q.limits)}
    IN  [artifacts |-> {Scanned(g, q).artifact : g \in made}
                       \cup {Decoded(x, q.limits).artifact : x \in read},
         failures |-> {Failing(g, IF g \in scans THEN Scanned(g, q).failure
                                  ELSE LocalFailure(g)) : g \in groups \ made}
                      \cup {[source |-> x.path, reason |-> Decoded(x, q.limits).failure] :
                               x \in files \ read}]
Uncached(q) == Yield(q, IF GlobalFailure(q) = "none" THEN q.groups ELSE {}, ToSet(q.externals))

(* The caches are transparent: an invocation that returns answers exactly what  *)
(* it would have answered without any cache, whatever other invocations with    *)
(* other texts, recognizers and limits stored before it, and whatever the store *)
(* lost, damaged or misplaced (producer.rs, reference.rs).                      *)
CacheIsTransparent ==
    \A w \in Workers : inv[w].status = "done" =>
        /\ inv[w].artifacts = Uncached(inv[w].request).artifacts
        /\ inv[w].failures = Uncached(inv[w].request).failures

(* A batch is published whole or not at all: no entry of an invocation that was *)
(* cancelled, failed an invariant, or has groups left is ever visible to        *)
(* another (producer.rs: publication follows the last poll and the sort).       *)
UnsettledLeaveNoTrace ==
    \A key \in DOMAIN cache :
        inv[cache[key].by].status \in {"storing", "external", "done"}

(* Every invocation that has begun returns, is cancelled or fails: no damaged,  *)
(* foreign or inadmissible entry makes it try the same candidate again.         *)
EachEnds == \A w \in Workers : inv[w].status # "idle" ~> inv[w].status \in Terminal
==============================================================================
