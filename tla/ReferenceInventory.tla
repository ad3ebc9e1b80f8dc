------------------------- MODULE ReferenceInventory -------------------------
(* The reference side of a message link: one invocation takes a batch of       *)
(* JavaScript source groups and a list of external reference artifacts, and     *)
(* answers with reference artifacts and source failures.  Invocations share a   *)
(* cache; it may lose, damage or misplace an entry, and an invocation may be    *)
(* cancelled between any two of its steps.                                      *)
(*                                                                              *)
(* A source text is a record of what the frontend tells apart: whether it is    *)
(* UTF-8, its length, the goals it parses under and, under each, the recognised *)
(* calls and those whose argument is refused.  Equal texts have equal           *)
(* fingerprints and digests never collide.  Files that cannot be read are left  *)
(* out: they meet no cache.                                                     *)
EXTENDS Integers, Sequences, FiniteSets, FiniteSetsExt, SequencesExt

CONSTANTS
    Workers,          \* invocations that run, concurrently or one after another
    Requests,         \* [groups, recognizers, limits, externals] they may be given
    PathOf,           \* path of each logical source, without its namespace
    ProfileOf,        \* suffix profile of each logical source
    LongPaths,        \* paths that are too long for an artifact identity
    GroupsLimit, SourceLimit, TotalLimit,   \* fixed ceilings of the producer
    MaxFaults         \* bound on cache faults
ASSUME InventoryAssumption ==
    /\ MaxFaults \in Nat /\ GroupsLimit \in Nat
    /\ SourceLimit \in Nat /\ TotalLimit \in Nat
    /\ DOMAIN PathOf \subseteq Nat        \* the canonical order of logical sources
    /\ DOMAIN ProfileOf = DOMAIN PathOf
    /\ \A s \in DOMAIN ProfileOf : ProfileOf[s] \in {"bounded", "module", "commonjs", "unsupported"}
\* A group has a source, and what is counted or measured is finite.
ASSUME RequestsAssumption == \A q \in Requests :
    /\ \A g \in q.groups : g.sources # {} /\ g.sources \subseteq DOMAIN PathOf
    /\ IsFiniteSet(q.recognizers) /\ q.limits.wire \in Nat
    /\ q.externals \in Seq(ToSet(q.externals))
    /\ \A x \in ToSet(q.externals) : x.text.wire \in Nat /\ IsFiniteSet(x.text.calls)

VARIABLES inv,        \* the state of each invocation
          cancel,     \* invocations whose caller has asked to cancel
          cache,      \* JavaScript entries by lookup digest
          extern,     \* decoded external artifacts by path and digest
          faults
vars == <<inv, cancel, cache, extern, faults>>

Absent == [artifact |-> "absent"]
Terminal == {"done", "cancelled", "failed"}

------------------------------------------------------------------------------
(* Groups, profiles and the cache-free frontend.                                *)
Primary(g) == Min(g.sources)
First(groups) == CHOOSE g \in groups : \A h \in groups : Primary(g) <= Primary(h)
Identity(g) == PathOf[Primary(g)]

GoalsOf(profile) ==
    CASE profile = "bounded" -> <<"module", "script">>
      [] profile = "module" -> <<"module">>
      [] profile = "commonjs" -> <<"script">>

\* The primary, then its aliases in order: the first that is odd decides.
Odd(g) == {s \in g.sources : ProfileOf[s] = "unsupported" \/ ProfileOf[s] # ProfileOf[Primary(g)]}
ContractFailure(g) ==
    IF Identity(g) \in LongPaths THEN "ArtifactIdentityLimit"
    ELSE IF Odd(g) = {} THEN "none"
    ELSE IF ProfileOf[Min(Odd(g))] = "unsupported" THEN "UnsupportedSourceSuffix"
    ELSE "ConflictingAliasProfile"

Repeated(groups) == \E g, h \in groups : g # h /\ g.sources \cap h.sources # {}

SnapshotFits(g) == g.text.bytes <= SourceLimit
TotalBytes(groups) ==
    MapThenSumSet(LAMBDA g : g.text.bytes, {g \in groups : SnapshotFits(g)})

Admits(artifact, limits) ==
    /\ Cardinality(artifact.calls) <= limits.decoded
    /\ artifact.wire <= limits.wire

Canonical(g, calls) ==
    [identity |-> Identity(g), source |-> Primary(g), calls |-> calls,
     wire |-> Cardinality(calls) + 1]

\* The goal a complete parse selects, "none" when every candidate is rejected.
FirstAdmitted(goals, parses) ==
    LET admitted == SelectSeq(goals, LAMBDA goal : goal \in parses)
    IN  IF admitted = <<>> THEN "none" ELSE admitted[1]
SelectedGoal(g) == FirstAdmitted(GoalsOf(ProfileOf[Primary(g)]), g.text.parses)

Calls(g, goal, recognizers) == g.text.calls[goal] \cap recognizers
Misused(g, goal, recognizers) == g.text.misused[goal] \cap recognizers

\* One bad argument, selector or dynamic set fails the source it stands in.
Scanned(g, q) ==
    IF SelectedGoal(g) = "none" THEN [failure |-> "SyntaxInvalid"]
    ELSE IF Misused(g, SelectedGoal(g), q.recognizers) # {} THEN [failure |-> "SelectorRefused"]
    ELSE LET artifact == Canonical(g, Calls(g, SelectedGoal(g), q.recognizers))
         IN  IF Admits(artifact, q.limits) THEN [artifact |-> artifact]
                                           ELSE [failure |-> "OutputLimit"]

LocalFailure(g) ==
    IF ContractFailure(g) # "none" THEN ContractFailure(g)
    ELSE IF ~SnapshotFits(g) THEN "SourceBytesLimit"
    ELSE IF ~g.text.utf8 THEN "InvalidUtf8" ELSE "none"

GlobalFailure(q) ==
    IF Cardinality(q.groups) > GroupsLimit THEN "SourceCountLimit"
    ELSE IF TotalBytes(q.groups) > TotalLimit THEN "SourceBytesTotalLimit" ELSE "none"

------------------------------------------------------------------------------
(* Cache keys and entries.  The limits are no part of the key.                  *)
KeyWithoutRecognizers(g, goal, q) ==                                               \* seeded fault
    [sources |-> g.sources, profile |-> ProfileOf[Primary(g)], goal |-> goal,
     recognizers |-> {}, text |-> g.text]
Key(g, goal, q) ==
    [sources |-> g.sources, profile |-> ProfileOf[Primary(g)], goal |-> goal,
     recognizers |-> q.recognizers, text |-> g.text]

\* What decoding and admission make of an entry loaded for a key.
Decodes(key, entry) == entry # Absent /\ entry.intact /\ entry.key = key

RecordsAreCurrent(artifact, g, recognizers) ==
    artifact.calls = {} \/ (artifact.source = Primary(g) /\ artifact.calls \subseteq recognizers)

AdmitsCached(g, q, entry) ==
    /\ Admits(entry.artifact, q.limits)
    /\ entry.artifact.identity = Identity(g)
    /\ RecordsAreCurrent(entry.artifact, g, q.recognizers)

ExternalKey(x) == [path |-> x.path, text |-> x.text]

\* Decoding rebuilds the document's artifact; how much of it was wire is lost.
Held(x) == [identity |-> x.text.identity, source |-> x.path, calls |-> x.text.calls,
            wire |-> Cardinality(x.text.calls) + 1]
Decoded(x, limits) ==
    IF x.text.valid /\ Admits([calls |-> x.text.calls, wire |-> x.text.wire], limits)
    THEN [artifact |-> Held(x)] ELSE [failure |-> "ExternalArtifact"]

\* Revalidation counts what was decoded; it cannot know the wire length.
Revalidates(limits, artifact) == Cardinality(artifact.calls) <= limits.decoded

\* At most one byte more than the limit is read: a longer document is cut, and
\* one that is over by a byte is still whole, and has the key of the whole.
Snapshot(x, limits) ==
    IF x.text.wire <= limits.wire + 1 THEN x
    ELSE [path |-> x.path,
          text |-> [identity |-> x.text.identity, calls |-> x.text.calls,
                    wire |-> limits.wire + 1, valid |-> FALSE]]

ReusesOfAnyLength(x, limits) ==                                                    \* seeded fault
    /\ ExternalKey(x) \in DOMAIN extern
    /\ Revalidates(limits, extern[ExternalKey(x)])
Reuses(x, limits) ==
    /\ x.text.wire <= limits.wire
    /\ ExternalKey(x) \in DOMAIN extern
    /\ Revalidates(limits, extern[ExternalKey(x)])

------------------------------------------------------------------------------
Idle == [status |-> "idle"]

Group(w) == First(inv[w].left)
GroupsLeft(w) == inv[w].left # {}
Candidates(w) == GoalsOf(ProfileOf[Primary(Group(w))])

InitInventory ==
    /\ inv = [w \in Workers |-> Idle]
    /\ cancel = {}
    /\ cache = <<>>              \* no key yet: a function with an empty domain
    /\ extern = <<>>
    /\ faults = 0

Loaded(key) == IF key \in DOMAIN cache THEN cache[key] ELSE Absent
With(f, key, value) == [k \in DOMAIN f \cup {key} |-> IF k = key THEN value ELSE f[k]]
Without(f, key) == [k \in DOMAIN f \ {key} |-> f[k]]

Become(w, status) == inv' = [inv EXCEPT ![w].status = status]
Failing(g, reason) == [source |-> Primary(g), reason |-> reason]

AdvanceOnly(w, artifacts, failures, pending) ==                                    \* seeded fault
    inv' = [inv EXCEPT ![w].left = @ \ {Group(w)}, ![w].artifacts = @ \cup artifacts,
                       ![w].failures = @ \cup failures, ![w].pending = @ \o pending]
\* The invocation moves to its next group after recording what this one gave.
Advance(w, artifacts, failures, pending) ==
    inv' = [inv EXCEPT ![w].left = @ \ {Group(w)}, ![w].candidate = 1,
                       ![w].artifacts = @ \cup artifacts,
                       ![w].failures = @ \cup failures,
                       ![w].pending = @ \o pending]

\* The count gate, the repeated-source check, the contract stage and the byte
\* preflight; a global failure leaves no source-local prefix.
Begin(w, q) ==
    /\ inv[w].status = "idle"
    /\ inv' = [inv EXCEPT ![w] =
         [status |-> IF w \in cancel THEN "cancelled"
                     ELSE IF GlobalFailure(q) = "SourceCountLimit" THEN "external"
                     ELSE IF Repeated(q.groups) THEN "failed"
                     ELSE IF GlobalFailure(q) # "none" THEN "external" ELSE "groups",
          request |-> q, left |-> q.groups, candidate |-> 1,
          artifacts |-> {}, failures |-> {}, pending |-> <<>>,
          global |-> GlobalFailure(q), next |-> 1]]
    /\ UNCHANGED <<cancel, cache, extern, faults>>

\* A contract or snapshot failure is recorded before the cancellation poll.
RecordFailure(w) ==
    /\ inv[w].status = "groups" /\ GroupsLeft(w) /\ inv[w].candidate = 1
    /\ LocalFailure(Group(w)) # "none"
    /\ w \in cancel => LocalFailure(Group(w)) # "InvalidUtf8"
    /\ Advance(w, {}, {Failing(Group(w), LocalFailure(Group(w)))}, <<>>)
    /\ UNCHANGED <<cancel, cache, extern, faults>>

AtWork(w) ==
    /\ inv[w].status = "groups"
    /\ GroupsLeft(w) => LocalFailure(Group(w)) \in {"none", "InvalidUtf8"}

\* Every poll of the cancellation predicate: before a group, before each cache
\* candidate, inside the scan and before anything is published.
ObserveCancel(w) ==
    /\ AtWork(w) /\ w \in cancel
    /\ Become(w, "cancelled")
    /\ UNCHANGED <<cancel, cache, extern, faults>>

\* One cache candidate: a storage error, an absent, damaged, foreign or
\* inadmissible entry is a miss and the next candidate is tried.
TrySameAgain(w) == inv' = inv                                                      \* seeded fault
Missed(w) == inv' = [inv EXCEPT ![w].candidate = @ + 1]

Consult(w) ==
    LET g == Group(w)  q == inv[w].request
        key == Key(g, Candidates(w)[inv[w].candidate], q)
    IN  /\ AtWork(w) /\ GroupsLeft(w) /\ LocalFailure(g) = "none" /\ w \notin cancel
        /\ inv[w].candidate <= Len(Candidates(w))
        /\ \E entry \in {Loaded(key), Absent} :
             IF Decodes(key, entry) /\ AdmitsCached(g, q, entry)
             THEN Advance(w, {entry.artifact}, {}, <<>>)
             ELSE Missed(w)
        /\ UNCHANGED <<cancel, cache, extern, faults>>

\* A miss parses the source; its entry stays private, under the selected goal.
Publication(w, g, q, artifact) ==
    LET key == Key(g, SelectedGoal(g), q)
    IN  <<[key |-> key, entry |-> [key |-> key, artifact |-> artifact, intact |-> TRUE, by |-> w]]>>

PublishAtOnce(w, publication) ==                                                   \* seeded fault
    /\ Advance(w, {p.entry.artifact : p \in ToSet(publication)}, {}, <<>>)
    /\ cache' = With(cache, publication[1].key, publication[1].entry)
Retain(w, publication) ==
    /\ Advance(w, {p.entry.artifact : p \in ToSet(publication)}, {}, publication)
    /\ UNCHANGED cache

Scan(w) ==
    LET g == Group(w)  q == inv[w].request
    IN  /\ AtWork(w) /\ GroupsLeft(w) /\ LocalFailure(g) = "none" /\ w \notin cancel
        /\ inv[w].candidate > Len(Candidates(w))
        /\ \/ /\ "failure" \in DOMAIN Scanned(g, q)
              /\ Advance(w, {}, {Failing(g, Scanned(g, q).failure)}, <<>>)
              /\ UNCHANGED cache
           \/ /\ "artifact" \in DOMAIN Scanned(g, q)
              /\ Retain(w, Publication(w, g, q, Scanned(g, q).artifact))
        /\ UNCHANGED <<cancel, extern, faults>>

\* Two groups whose paths agree in different namespaces share one identity.
SharedIdentity(w) ==
    LET gone == {f.source : f \in inv[w].failures}
        kept == {g \in inv[w].request.groups : Primary(g) \notin gone}
    IN  \E g, h \in kept : g # h /\ Identity(g) = Identity(h)

Settle(w) ==
    /\ inv[w].status = "groups" /\ ~GroupsLeft(w) /\ w \notin cancel
    /\ Become(w, IF SharedIdentity(w) THEN "failed" ELSE "storing")
    /\ UNCHANGED <<cancel, cache, extern, faults>>

\* Best-effort publication, one entry at a time; a store may fail and is ignored.
Store(w) ==
    /\ inv[w].status = "storing"
    /\ IF inv[w].pending = <<>>
       THEN Become(w, "external") /\ UNCHANGED cache
       ELSE LET p == inv[w].pending[1]
            IN  /\ cache' \in {cache, With(cache, p.key, p.entry)}
                /\ inv' = [inv EXCEPT ![w].pending = Tail(@)]
    /\ UNCHANGED <<cancel, extern, faults>>

\* One configured external artifact: a cached value is used if the snapshot is
\* within the wire limit and the value within the others, anything else is
\* decoded, and stored if that works.
External(w) ==
    LET q == inv[w].request
        x == Snapshot(q.externals[inv[w].next], q.limits)
        decoded == Decoded(x, q.limits)
    IN  /\ inv[w].status = "external" /\ inv[w].next <= Len(q.externals)
        /\ \/ /\ Reuses(x, q.limits)
              /\ inv' = [inv EXCEPT ![w].artifacts = @ \cup {extern[ExternalKey(x)]},
                                    ![w].next = @ + 1]
              /\ UNCHANGED extern
           \/ /\ ~Reuses(x, q.limits) /\ "artifact" \in DOMAIN decoded
              /\ inv' = [inv EXCEPT ![w].artifacts = @ \cup {decoded.artifact}, ![w].next = @ + 1]
              /\ extern' = With(extern, ExternalKey(x), decoded.artifact)
           \/ /\ ~Reuses(x, q.limits) /\ "failure" \in DOMAIN decoded
              /\ inv' = [inv EXCEPT ![w].failures =
                            @ \cup {[source |-> x.path, reason |-> decoded.failure]},
                                    ![w].next = @ + 1]
              /\ UNCHANGED extern
        /\ UNCHANGED <<cancel, cache, faults>>

Return(w) ==
    /\ inv[w].status = "external" /\ inv[w].next > Len(inv[w].request.externals)
    /\ Become(w, "done")
    /\ UNCHANGED <<cancel, cache, extern, faults>>

------------------------------------------------------------------------------
(* The environment.  Nothing polls the predicate once the producer has returned. *)
Cancel(w) ==
    /\ inv[w].status \in {"idle", "groups", "storing"} /\ w \notin cancel
    /\ cancel' = cancel \cup {w}
    /\ UNCHANGED <<inv, cache, extern, faults>>

\* The store of the entries is opaque to the producer: it may drop one, return
\* bytes that no longer match their digest, or return another key's entry.
Wanted(w) == {Key(Group(w), Candidates(w)[i], inv[w].request) : i \in DOMAIN Candidates(w)}

CacheFault ==
    /\ faults < MaxFaults /\ faults' = faults + 1
    /\ \E key \in DOMAIN cache :
         \/ cache' = Without(cache, key)
         \/ cache' = [cache EXCEPT ![key].intact = FALSE]
         \/ \E w \in Workers :
              /\ AtWork(w) /\ GroupsLeft(w) /\ LocalFailure(Group(w)) = "none"
              /\ \E wanted \in Wanted(w) \ {key} : cache' = With(cache, wanted, cache[key])
    /\ UNCHANGED <<inv, cancel, extern>>

Step(w) ==
    \/ \E q \in Requests : Begin(w, q)
    \/ RecordFailure(w) \/ ObserveCancel(w) \/ Consult(w) \/ Scan(w)
    \/ Settle(w) \/ Store(w) \/ External(w) \/ Return(w)

Finished == (\A w \in Workers : inv[w].status \in Terminal) /\ UNCHANGED vars

Next == (\E w \in Workers : Step(w) \/ Cancel(w)) \/ CacheFault \/ Finished

\* An invocation is a loop on its caller's thread: it goes on while it can.
Fairness == \A w \in Workers : WF_vars(Step(w))
Spec == InitInventory /\ [][Next]_vars /\ Fairness
==============================================================================
