---------------------- MODULE ReferenceInventoryProofs ----------------------
(***************************************************************************)
(* The caches of the reference inventory never show in a result, for any   *)
(* requests, any number of invocations and any faults of the store.        *)
(***************************************************************************)
EXTENDS ReferenceInventoryProperties, FiniteSetTheorems, SequenceTheorems,
        WellFoundedInduction, TLAPS

-----------------------------------------------------------------------------
(* The inductive invariant.  An entry is genuine if it holds what a scan    *)
(* under the goal of its own key would have found: wherever the store puts  *)
(* it, and whether or not it damaged it.                                    *)
Found(key) == key.text.calls[key.goal] \cap key.recognizers
Refused(key) == key.text.misused[key.goal] \cap key.recognizers
Genuine(entry) ==
    /\ entry = [key |-> entry.key, artifact |-> entry.artifact,
                intact |-> entry.intact, by |-> entry.by]
    /\ IsFiniteSet(entry.key.recognizers)
    /\ entry.key.goal = FirstAdmitted(GoalsOf(entry.key.profile), entry.key.text.parses)
    /\ entry.key.goal # "none"
    /\ Refused(entry.key) = {}
    /\ entry.artifact = [identity |-> PathOf[Min(entry.key.sources)],
                         source |-> Min(entry.key.sources), calls |-> Found(entry.key),
                         wire |-> Cardinality(Found(entry.key)) + 1]

\* What an invocation may have to publish.
Groups == UNION {q.groups : q \in Requests}
Offer(w, g, q) == Publication(w, g, q, Canonical(g, Calls(g, SelectedGoal(g), q.recognizers)))[1]
Offers(w) ==
    UNION {{Offer(w, g, q) :
              g \in {h \in Groups : /\ SelectedGoal(h) # "none"
                                    /\ Misused(h, SelectedGoal(h), q.recognizers) = {}}} :
           q \in Requests}

\* The groups and files an invocation has answered for.
Tried(r) == IF GlobalFailure(r.request) = "none" THEN r.request.groups \ r.left ELSE {}
Read(r) == {r.request.externals[i] : i \in 1..(r.next - 1)}

Running == {"groups", "storing", "external", "done"}
Publishing == {"storing", "external", "done"}
Shaped(r) ==
    r = [status |-> r.status, request |-> r.request, left |-> r.left, candidate |-> r.candidate,
         artifacts |-> r.artifacts, failures |-> r.failures, pending |-> r.pending,
         global |-> r.global, next |-> r.next]
Fields == {"status", "request", "left", "candidate", "artifacts", "failures", "pending",
           "global", "next"}
Bounded(w, r) ==
    /\ r.status \in Terminal \cup {"groups", "storing", "external"}
    /\ r.request \in Requests
    /\ r.left \subseteq r.request.groups
    /\ r.candidate \in Nat \ {0}
    /\ r.left # {} /\ LocalFailure(First(r.left)) = "none" =>
          r.candidate <= Len(GoalsOf(ProfileOf[Primary(First(r.left))])) + 1
    /\ r.next \in 1..(Len(r.request.externals) + 1)
    /\ r.pending \in Seq(Offers(w))
\* So far the answer is what no cache would have given.
Transparent(r) ==
    /\ r.status \in Running =>
          /\ r.artifacts = Yield(r.request, Tried(r), Read(r)).artifacts
          /\ r.failures = Yield(r.request, Tried(r), Read(r)).failures
    /\ r.status \in {"groups", "storing"} => GlobalFailure(r.request) = "none" /\ r.next = 1
    /\ r.status \in Publishing /\ GlobalFailure(r.request) = "none" => r.left = {}
    /\ r.status = "done" => r.next = Len(r.request.externals) + 1
Good(w, r) == r # Idle => Shaped(r) /\ Bounded(w, r) /\ Transparent(r)

InventoryIInv ==
    /\ cancel \subseteq Workers /\ faults \in 0..MaxFaults
    /\ inv = [w \in Workers |-> inv[w]]
    /\ \A w \in Workers : Good(w, inv[w])
    /\ \A key \in DOMAIN cache : Genuine(cache[key]) /\ cache[key].by \in Workers
    /\ \A key \in DOMAIN extern :
          /\ key.text.valid /\ IsFiniteSet(key.text.calls)
          /\ extern[key] = Held(key)
    /\ UnsettledLeaveNoTrace

-----------------------------------------------------------------------------
(* Groups have a least source, and batches a first group.                   *)
LEMMA LeastNatural ==
    ASSUME NEW S \in SUBSET Nat, S # {}
    PROVE  Min(S) \in S /\ \A n \in S : Min(S) <= n
  <1> DEFINE R == {p \in Nat \X Nat : p[1] < p[2]}
  <1>1. R = OpToRel(<, Nat)
    BY DEF OpToRel
  <1>2. IsWellFoundedOn(R, Nat)
    BY ONLY <1>1, NatLessThanWellFounded, Zenon
  <1>3. PICK m \in S : \A n \in S : <<n, m>> \notin R
    <2> HIDE DEF R
    <2> QED BY <1>2, WFMin
  <1>4. ASSUME NEW n \in S PROVE m <= n
    <2>1. n \in Nat /\ m \in Nat /\ <<n, m>> \notin R
      BY <1>3
    <2>2. ~(n < m)
      BY <2>1
    <2> QED BY <2>1, <2>2
  <1> QED BY <1>4 DEF Min

LEMMA PrimaryIsSource ==
    ASSUME NEW q \in Requests, NEW g \in q.groups
    PROVE  Primary(g) \in g.sources /\ Primary(g) \in Nat /\ Primary(g) \in DOMAIN ProfileOf
  BY LeastNatural, InventoryAssumption, RequestsAssumption DEF Primary

LEMMA FirstIsOne ==
    ASSUME NEW q \in Requests, NEW S \in SUBSET q.groups, S # {}
    PROVE  First(S) \in S
  <1> DEFINE P == {Primary(g) : g \in S}
  <1>1. P \in SUBSET Nat /\ P # {}
    BY PrimaryIsSource
  <1>2. PICK g \in S : Primary(g) = Min(P)
    BY <1>1, LeastNatural
  <1>3. \A h \in S : Primary(g) <= Primary(h)
    BY <1>1, <1>2, LeastNatural
  <1> QED BY <1>3 DEF First

LEMMA GoalsAreFew ==
    ASSUME NEW q \in Requests, NEW g \in q.groups, LocalFailure(g) = "none"
    PROVE  Len(GoalsOf(ProfileOf[Primary(g)])) \in Nat \ {0}
  <1>1. ProfileOf[Primary(g)] \in {"bounded", "module", "commonjs"}
    <2>1. Odd(g) = {}
      BY DEF LocalFailure, ContractFailure
    <2> QED BY <2>1, PrimaryIsSource, InventoryAssumption DEF Odd
  <1> QED BY <1>1 DEF GoalsOf

-----------------------------------------------------------------------------
(* A scan gives an artifact or a failure, never both; so does decoding.     *)
LEMMA ScannedIsEither ==
    ASSUME NEW g, NEW q
    PROVE  ("failure" \in DOMAIN Scanned(g, q)) # ("artifact" \in DOMAIN Scanned(g, q))
  BY DEF Scanned

LEMMA DecodedIsEither ==
    ASSUME NEW x, NEW limits
    PROVE  ("failure" \in DOMAIN Decoded(x, limits)) # ("artifact" \in DOMAIN Decoded(x, limits))
  BY DEF Decoded

(* What a group adds to the answer, by how it comes out.                    *)
LEMMA NothingYieldsNothing ==
    ASSUME NEW q
    PROVE  Yield(q, {}, {}).artifacts = {} /\ Yield(q, {}, {}).failures = {}
  BY DEF Yield

LEMMA RefusedGroupYields ==
    ASSUME NEW q, NEW S, NEW F, NEW g, LocalFailure(g) # "none"
    PROVE  /\ Yield(q, S \cup {g}, F).artifacts = Yield(q, S, F).artifacts
           /\ Yield(q, S \cup {g}, F).failures
                = Yield(q, S, F).failures \cup {Failing(g, LocalFailure(g))}
  BY DEF Yield

LEMMA FailedGroupYields ==
    ASSUME NEW q, NEW S, NEW F, NEW g, LocalFailure(g) = "none",
           "failure" \in DOMAIN Scanned(g, q)
    PROVE  /\ Yield(q, S \cup {g}, F).artifacts = Yield(q, S, F).artifacts
           /\ Yield(q, S \cup {g}, F).failures
                = Yield(q, S, F).failures \cup {Failing(g, Scanned(g, q).failure)}
  <1>1. "artifact" \notin DOMAIN Scanned(g, q)
    BY ScannedIsEither
  <1> QED BY <1>1 DEF Yield

LEMMA MadeGroupYields ==
    ASSUME NEW q, NEW S, NEW F, NEW g, LocalFailure(g) = "none",
           "artifact" \in DOMAIN Scanned(g, q)
    PROVE  /\ Yield(q, S \cup {g}, F).artifacts
                = Yield(q, S, F).artifacts \cup {Scanned(g, q).artifact}
           /\ Yield(q, S \cup {g}, F).failures = Yield(q, S, F).failures
  BY DEF Yield

(* The same for an external file.                                           *)
Decodable(x, q) == "artifact" \in DOMAIN Decoded(x, q.limits)
Taken(x, q) == Decoded(x, q.limits).artifact
Loss(x, q) == [source |-> x.path, reason |-> Decoded(x, q.limits).failure]

LEMMA FailedFileYields ==
    ASSUME NEW q, NEW S, NEW F, NEW x, ~Decodable(x, q)
    PROVE  /\ Yield(q, S, F \cup {x}).artifacts = Yield(q, S, F).artifacts
           /\ Yield(q, S, F \cup {x}).failures = Yield(q, S, F).failures \cup {Loss(x, q)}
  BY DEF Yield, Decodable, Loss

LEMMA DecodedFileYields ==
    ASSUME NEW q, NEW S, NEW F, NEW x, Decodable(x, q)
    PROVE  /\ Yield(q, S, F \cup {x}).artifacts = Yield(q, S, F).artifacts \cup {Taken(x, q)}
           /\ Yield(q, S, F \cup {x}).failures = Yield(q, S, F).failures
  BY DEF Yield, Decodable, Taken

-----------------------------------------------------------------------------
(* A genuine entry admitted for a group is what a scan of it would give:    *)
(* its key fixes sources, profile, goal, recognizers and text, and its goal *)
(* is the one a complete parse selects.                                     *)
LEMMA HitIsScan ==
    ASSUME NEW g, NEW goal, NEW q, NEW entry,
           Genuine(entry), Decodes(Key(g, goal, q), entry), AdmitsCached(g, q, entry)
    PROVE  Scanned(g, q) = [artifact |-> entry.artifact]
  <1>1. entry.key = Key(g, goal, q)
    BY DEF Decodes
  <1>2. /\ entry.key.sources = g.sources /\ entry.key.profile = ProfileOf[Primary(g)]
        /\ entry.key.goal = goal /\ entry.key.recognizers = q.recognizers
        /\ entry.key.text = g.text
    BY <1>1 DEF Key
  <1>3. SelectedGoal(g) = goal /\ goal # "none"
    BY <1>2 DEF Genuine, SelectedGoal
  <1>4. entry.artifact = Canonical(g, Calls(g, goal, q.recognizers))
    BY <1>2 DEF Genuine, Canonical, Calls, Found, Identity, Primary
  <1>5. Admits(entry.artifact, q.limits)
    BY DEF AdmitsCached
  <1>6. Misused(g, goal, q.recognizers) = {}
    BY <1>2 DEF Genuine, Misused, Refused
  <1> QED BY <1>3, <1>4, <1>5, <1>6 DEF Scanned

(* What an invocation offers is genuine, and carries its name.              *)
LEMMA OffersAreGenuine ==
    ASSUME NEW w \in Workers, NEW p \in Offers(w)
    PROVE  Genuine(p.entry) /\ p.entry.by = w /\ p.entry.key = p.key
  <1>1. PICK q \in Requests, g \in Groups :
           /\ SelectedGoal(g) # "none" /\ Misused(g, SelectedGoal(g), q.recognizers) = {}
           /\ p = Offer(w, g, q)
    BY DEF Offers
  <1> DEFINE key == Key(g, SelectedGoal(g), q)
             made == Canonical(g, Calls(g, SelectedGoal(g), q.recognizers))
  <1>2. p = [key |-> key, entry |-> [key |-> key, artifact |-> made, intact |-> TRUE, by |-> w]]
    BY <1>1 DEF Offer, Publication
  <1>3. /\ key.sources = g.sources /\ key.profile = ProfileOf[Primary(g)]
        /\ key.goal = SelectedGoal(g) /\ key.recognizers = q.recognizers /\ key.text = g.text
    BY DEF Key
  <1>4. made = [identity |-> PathOf[Min(key.sources)], source |-> Min(key.sources),
                calls |-> Found(key), wire |-> Cardinality(Found(key)) + 1]
    BY <1>3 DEF Canonical, Calls, Found, Identity, Primary
  <1>5. IsFiniteSet(key.recognizers)
    BY <1>3, RequestsAssumption
  <1>6. key.goal = FirstAdmitted(GoalsOf(key.profile), key.text.parses) /\ key.goal # "none"
        /\ Refused(key) = {}
    BY <1>1, <1>3 DEF SelectedGoal, Misused, Refused
  <1> HIDE DEF key, made
  <1> QED BY <1>2, <1>4, <1>5, <1>6 DEF Genuine

-----------------------------------------------------------------------------
(* A step of an invocation replaces its own record by another good one, and *)
(* what once was to be published stays so.                                  *)
Moves(w) == \E r :
    /\ inv' = [inv EXCEPT ![w] = r]
    /\ Good(w, r)
    /\ inv[w].status \in Publishing => r.status \in Publishing

LEMMA StartedIsGood ==
    ASSUME InventoryIInv, NEW w \in Workers, inv[w].status # "idle"
    PROVE  Shaped(inv[w]) /\ Bounded(w, inv[w]) /\ Transparent(inv[w])
  BY DEF InventoryIInv, Good, Idle

(* The records the updates of inv give.                                     *)
LEMMA BecomingRecord ==
    ASSUME NEW r, Shaped(r), NEW s
    PROVE  [r EXCEPT !.status = s] =
              [status |-> s, request |-> r.request, left |-> r.left,
               candidate |-> r.candidate, artifacts |-> r.artifacts,
               failures |-> r.failures, pending |-> r.pending,
               global |-> r.global, next |-> r.next]
  BY DEF Shaped

LEMMA PublishingRecord ==
    ASSUME NEW r, Shaped(r), NEW p
    PROVE  [r EXCEPT !.pending = p] =
              [status |-> r.status, request |-> r.request, left |-> r.left,
               candidate |-> r.candidate, artifacts |-> r.artifacts,
               failures |-> r.failures, pending |-> p,
               global |-> r.global, next |-> r.next]
  BY DEF Shaped

LEMMA AdvanceMoves ==
    ASSUME InventoryIInv, NEW w \in Workers, inv[w].status = "groups", GroupsLeft(w),
           NEW A, NEW F, NEW P \in Seq(Offers(w)), Advance(w, A, F, P),
           LET q == inv[w].request  S == Tried(inv[w])
           IN  /\ Yield(q, S \cup {Group(w)}, Read(inv[w])).artifacts
                    = Yield(q, S, Read(inv[w])).artifacts \cup A
               /\ Yield(q, S \cup {Group(w)}, Read(inv[w])).failures
                    = Yield(q, S, Read(inv[w])).failures \cup F
    PROVE  Moves(w)
  <1> DEFINE r == inv[w]
             g == Group(w)
             n == [status |-> r.status, request |-> r.request, left |-> r.left \ {g},
                   candidate |-> 1, artifacts |-> r.artifacts \cup A,
                   failures |-> r.failures \cup F, pending |-> r.pending \o P,
                   global |-> r.global, next |-> r.next]
  <1>1. Shaped(r) /\ Bounded(w, r) /\ Transparent(r)
    BY StartedIsGood
  <1>2. g \in r.left /\ g \in r.request.groups
    BY <1>1, FirstIsOne DEF Bounded, GroupsLeft, Group
  <1> DEFINE e == [r EXCEPT !.left = r.left \ {g}, !.candidate = 1, !.artifacts = r.artifacts \cup A,
                            !.failures = r.failures \cup F, !.pending = r.pending \o P]
  <1>3. inv' = [inv EXCEPT ![w] = n]
    <2>1. inv' = [inv EXCEPT ![w] = e]
      BY DEF Advance
    <2>2. DOMAIN r = Fields
      BY <1>1 DEF Shaped, Fields
    <2>3. e = [k \in Fields |-> e[k]]
      BY <2>2
    <2>4. e.status = r.status /\ e.request = r.request /\ e.global = r.global /\ e.next = r.next
      BY <2>2 DEF Fields
    <2>5. e.left = r.left \ {g} /\ e.candidate = 1
      BY <2>2 DEF Fields
    <2>6. e.artifacts = r.artifacts \cup A /\ e.failures = r.failures \cup F
          /\ e.pending = r.pending \o P
      BY <2>2 DEF Fields
    <2> HIDE DEF e
    <2>7. Shaped(e)
      BY <2>3 DEF Fields, Shaped
    <2>8. e = n
      BY <2>4, <2>5, <2>6, <2>7 DEF Shaped
    <2> HIDE DEF n
    <2> QED BY <2>1, <2>8
  <1>4. Tried(n) = Tried(r) \cup {g} /\ Read(n) = Read(r)
    BY <1>1, <1>2 DEF Tried, Read, Transparent, Bounded
  <1>5. Transparent(n)
    <2>1. n.request = r.request /\ n.status = "groups" /\ n.next = r.next
      OBVIOUS
    <2>2. n.artifacts = r.artifacts \cup A /\ n.failures = r.failures \cup F
      OBVIOUS
    <2> HIDE DEF n
    <2> QED BY <1>1, <1>4, <2>1, <2>2 DEF Transparent, Publishing, Running
  <1>6. Bounded(w, n)
    <2>1. n.pending \in Seq(Offers(w))
      BY <1>1, ConcatProperties DEF Bounded
    <2>2. n.left \subseteq n.request.groups /\ n.request \in Requests
      BY <1>1 DEF Bounded
    <2>3. n.left # {} /\ LocalFailure(First(n.left)) = "none" =>
             1 <= Len(GoalsOf(ProfileOf[Primary(First(n.left))])) + 1
      BY <2>2, FirstIsOne, GoalsAreFew
    <2>4. /\ n.candidate = 1 /\ n.status = r.status /\ n.next = r.next /\ n.request = r.request
      OBVIOUS
    <2> HIDE DEF n
    <2> QED BY <1>1, <2>1, <2>2, <2>3, <2>4 DEF Bounded
  <1>7. Shaped(n) /\ n # Idle /\ n.status \notin Publishing /\ inv[w].status \notin Publishing
    BY DEF Shaped, Idle, Publishing
  <1> HIDE DEF n
  <1> QED BY <1>3, <1>5, <1>6, <1>7 DEF Moves, Good

LEMMA BecomeMoves ==
    ASSUME InventoryIInv, NEW w \in Workers, inv[w].status # "idle", NEW status, Become(w, status),
           status \in Terminal \cup {"storing", "external"},
           inv[w].status \in Publishing => status \in Publishing,
           status \in Running => inv[w].status \in Running,
           status = "storing" => inv[w].status = "groups" /\ ~GroupsLeft(w),
           status \in {"external", "done"} => inv[w].status \in Publishing,
           status = "done" => inv[w].next = Len(inv[w].request.externals) + 1
    PROVE  Moves(w)
  <1> DEFINE r == inv[w]
             n == [status |-> status, request |-> r.request, left |-> r.left,
                   candidate |-> r.candidate, artifacts |-> r.artifacts,
                   failures |-> r.failures, pending |-> r.pending,
                   global |-> r.global, next |-> r.next]
  <1>1. Shaped(r) /\ Bounded(w, r) /\ Transparent(r)
    BY StartedIsGood
  <1>2. inv' = [inv EXCEPT ![w] = n]
    <2>1. inv' = [inv EXCEPT ![w] = [r EXCEPT !.status = status]]
      BY DEF Become
    <2> QED BY <1>1, <2>1, BecomingRecord
  <1>3. /\ n.request = r.request /\ n.left = r.left /\ n.candidate = r.candidate
        /\ n.artifacts = r.artifacts /\ n.failures = r.failures /\ n.pending = r.pending
        /\ n.next = r.next /\ n.status = status /\ Shaped(n) /\ n # Idle
    BY DEF Shaped, Idle, Terminal
  <1> HIDE DEF n
  <1>4. Tried(n) = Tried(r) /\ Read(n) = Read(r)
    BY <1>3 DEF Tried, Read
  <1>5. Bounded(w, n)
    BY <1>1, <1>3 DEF Bounded
  <1>6. Transparent(n)
    BY <1>1, <1>3, <1>4 DEF Transparent, Running, Publishing, Terminal, GroupsLeft
  <1> QED BY <1>2, <1>3, <1>5, <1>6 DEF Moves, Good

-----------------------------------------------------------------------------
(* Each step of an invocation moves it.                                     *)
LEMMA BeginMoves ==
    ASSUME InventoryIInv, NEW w \in Workers, NEW q \in Requests, Begin(w, q)
    PROVE  Moves(w)
  <1> DEFINE status == IF w \in cancel THEN "cancelled"
                       ELSE IF GlobalFailure(q) = "SourceCountLimit" THEN "external"
                       ELSE IF Repeated(q.groups) THEN "failed"
                       ELSE IF GlobalFailure(q) # "none" THEN "external" ELSE "groups"
             n == [status |-> status, request |-> q, left |-> q.groups, candidate |-> 1,
                   artifacts |-> {}, failures |-> {}, pending |-> <<>>,
                   global |-> GlobalFailure(q), next |-> 1]
  <1>1. inv' = [inv EXCEPT ![w] = n] /\ inv[w].status = "idle"
    BY DEF Begin
  <1>2. /\ status \in {"cancelled", "external", "failed", "groups"}
        /\ status = "external" => GlobalFailure(q) # "none"
        /\ status = "groups" => GlobalFailure(q) = "none"
    OBVIOUS
  <1> HIDE DEF status
  <1>3. /\ n.status = status /\ n.request = q /\ n.left = q.groups /\ n.candidate = 1
        /\ n.artifacts = {} /\ n.failures = {} /\ n.pending = <<>> /\ n.next = 1
        /\ Shaped(n)
    BY DEF Shaped
  <1> HIDE DEF n
  <1>4. Tried(n) = {} /\ Read(n) = {}
    BY <1>3 DEF Tried, Read
  <1>5. Transparent(n)
    BY <1>2, <1>3, <1>4, NothingYieldsNothing DEF Transparent, Running, Publishing
  <1>6. Bounded(w, n)
    <2>1. n.left # {} /\ LocalFailure(First(n.left)) = "none" =>
             1 <= Len(GoalsOf(ProfileOf[Primary(First(n.left))])) + 1
      BY <1>3, FirstIsOne, GoalsAreFew
    <2>2. Len(q.externals) \in Nat
      BY RequestsAssumption, LenProperties
    <2>3. 1 \in 1..(Len(q.externals) + 1)
      BY <2>2
    <2>4. <<>> \in Seq(Offers(w))
      BY EmptySeq
    <2> QED BY <1>2, <1>3, <2>1, <2>3, <2>4 DEF Bounded, Terminal
  <1> QED BY <1>1, <1>3, <1>5, <1>6 DEF Moves, Good, Publishing

LEMMA RecordFailureMoves ==
    ASSUME InventoryIInv, NEW w \in Workers, RecordFailure(w)
    PROVE  Moves(w)
  <1> DEFINE g == Group(w)
             q == inv[w].request
  <1>1. /\ inv[w].status = "groups" /\ GroupsLeft(w) /\ LocalFailure(g) # "none"
        /\ Advance(w, {}, {Failing(g, LocalFailure(g))}, <<>>)
    BY DEF RecordFailure
  <1>2. /\ Yield(q, Tried(inv[w]) \cup {g}, Read(inv[w])).artifacts
             = Yield(q, Tried(inv[w]), Read(inv[w])).artifacts \cup {}
        /\ Yield(q, Tried(inv[w]) \cup {g}, Read(inv[w])).failures
             = Yield(q, Tried(inv[w]), Read(inv[w])).failures \cup {Failing(g, LocalFailure(g))}
    BY <1>1, RefusedGroupYields
  <1>3. <<>> \in Seq(Offers(w))
    BY EmptySeq
  <1> QED BY <1>1, <1>2, <1>3, AdvanceMoves

LEMMA ObserveCancelMoves ==
    ASSUME InventoryIInv, NEW w \in Workers, ObserveCancel(w)
    PROVE  Moves(w)
  BY BecomeMoves DEF ObserveCancel, AtWork, Terminal, Publishing, Running

LEMMA SettleMoves ==
    ASSUME InventoryIInv, NEW w \in Workers, Settle(w)
    PROVE  Moves(w)
  <1>1. CASE SharedIdentity(w)
    BY <1>1, BecomeMoves DEF Settle, Terminal, Publishing, Running
  <1>2. CASE ~SharedIdentity(w)
    BY <1>2, BecomeMoves DEF Settle, Terminal, Publishing, Running
  <1> QED BY <1>1, <1>2

LEMMA ReturnMoves ==
    ASSUME InventoryIInv, NEW w \in Workers, Return(w)
    PROVE  Moves(w)
  <1>1. inv[w].status = "external" /\ Become(w, "done")
    BY DEF Return
  <1>2. inv[w].next = Len(inv[w].request.externals) + 1
    <2>1. Bounded(w, inv[w])
      BY <1>1, StartedIsGood
    <2>2. Len(inv[w].request.externals) \in Nat
      BY <2>1, RequestsAssumption, LenProperties DEF Bounded
    <2> QED BY <2>1, <2>2 DEF Bounded, Return
  <1> QED BY <1>1, <1>2, BecomeMoves DEF Terminal, Publishing, Running

(* One cache candidate: a hit advances with what a scan would have given,   *)
(* a miss tries the next one.                                               *)
LEMMA ConsultMoves ==
    ASSUME InventoryIInv, NEW w \in Workers, Consult(w)
    PROVE  Moves(w)
  <1> DEFINE r == inv[w]
             g == Group(w)
             q == r.request
             key == Key(g, Candidates(w)[r.candidate], q)
  <1>1. /\ r.status = "groups" /\ GroupsLeft(w) /\ LocalFailure(g) = "none"
        /\ r.candidate <= Len(Candidates(w))
    BY DEF Consult, AtWork
  <1>2. PICK entry \in {Loaded(key), Absent} :
           IF Decodes(key, entry) /\ AdmitsCached(g, q, entry)
           THEN Advance(w, {entry.artifact}, {}, <<>>) ELSE Missed(w)
    BY DEF Consult
  <1>3. Shaped(r) /\ Bounded(w, r) /\ Transparent(r)
    BY <1>1, StartedIsGood
  <1>4. CASE Decodes(key, entry) /\ AdmitsCached(g, q, entry)
    <2>1. entry # Absent
      BY <1>4 DEF Decodes
    <2>2. Genuine(entry)
      BY <1>2, <2>1 DEF Loaded, InventoryIInv
    <2>3. Scanned(g, q) = [artifact |-> entry.artifact]
      BY <1>4, <2>2, HitIsScan
    <2>4. "artifact" \in DOMAIN Scanned(g, q) /\ Scanned(g, q).artifact = entry.artifact
      BY <2>3
    <2>5. /\ Yield(q, Tried(r) \cup {g}, Read(r)).artifacts
               = Yield(q, Tried(r), Read(r)).artifacts \cup {entry.artifact}
          /\ Yield(q, Tried(r) \cup {g}, Read(r)).failures
               = Yield(q, Tried(r), Read(r)).failures \cup {}
      BY <1>1, <2>4, MadeGroupYields
    <2>6. Advance(w, {entry.artifact}, {}, <<>>) /\ <<>> \in Seq(Offers(w))
      BY <1>2, <1>4, EmptySeq
    <2> QED BY <1>1, <2>5, <2>6, AdvanceMoves
  <1>5. CASE ~(Decodes(key, entry) /\ AdmitsCached(g, q, entry))
    <2> DEFINE n == [status |-> r.status, request |-> r.request, left |-> r.left,
                     candidate |-> r.candidate + 1, artifacts |-> r.artifacts,
                     failures |-> r.failures, pending |-> r.pending, global |-> r.global,
                     next |-> r.next]
               e == [r EXCEPT !.candidate = r.candidate + 1]
    <2>1. inv' = [inv EXCEPT ![w] = e]
      BY <1>2, <1>5 DEF Missed
    <2>2. e = n
      BY <1>3 DEF Shaped
    <2>3. /\ n.request = r.request /\ n.left = r.left /\ n.candidate = r.candidate + 1
          /\ n.artifacts = r.artifacts /\ n.failures = r.failures /\ n.pending = r.pending
          /\ n.next = r.next /\ n.status = "groups" /\ Shaped(n)
      BY <1>1 DEF Shaped
    <2> HIDE DEF e, n
    <2>4. Tried(n) = Tried(r) /\ Read(n) = Read(r)
      BY <2>3 DEF Tried, Read
    <2>5. Transparent(n)
      BY <1>1, <1>3, <2>3, <2>4 DEF Transparent, Running, Publishing
    <2>6. Len(Candidates(w)) \in Nat
      BY <1>1, <1>3, FirstIsOne, GoalsAreFew DEF Candidates, Group, GroupsLeft, Bounded
    <2>7. n.candidate \in Nat \ {0} /\ n.candidate <= Len(Candidates(w)) + 1
      BY <1>1, <1>3, <2>3, <2>6 DEF Bounded
    <2>8. Bounded(w, n)
      BY <1>1, <1>3, <2>3, <2>7 DEF Bounded, Candidates, Group
    <2> QED BY <1>1, <2>1, <2>2, <2>3, <2>5, <2>8 DEF Moves, Good, Publishing
  <1> QED BY <1>4, <1>5

(* A miss scans; what it made is kept to itself as an offer.                *)
LEMMA ScanMoves ==
    ASSUME InventoryIInv, NEW w \in Workers, Scan(w)
    PROVE  Moves(w) /\ UNCHANGED <<cancel, cache, extern, faults>>
  <1> DEFINE r == inv[w]
             g == Group(w)
             q == r.request
             made == Scanned(g, q).artifact
  <1>1. r.status = "groups" /\ GroupsLeft(w) /\ LocalFailure(g) = "none"
    BY DEF Scan, AtWork
  <1>2. Bounded(w, r)
    BY <1>1, StartedIsGood
  <1>3. CASE "failure" \in DOMAIN Scanned(g, q)
    <2>1. Advance(w, {}, {Failing(g, Scanned(g, q).failure)}, <<>>) /\ UNCHANGED cache
      BY <1>3, ScannedIsEither DEF Scan
    <2>2. /\ Yield(q, Tried(r) \cup {g}, Read(r)).artifacts
               = Yield(q, Tried(r), Read(r)).artifacts \cup {}
          /\ Yield(q, Tried(r) \cup {g}, Read(r)).failures
               = Yield(q, Tried(r), Read(r)).failures \cup {Failing(g, Scanned(g, q).failure)}
      BY <1>1, <1>3, FailedGroupYields
    <2>3. <<>> \in Seq(Offers(w))
      BY EmptySeq
    <2>4. Moves(w)
      BY <1>1, <2>1, <2>2, <2>3, AdvanceMoves
    <2> QED BY <2>1, <2>4 DEF Scan
  <1>4. CASE "artifact" \in DOMAIN Scanned(g, q)
    <2> DEFINE P == Publication(w, g, q, made)
    <2>1. Retain(w, P)
      BY <1>4, ScannedIsEither DEF Scan
    <2>2. /\ SelectedGoal(g) # "none" /\ Misused(g, SelectedGoal(g), q.recognizers) = {}
          /\ made = Canonical(g, Calls(g, SelectedGoal(g), q.recognizers))
      BY <1>4 DEF Scanned
    <2>3. g \in Groups /\ q \in Requests
      BY <1>1, <1>2, FirstIsOne DEF Bounded, Group, GroupsLeft, Groups
    <2>4. P = <<Offer(w, g, q)>> /\ Offer(w, g, q) \in Offers(w)
      <3> DEFINE c == Canonical(g, Calls(g, SelectedGoal(g), q.recognizers))
      <3>1. P = Publication(w, g, q, c)
        BY <2>2
      <3>2. Publication(w, g, q, c) = <<Offer(w, g, q)>>
        BY DEF Publication, Offer
      <3>3. Offer(w, g, q) \in Offers(w)
        <4>1. g \in {h \in Groups : /\ SelectedGoal(h) # "none"
                                    /\ Misused(h, SelectedGoal(h), q.recognizers) = {}}
          BY <2>2, <2>3
        <4> QED BY <4>1, <2>3 DEF Offers
      <3> QED BY <3>1, <3>2, <3>3
    <2>5. P \in Seq(Offers(w)) /\ ToSet(P) = {Offer(w, g, q)}
      BY <2>4 DEF ToSet
    <2>6. Offer(w, g, q).entry.artifact = made
      BY <2>2 DEF Offer, Publication
    <2>7. Advance(w, {made}, {}, P)
      BY <2>1, <2>5, <2>6 DEF Retain
    <2>8. /\ Yield(q, Tried(r) \cup {g}, Read(r)).artifacts
               = Yield(q, Tried(r), Read(r)).artifacts \cup {made}
          /\ Yield(q, Tried(r) \cup {g}, Read(r)).failures
               = Yield(q, Tried(r), Read(r)).failures \cup {}
      BY <1>1, <1>4, MadeGroupYields
    <2>9. Moves(w)
      <3> HIDE DEF P, made
      <3> QED BY <1>1, <2>5, <2>7, <2>8, AdvanceMoves
    <2> QED BY <2>1, <2>9 DEF Scan, Retain
  <1> QED BY <1>3, <1>4, ScannedIsEither

(* Publishing puts one offer, or none, in the cache.                        *)
LEMMA StoreMoves ==
    ASSUME InventoryIInv, NEW w \in Workers, Store(w)
    PROVE  /\ Moves(w) /\ UNCHANGED <<cancel, extern, faults>>
           /\ inv[w].status = "storing"
           /\ \/ cache' = cache
              \/ \E p \in Offers(w) : cache' = With(cache, p.key, p.entry)
  <1> DEFINE r == inv[w]
  <1>1. r.status = "storing" /\ UNCHANGED <<cancel, extern, faults>>
    BY DEF Store
  <1>2. Shaped(r) /\ Bounded(w, r) /\ Transparent(r)
    BY <1>1, StartedIsGood
  <1>3. CASE r.pending = <<>>
    BY <1>1, <1>3, BecomeMoves DEF Store, Terminal, Publishing, Running
  <1>4. CASE r.pending # <<>>
    <2> DEFINE n == [status |-> r.status, request |-> r.request, left |-> r.left,
                     candidate |-> r.candidate, artifacts |-> r.artifacts,
                     failures |-> r.failures, pending |-> Tail(r.pending), global |-> r.global,
                     next |-> r.next]
               e == [r EXCEPT !.pending = Tail(r.pending)]
    <2>1. inv' = [inv EXCEPT ![w] = e]
      BY <1>4 DEF Store
    <2>2. e = n
      BY <1>2, PublishingRecord
    <2>3. /\ n.request = r.request /\ n.left = r.left /\ n.candidate = r.candidate
          /\ n.artifacts = r.artifacts /\ n.failures = r.failures /\ n.pending = Tail(r.pending)
          /\ n.next = r.next /\ n.status = "storing" /\ Shaped(n)
      BY <1>1 DEF Shaped
    <2> HIDE DEF e, n
    <2>4. Tried(n) = Tried(r) /\ Read(n) = Read(r)
      BY <2>3 DEF Tried, Read
    <2>5. Transparent(n)
      BY <1>1, <1>2, <2>3, <2>4 DEF Transparent, Running, Publishing
    <2>6. r.pending[1] \in Offers(w) /\ Tail(r.pending) \in Seq(Offers(w))
      BY <1>2, <1>4 DEF Bounded
    <2>7. Bounded(w, n)
      BY <1>1, <1>2, <2>3, <2>6 DEF Bounded
    <2>8. cache' \in {cache, With(cache, r.pending[1].key, r.pending[1].entry)}
      BY <1>4 DEF Store
    <2>9. Moves(w)
      BY <1>1, <2>1, <2>2, <2>3, <2>5, <2>7 DEF Moves, Good, Publishing
    <2> QED BY <1>1, <2>6, <2>8, <2>9
  <1> QED BY <1>3, <1>4

(* What an external file adds to the answer is recorded, and the next one   *)
(* is due.                                                                  *)
LEMMA TakenMoves ==
    ASSUME InventoryIInv, NEW w \in Workers, inv[w].status = "external",
           inv[w].next <= Len(inv[w].request.externals),
           NEW A, NEW F, NEW n, inv' = [inv EXCEPT ![w] = n], Shaped(n),
           n.status = inv[w].status /\ n.request = inv[w].request /\ n.left = inv[w].left,
           n.candidate = inv[w].candidate /\ n.pending = inv[w].pending,
           n.artifacts = inv[w].artifacts \cup A /\ n.failures = inv[w].failures \cup F,
           n.next = inv[w].next + 1,
           LET q == inv[w].request  S == Tried(inv[w])  R == Read(inv[w])
               x == q.externals[inv[w].next]
           IN  /\ Yield(q, S, R \cup {x}).artifacts = Yield(q, S, R).artifacts \cup A
               /\ Yield(q, S, R \cup {x}).failures = Yield(q, S, R).failures \cup F
    PROVE  Moves(w)
  <1> DEFINE r == inv[w]
             x == r.request.externals[r.next]
  <1>1. Shaped(r) /\ Bounded(w, r) /\ Transparent(r)
    BY StartedIsGood
  <1>2. /\ Len(r.request.externals) \in Nat /\ r.next \in 1..Len(r.request.externals)
    BY <1>1, RequestsAssumption, LenProperties DEF Bounded
  <1>3. Tried(n) = Tried(r)
    BY DEF Tried
  <1>4. Read(n) = Read(r) \cup {x}
    <2>1. 1..(n.next - 1) = (1..(r.next - 1)) \cup {r.next}
      BY <1>2
    <2> QED BY <2>1 DEF Read
  <1>5. Transparent(n)
    BY <1>1, <1>3, <1>4 DEF Transparent, Running, Publishing
  <1>6. n.next \in 1..(Len(r.request.externals) + 1)
    BY <1>2
  <1>7. Bounded(w, n)
    BY <1>1, <1>6 DEF Bounded
  <1> QED BY <1>5, <1>7 DEF Moves, Good, Publishing

(* What the cache holds for a file's path and text is what decoding it      *)
(* again would give, within the limits that are checked before it is used.  *)
LEMMA ReusedIsDecoded ==
    ASSUME InventoryIInv, NEW x, NEW limits, Reuses(x, limits)
    PROVE  Decoded(x, limits) = [artifact |-> extern[ExternalKey(x)]]
  <1>1. ExternalKey(x).text = x.text /\ ExternalKey(x).path = x.path
    BY DEF ExternalKey
  <1>2. x.text.valid /\ extern[ExternalKey(x)] = Held(x)
    BY <1>1 DEF InventoryIInv, Held, Reuses
  <1>3. Held(x).calls = x.text.calls
    BY DEF Held
  <1>4. Admits([calls |-> x.text.calls, wire |-> x.text.wire], limits)
    BY <1>2, <1>3 DEF Reuses, Revalidates, Admits
  <1> QED BY <1>2, <1>4 DEF Decoded

(* A cut document is as undecodable as the whole was.                       *)
LEMMA SnapshotDecodesAlike ==
    ASSUME NEW x, NEW limits, x.text.wire \in Nat, limits.wire \in Nat
    PROVE  /\ Decoded(Snapshot(x, limits), limits) = Decoded(x, limits)
           /\ Snapshot(x, limits).path = x.path
           /\ Snapshot(x, limits).text.calls = x.text.calls
  <1>1. CASE x.text.wire <= limits.wire + 1
    BY <1>1 DEF Snapshot
  <1>2. CASE ~(x.text.wire <= limits.wire + 1)
    <2>1. ~(x.text.wire <= limits.wire)
      BY <1>2
    <2>2. Decoded(x, limits) = [failure |-> "ExternalArtifact"]
      BY <2>1 DEF Decoded, Admits
    <2>3. /\ Snapshot(x, limits).path = x.path /\ ~Snapshot(x, limits).text.valid
          /\ Snapshot(x, limits).text.calls = x.text.calls
      BY <1>2 DEF Snapshot
    <2>4. Decoded(Snapshot(x, limits), limits) = [failure |-> "ExternalArtifact"]
      BY <2>3 DEF Decoded
    <2> QED BY <2>2, <2>3, <2>4
  <1> QED BY <1>1, <1>2

LEMMA DecodedIsHeld ==
    ASSUME NEW x, NEW limits, "artifact" \in DOMAIN Decoded(x, limits)
    PROVE  Decoded(x, limits).artifact = Held(x) /\ x.text.valid
  BY DEF Decoded

(* One external file is taken from the cache, or decoded.                   *)
LEMMA ExternalMoves ==
    ASSUME InventoryIInv, NEW w \in Workers, External(w)
    PROVE  /\ Moves(w) /\ UNCHANGED <<cancel, cache, faults>>
           /\ \/ extern' = extern
              \/ \E x : /\ x.text.valid /\ IsFiniteSet(x.text.calls)
                        /\ extern' = With(extern, ExternalKey(x), Held(x))
  <1> DEFINE r == inv[w]
             q == r.request
             x == q.externals[r.next]
             key == ExternalKey(x)
             Because(reason) == [source |-> x.path, reason |-> reason]
             made(A) == [r EXCEPT !.artifacts = r.artifacts \cup A, !.next = r.next + 1]
             lost(F) == [r EXCEPT !.failures = r.failures \cup F, !.next = r.next + 1]
  <1>1. r.status = "external" /\ r.next <= Len(q.externals) /\ UNCHANGED <<cancel, cache, faults>>
    BY DEF External
  <1>2. Shaped(r) /\ Bounded(w, r) /\ Transparent(r)
    BY <1>1, StartedIsGood
  <1>3. q \in Requests /\ Len(q.externals) \in Nat /\ r.next \in 1..Len(q.externals)
        /\ x \in ToSet(q.externals)
    BY <1>1, <1>2, RequestsAssumption, LenProperties DEF Bounded, ToSet
  <1>4. x.text.wire \in Nat /\ q.limits.wire \in Nat /\ IsFiniteSet(x.text.calls)
    BY <1>3, RequestsAssumption
  <1>5. DOMAIN r = Fields
    BY <1>2 DEF Shaped, Fields
  <1>6. ASSUME NEW A, inv' = [inv EXCEPT ![w] = made(A)], Decodable(x, q), A = {Taken(x, q)}
        PROVE  Moves(w)
    <2> DEFINE n == made(A)
    <2>1. n = [k \in Fields |-> n[k]]
      BY <1>5
    <2>2. /\ n.status = r.status /\ n.request = r.request /\ n.left = r.left
          /\ n.candidate = r.candidate /\ n.pending = r.pending /\ n.failures = r.failures
      BY <1>5 DEF Fields
    <2>3. n.artifacts = r.artifacts \cup A /\ n.next = r.next + 1
      BY <1>5 DEF Fields
    <2>4. inv' = [inv EXCEPT ![w] = n]
      BY <1>6
    <2> HIDE DEF n, made
    <2>5. Shaped(n)
      BY <2>1 DEF Fields, Shaped
    <2>6. /\ Yield(q, Tried(r), Read(r) \cup {x}).artifacts
               = Yield(q, Tried(r), Read(r)).artifacts \cup A
          /\ Yield(q, Tried(r), Read(r) \cup {x}).failures
               = Yield(q, Tried(r), Read(r)).failures \cup {}
      <3> HIDE DEF x, q, r
      <3> QED BY <1>6, DecodedFileYields
    <2>7. n.failures = r.failures \cup {}
      BY <2>2
    <2> QED BY <1>1, <2>2, <2>3, <2>4, <2>5, <2>6, <2>7, TakenMoves
  <1>7. ASSUME NEW F, inv' = [inv EXCEPT ![w] = lost(F)], ~Decodable(x, q), F = {Loss(x, q)}
        PROVE  Moves(w)
    <2> DEFINE n == lost(F)
    <2>1. n = [k \in Fields |-> n[k]]
      BY <1>5
    <2>2. /\ n.status = r.status /\ n.request = r.request /\ n.left = r.left
          /\ n.candidate = r.candidate /\ n.pending = r.pending /\ n.artifacts = r.artifacts
      BY <1>5 DEF Fields
    <2>3. n.failures = r.failures \cup F /\ n.next = r.next + 1
      BY <1>5 DEF Fields
    <2>4. inv' = [inv EXCEPT ![w] = n]
      BY <1>7
    <2> HIDE DEF n, lost
    <2>5. Shaped(n)
      BY <2>1 DEF Fields, Shaped
    <2>6. /\ Yield(q, Tried(r), Read(r) \cup {x}).artifacts
               = Yield(q, Tried(r), Read(r)).artifacts \cup {}
          /\ Yield(q, Tried(r), Read(r) \cup {x}).failures
               = Yield(q, Tried(r), Read(r)).failures \cup F
      <3> HIDE DEF x, q, r
      <3> QED BY <1>7, FailedFileYields
    <2>7. n.artifacts = r.artifacts \cup {}
      BY <2>2
    <2> QED BY <1>1, <2>2, <2>3, <2>4, <2>5, <2>6, <2>7, TakenMoves
  <1> DEFINE y == Snapshot(x, q.limits)
             d == Decoded(y, q.limits)
             Reused ==
                 /\ Reuses(y, q.limits)
                 /\ inv' = [inv EXCEPT ![w] = made({extern[ExternalKey(y)]})]
                 /\ UNCHANGED extern
             Rebuilt ==
                 /\ "artifact" \in DOMAIN d
                 /\ inv' = [inv EXCEPT ![w] = made({d.artifact})]
                 /\ extern' = With(extern, ExternalKey(y), d.artifact)
             Refuses ==
                 /\ "failure" \in DOMAIN d
                 /\ inv' = [inv EXCEPT ![w] = lost({[source |-> y.path, reason |-> d.failure]})]
                 /\ UNCHANGED extern
  <1>8. d = Decoded(x, q.limits) /\ y.path = x.path /\ y.text.calls = x.text.calls
    <2> HIDE DEF x, q, r
    <2> QED BY <1>4, SnapshotDecodesAlike, Zenon
  <1>9. CASE Reused
    <2>1. d = [artifact |-> extern[ExternalKey(y)]]
      <3> HIDE DEF y, q, r
      <3> QED BY <1>9, ReusedIsDecoded
    <2>2. Decodable(x, q) /\ Taken(x, q) = extern[ExternalKey(y)]
      <3> HIDE DEF d, x, q, r, y
      <3> QED BY <1>8, <2>1 DEF Decodable, Taken
    <2>3. inv' = [inv EXCEPT ![w] = made({extern[ExternalKey(y)]})]
      BY <1>9
    <2> HIDE DEF made, y
    <2> QED BY <1>1, <1>6, <1>9, <2>2, <2>3
  <1>10. CASE Rebuilt
    <2>1. d.artifact = Held(y) /\ y.text.valid
      <3> HIDE DEF x, q, r, y
      <3> QED BY <1>10, DecodedIsHeld
    <2>2. Decodable(x, q) /\ d.artifact = Taken(x, q)
      <3>1. "artifact" \in DOMAIN d
        BY <1>10
      <3> HIDE DEF x, q, r, y, d
      <3> QED BY <1>8, <3>1 DEF Decodable, Taken
    <2>3. /\ inv' = [inv EXCEPT ![w] = made({d.artifact})]
          /\ extern' = With(extern, ExternalKey(y), d.artifact)
      BY <1>10
    <2>4. IsFiniteSet(y.text.calls)
      <3> HIDE DEF x, q, r, y, d
      <3> QED BY <1>4, <1>8
    <2> HIDE DEF made, y, d, x, q, r
    <2> QED BY <1>1, <1>6, <2>1, <2>2, <2>3, <2>4
  <1>11. CASE Refuses
    <2>1. ~Decodable(x, q)
      <3>1. "failure" \in DOMAIN d
        BY <1>11
      <3> HIDE DEF x, q, r, y, d
      <3> QED BY <1>8, <3>1, DecodedIsEither DEF Decodable
    <2>2. [source |-> y.path, reason |-> d.failure] = Loss(x, q)
      <3> HIDE DEF x, q, r, y, d
      <3> QED BY <1>8 DEF Loss
    <2>3. inv' = [inv EXCEPT ![w] = lost({Loss(x, q)})] /\ extern' = extern
      <3>1. inv' = [inv EXCEPT ![w] = lost({[source |-> y.path, reason |-> d.failure]})]
            /\ extern' = extern
        BY <1>11
      <3> HIDE DEF x, q, r, y, d, lost
      <3> QED BY <2>2, <3>1
    <2> HIDE DEF lost, x, q, r
    <2> QED BY <1>1, <1>7, <2>1, <2>3
  <1>12. Reused \/ Rebuilt \/ Refuses
    BY Zenon DEF External
  <1> QED BY <1>9, <1>10, <1>11, <1>12

-----------------------------------------------------------------------------
(* The invariant, step by step.                                             *)
LEMMA InitIsGood == InitInventory => InventoryIInv
  <1> SUFFICES ASSUME InitInventory PROVE InventoryIInv
    OBVIOUS
  <1>1. \A w \in Workers : inv[w] = Idle
    BY DEF InitInventory
  <1>2. DOMAIN cache = {} /\ DOMAIN extern = {}
    BY DEF InitInventory
  <1>3. faults \in 0..MaxFaults
    BY InventoryAssumption DEF InitInventory
  <1> QED BY <1>1, <1>2, <1>3 DEF InitInventory, InventoryIInv, Good, UnsettledLeaveNoTrace

LEMMA MovesKeepsRecords ==
    ASSUME InventoryIInv, NEW w \in Workers, Moves(w)
    PROVE  /\ inv' = [v \in Workers |-> inv'[v]]
           /\ \A v \in Workers : Good(v, inv'[v])
           /\ \A v \in Workers : inv[v].status \in Publishing => inv'[v].status \in Publishing
  <1>1. PICK r : /\ inv' = [inv EXCEPT ![w] = r] /\ Good(w, r)
                 /\ inv[w].status \in Publishing => r.status \in Publishing
    BY DEF Moves
  <1>2. inv = [v \in Workers |-> inv[v]] /\ \A v \in Workers : Good(v, inv[v])
    BY DEF InventoryIInv
  <1>3. \A v \in Workers : inv'[v] = IF v = w THEN r ELSE inv[v]
    BY <1>1, <1>2
  <1>4. inv' = [v \in Workers |-> inv'[v]]
    BY <1>1, <1>2
  <1> QED BY <1>1, <1>2, <1>3, <1>4

(* A step that moves an invocation and leaves the caches alone.             *)
LEMMA MovesKeepsInvariant ==
    ASSUME InventoryIInv, NEW w \in Workers, Moves(w), UNCHANGED <<cancel, cache, extern, faults>>
    PROVE  InventoryIInv'
  BY MovesKeepsRecords DEF InventoryIInv, UnsettledLeaveNoTrace, Publishing

LEMMA StoreKeepsInvariant ==
    ASSUME InventoryIInv, NEW w \in Workers, Store(w)
    PROVE  InventoryIInv'
  <1>1. /\ Moves(w) /\ UNCHANGED <<cancel, extern, faults>> /\ inv[w].status = "storing"
        /\ cache' = cache \/ \E p \in Offers(w) : cache' = With(cache, p.key, p.entry)
    BY StoreMoves
  <1>2. CASE cache' = cache
    BY <1>1, <1>2, MovesKeepsInvariant
  <1>3. ASSUME NEW p \in Offers(w), cache' = With(cache, p.key, p.entry)
        PROVE  InventoryIInv'
    <2>1. Genuine(p.entry) /\ p.entry.by = w
      BY OffersAreGenuine
    <2>2. \A key \in DOMAIN cache' :
             \/ cache'[key] = p.entry
             \/ key \in DOMAIN cache /\ cache'[key] = cache[key]
      BY <1>3 DEF With
    <2>3. \A key \in DOMAIN cache' : Genuine(cache'[key]) /\ cache'[key].by \in Workers
      BY <2>1, <2>2 DEF InventoryIInv
    <2>4. \A key \in DOMAIN cache' : inv'[cache'[key].by].status \in Publishing
      <3>1. inv'[w].status \in Publishing
        BY <1>1, MovesKeepsRecords DEF Publishing
      <3>2. \A key \in DOMAIN cache : inv'[cache[key].by].status \in Publishing
        BY <1>1, MovesKeepsRecords DEF InventoryIInv, UnsettledLeaveNoTrace, Publishing
      <3> QED BY <2>1, <2>2, <3>1, <3>2
    <2> QED BY <1>1, <2>3, <2>4, MovesKeepsRecords
            DEF InventoryIInv, UnsettledLeaveNoTrace, Publishing
  <1> QED BY <1>1, <1>2, <1>3

LEMMA ExternalKeepsInvariant ==
    ASSUME InventoryIInv, NEW w \in Workers, External(w)
    PROVE  InventoryIInv'
  <1>1. /\ Moves(w) /\ UNCHANGED <<cancel, cache, faults>>
        /\ extern' = extern \/ \E x : /\ x.text.valid /\ IsFiniteSet(x.text.calls)
                                      /\ extern' = With(extern, ExternalKey(x), Held(x))
    BY ExternalMoves
  <1>2. CASE extern' = extern
    BY <1>1, <1>2, MovesKeepsInvariant
  <1>3. ASSUME NEW x, x.text.valid, IsFiniteSet(x.text.calls),
               extern' = With(extern, ExternalKey(x), Held(x))
        PROVE  InventoryIInv'
    <2>1. ExternalKey(x).text = x.text /\ Held(ExternalKey(x)) = Held(x)
      BY DEF ExternalKey, Held
    <2>2. \A key \in DOMAIN extern' :
             \/ key = ExternalKey(x) /\ extern'[key] = Held(x)
             \/ key \in DOMAIN extern /\ extern'[key] = extern[key]
      BY <1>3 DEF With
    <2>3. \A key \in DOMAIN extern' : /\ key.text.valid /\ IsFiniteSet(key.text.calls)
                                      /\ extern'[key] = Held(key)
      BY <1>3, <2>1, <2>2 DEF InventoryIInv
    <2> QED BY <1>1, <2>3, MovesKeepsRecords DEF InventoryIInv, UnsettledLeaveNoTrace, Publishing
  <1> QED BY <1>1, <1>2, <1>3

(* A damaged entry, or one answered under another key, is still genuine:    *)
(* decoding compares the key it carries.                                    *)
LEMMA DamagedIsGenuine ==
    ASSUME NEW entry, Genuine(entry)
    PROVE  /\ Genuine([entry EXCEPT !.intact = FALSE])
           /\ [entry EXCEPT !.intact = FALSE].by = entry.by
  <1> DEFINE n == [entry EXCEPT !.intact = FALSE]
  <1>1. DOMAIN entry = {"key", "artifact", "intact", "by"}
    BY DEF Genuine
  <1>2. n.key = entry.key /\ n.artifact = entry.artifact /\ n.intact = FALSE /\ n.by = entry.by
    BY <1>1
  <1>3. n = [k \in {"key", "artifact", "intact", "by"} |-> n[k]]
    BY <1>1
  <1> HIDE DEF n
  <1>4. n = [key |-> n.key, artifact |-> n.artifact, intact |-> n.intact, by |-> n.by]
    BY <1>3
  <1>5. Genuine(n) /\ n.by = entry.by
    BY <1>2, <1>4 DEF Genuine
  <1> QED BY <1>5 DEF n

LEMMA CacheFaultKeepsInvariant ==
    ASSUME InventoryIInv, CacheFault
    PROVE  InventoryIInv'
  <1>1. UNCHANGED <<inv, cancel, extern>> /\ faults' \in 0..MaxFaults
    BY InventoryAssumption DEF CacheFault, InventoryIInv
  <1>2. \A key \in DOMAIN cache' : \E old \in DOMAIN cache :
           cache'[key] \in {cache[old], [cache[old] EXCEPT !.intact = FALSE]}
    <2>1. PICK key \in DOMAIN cache :
             \/ cache' = Without(cache, key)
             \/ cache' = [cache EXCEPT ![key].intact = FALSE]
             \/ \E wanted : cache' = With(cache, wanted, cache[key])
      BY DEF CacheFault
    <2>2. CASE cache' = Without(cache, key)
      BY <2>2 DEF Without
    <2>3. CASE cache' = [cache EXCEPT ![key].intact = FALSE]
      <3>1. cache' = [cache EXCEPT ![key] = [cache[key] EXCEPT !.intact = FALSE]]
        BY <2>3
      <3> DEFINE damaged == [cache[key] EXCEPT !.intact = FALSE]
      <3> HIDE DEF damaged
      <3>2. \A k \in DOMAIN cache' : k \in DOMAIN cache /\ cache'[k] \in {cache[k], damaged}
                                     /\ (cache'[k] = damaged /\ k # key => damaged = cache[k])
        BY <3>1 DEF damaged
      <3>3. \A k \in DOMAIN cache' : k # key => cache'[k] = cache[k]
        BY <3>1
      <3>4. cache'[key] = damaged
        BY <3>1 DEF damaged
      <3> QED BY <3>2, <3>3, <3>4 DEF damaged
    <2>4. CASE \E wanted : cache' = With(cache, wanted, cache[key])
      BY <2>4 DEF With
    <2> QED BY <2>1, <2>2, <2>3, <2>4
  <1>3. \A key \in DOMAIN cache' : \E old \in DOMAIN cache :
           Genuine(cache'[key]) /\ cache'[key].by = cache[old].by
    <2> SUFFICES ASSUME NEW key \in DOMAIN cache'
                 PROVE  \E old \in DOMAIN cache :
                           Genuine(cache'[key]) /\ cache'[key].by = cache[old].by
      OBVIOUS
    <2>1. PICK old \in DOMAIN cache :
             cache'[key] \in {cache[old], [cache[old] EXCEPT !.intact = FALSE]}
      BY <1>2
    <2>2. Genuine(cache[old])
      BY DEF InventoryIInv
    <2>3. /\ Genuine([cache[old] EXCEPT !.intact = FALSE])
          /\ [cache[old] EXCEPT !.intact = FALSE].by = cache[old].by
      BY <2>2, DamagedIsGenuine
    <2> QED BY <2>1, <2>2, <2>3
  <1>4. \A key \in DOMAIN cache' :
           /\ Genuine(cache'[key]) /\ cache'[key].by \in Workers
           /\ inv[cache'[key].by].status \in {"storing", "external", "done"}
    BY <1>3 DEF InventoryIInv, UnsettledLeaveNoTrace
  <1> QED BY <1>1, <1>4 DEF InventoryIInv, UnsettledLeaveNoTrace

LEMMA InventoryIsInductive ==
    ASSUME InventoryIInv, [Next]_vars
    PROVE  InventoryIInv'
  <1>1. ASSUME NEW w \in Workers, Step(w)
        PROVE  InventoryIInv'
    <2>1. ASSUME NEW q \in Requests, Begin(w, q) PROVE InventoryIInv'
      BY <2>1, BeginMoves, MovesKeepsInvariant DEF Begin
    <2>2. CASE RecordFailure(w)
      BY <2>2, RecordFailureMoves, MovesKeepsInvariant DEF RecordFailure
    <2>3. CASE ObserveCancel(w)
      BY <2>3, ObserveCancelMoves, MovesKeepsInvariant DEF ObserveCancel
    <2>4. CASE Consult(w)
      BY <2>4, ConsultMoves, MovesKeepsInvariant DEF Consult
    <2>5. CASE Scan(w)
      BY <2>5, ScanMoves, MovesKeepsInvariant
    <2>6. CASE Settle(w)
      BY <2>6, SettleMoves, MovesKeepsInvariant DEF Settle
    <2>7. CASE Store(w)
      BY <2>7, StoreKeepsInvariant
    <2>8. CASE External(w)
      BY <2>8, ExternalKeepsInvariant
    <2>9. CASE Return(w)
      BY <2>9, ReturnMoves, MovesKeepsInvariant DEF Return
    <2> QED BY <1>1, <2>1, <2>2, <2>3, <2>4, <2>5, <2>6, <2>7, <2>8, <2>9 DEF Step
  <1>2. ASSUME NEW w \in Workers, Cancel(w)
        PROVE  InventoryIInv'
    BY <1>2 DEF Cancel, InventoryIInv, UnsettledLeaveNoTrace
  <1>3. CASE CacheFault
    BY <1>3, CacheFaultKeepsInvariant
  <1>4. CASE UNCHANGED vars
    BY <1>4 DEF vars, InventoryIInv, UnsettledLeaveNoTrace
  <1> QED BY <1>1, <1>2, <1>3, <1>4 DEF Next, Finished

LEMMA InventoryInvariant == Spec => []InventoryIInv
  <1>1. InventoryIInv /\ [Next]_vars => InventoryIInv'
    BY InventoryIsInductive
  <1> QED BY <1>1, InitIsGood, PTL DEF Spec

-----------------------------------------------------------------------------
(* A batch leaves an entry in the cache only once it was settled as a       *)
(* whole: never one that was cancelled, failed or still has groups to do    *)
(* (producer.rs), for any batches, faults and overlapping invocations.      *)
THEOREM UnsettledBatchesLeaveNoTrace == Spec => []UnsettledLeaveNoTrace
  <1>1. InventoryIInv => UnsettledLeaveNoTrace
    BY DEF InventoryIInv
  <1> QED BY <1>1, InventoryInvariant, PTL

(* The caches are transparent: whatever other invocations stored before     *)
(* and beside it, and whatever the store lost, damaged or misplaced, an     *)
(* invocation that returns answers what it would have without any cache     *)
(* (producer.rs, reference.rs).                                             *)
THEOREM CachesAreTransparent == Spec => []CacheIsTransparent
  <1>1. ASSUME InventoryIInv, NEW w \in Workers, inv[w].status = "done"
        PROVE  /\ inv[w].artifacts = Uncached(inv[w].request).artifacts
               /\ inv[w].failures = Uncached(inv[w].request).failures
    <2> DEFINE r == inv[w]
               q == r.request
    <2>1. Bounded(w, r) /\ Transparent(r)
      BY <1>1, StartedIsGood
    <2>2. Tried(r) = IF GlobalFailure(q) = "none" THEN q.groups ELSE {}
      BY <1>1, <2>1 DEF Tried, Transparent, Publishing
    <2>3. q \in Requests /\ q.externals \in Seq(ToSet(q.externals)) /\ Len(q.externals) \in Nat
      BY <2>1, RequestsAssumption, LenProperties DEF Bounded
    <2>4. Read(r) = ToSet(q.externals)
      <3>1. r.next - 1 = Len(q.externals)
        BY <1>1, <2>1, <2>3 DEF Transparent
      <3>2. DOMAIN q.externals = 1..Len(q.externals)
        BY <2>3, LenProperties
      <3> QED BY <3>1, <3>2 DEF Read, ToSet
    <2> QED BY <1>1, <2>1, <2>2, <2>4 DEF Transparent, Running, Uncached
  <1>2. InventoryIInv => CacheIsTransparent
    BY <1>1 DEF CacheIsTransparent
  <1> QED BY <1>2, InventoryInvariant, PTL

(* The state is well typed: an invocation stays within its batch, its       *)
(* candidate goals and its files, and offers entries in its own name only.  *)
THEOREM InventoryTypes == Spec => []TypeOK
  <1>1. ASSUME InventoryIInv PROVE TypeOK
    <2>1. \A key \in DOMAIN extern : extern[key].wire > 0
      <3>1. ASSUME NEW key \in DOMAIN extern PROVE Cardinality(key.text.calls) \in Nat
        BY <1>1, <3>1, FS_CardinalityType DEF InventoryIInv
      <3> QED BY <1>1, <3>1 DEF InventoryIInv, Held
    <2>2. \A key \in DOMAIN cache : cache[key].artifact.wire > 0 /\ cache[key].by \in Workers
      <3> SUFFICES ASSUME NEW key \in DOMAIN cache
                   PROVE  cache[key].artifact.wire > 0
        BY <1>1 DEF InventoryIInv
      <3>1. Genuine(cache[key])
        BY <1>1 DEF InventoryIInv
      <3>2. Cardinality(Found(cache[key].key)) \in Nat
        BY <3>1, FS_Intersection, FS_CardinalityType DEF Genuine, Found
      <3> QED BY <3>1, <3>2 DEF Genuine
    <2>3. ASSUME NEW w \in Workers, inv[w] # Idle
          PROVE  /\ inv[w].status \in Terminal \cup {"groups", "storing", "external"}
                 /\ inv[w].request \in Requests
                 /\ inv[w].left \subseteq inv[w].request.groups
                 /\ inv[w].next \in 1..(Len(inv[w].request.externals) + 1)
                 /\ inv[w].pending \in Seq(Offers(w))
                 /\ inv[w].candidate \in Nat \ {0}
      BY <1>1, <2>3 DEF InventoryIInv, Good, Bounded
    <2>4. ASSUME NEW w \in Workers, inv[w] # Idle, GroupsLeft(w), LocalFailure(Group(w)) = "none"
          PROVE  inv[w].candidate \in 1..(Len(Candidates(w)) + 1)
      <3>1. Len(Candidates(w)) \in Nat
        BY <2>3, <2>4, FirstIsOne, GoalsAreFew DEF Candidates, Group, GroupsLeft
      <3>2. inv[w].candidate <= Len(Candidates(w)) + 1
        BY <1>1, <2>4 DEF InventoryIInv, Good, Bounded, Candidates, Group, GroupsLeft
      <3> QED BY <2>3, <2>4, <3>1, <3>2
    <2>5. ASSUME NEW w \in Workers, inv[w] # Idle
          PROVE  \A i \in DOMAIN inv[w].pending : inv[w].pending[i].entry.by = w
      BY <2>3, <2>5, OffersAreGenuine, ElementOfSeq, LenProperties
    <2>6. cancel \subseteq Workers /\ faults \in 0..MaxFaults
      BY <1>1 DEF InventoryIInv
    <2> QED BY <2>1, <2>2, <2>3, <2>4, <2>5, <2>6 DEF TypeOK
  <1> QED BY <1>1, InventoryInvariant, PTL
=============================================================================
