# A verification development for intlify

TLA+ models of the parts of the intlify workspace whose correctness depends on
order: what happens when processes interleave, calls fail half way, machines
stop, or what was read is no longer true when it is used. Each model is
checked by TLC on small instances; the invariants that carry the design are
proved by TLAPS for every instance.

## 1. The system

intlify is a Rust workspace around MessageFormat 2: a parser and formatter, and
a message toolchain that finds the messages an application uses, links them to
catalogs, exports them and registers the result as files. A younger part gives
messages durable identities ("intents") in a registry that a host publishes.

| Component | State it keeps | Operations | Interacts with | What is hard | Modelled |
|---|---|---|---|---|---|
| Output registration (`intlify_cli/src/messages/registration`) | files beside a configured output directory: lock, journal, journal temporary, staging, backup, output | `write_output`, `check_output`, recovery, commit, rollback | other processes, through the files and an OS advisory lock; the filesystem | crashes and power loss between any two effects, partial failures, racing processes | yes |
| Local authoring host (`intlify_local_host`) | owner binding, authority (grants, development session), chain of published registries, behind one guard | enroll, set_grants, start/end development, lose_control_state, open, prepare, confirm, publish, initialize, read, analyze | sessions by call; the identity crate for plans | sessions act on snapshots that have gone stale | yes |
| Intent registry (`intlify_authoring_identity/src/registry`) | none of its own: snapshots and updates are values, a host keeps the chain | apply, replay, verify_history | the host publishes its results | long sequences: retired ids, coverage, lineage, lost artifacts | yes |
| Reconciliation and continuity (same crate) | none | reconcile, trace edits, verify bases | registry, inventory, host | combinations of evidence, stale plans, two readings of one edit | yes |
| Message emission (`messages/emit.rs`, `orchestration.rs`) | results of the targets so far | emit, check | linker, exporter, registration once per target | one target failing among several; sources changing between reads | yes |
| JavaScript producer and reference inventory (`intlify_producer_js`, `messages/reference.rs`) | two caches, pending publications | produce, produce_reference_inventory | linker, cache store, caller's cancellation | cancellation and cache visibility, stale or foreign entries | yes |
| Message linker (`intlify_linker`) | none | admit a request, link | inventories, exporters | scopes, fallbacks, completeness, selectors and graphs in combination | yes |
| Configuration and definition inventory (`messages/config.rs`, `inventory.rs`) | none across calls | load, discover, validate | files | sequential validation | no |
| `fmt` command (`intlify_cli/src/fmt.rs`) | source files, results, the path that blocks its aliases | check, write | files | failed overwrite and its aliases | no |
| Exporters, contracts, configuration, resources, shared JSON | none | pure functions | | canonical order, limits | no |
| MessageFormat 2 parser, formatter, snapshots (`ox_mf2_parser`, `intlify_format`) | none across calls | parse, format, encode, decode | bindings | numeric limits of the binary snapshot | no |
| Authoring inventories (`intlify_authoring`, `_js`) | none | extract, project | reconciliation | | no |
| Measurement, bindings, packages, playground, tools | tooling | | | | no |

What makes each modelled component correct:

* Output registration: a consumer never ends up with a mixture of two artifact
  sets, whatever stops; a reported success cannot be taken back; a reported
  failure says truthfully what the output is; the tree being replaced is never
  lost track of; writers exclude each other and every reader; every invocation
  ends.
* Local host: publications form a single chain with ordered provenance, each
  made by someone who holds the power at that moment and, where a decision
  needs confirmation, exactly confirmed by someone who holds that power; the
  chain stays within its retained history; a lost control state is final.
* Intent registry: an id names one declaration at a time, is never forgotten and
  never given away; what was published can be replayed by whoever kept its
  artifacts, and nothing else passes for it.
* Reconciliation: a plan fits the registry it was made for or is refused; it
  leaves nothing of the inventory undecided; an id follows the text it named;
  nothing is retired that was merely not seen.
* Reference inventory: the caches never show in a result; a batch that did not
  come to its end leaves nothing in them.
* Linker: a plan holds exactly what the code asks for, in the nearest locale;
  no lookup comes up empty; a message reported unused can go.
* Emission: no output is made from a part of the project; a run's report and
  exit code are true of every target.

The hazards behind these are listed, line by line, in `PROJECT.json`.

## 2. Modules

| Module | Role |
|---|---|
| `RegistrationDisk` | values under the output's parent directory: trees, control files; what recovery can tell from them (`RecoveryCase`) |
| `OutputRegistration` | the protocol: one action per filesystem effect of `transaction.rs`, per process |
| `AtomicRoot` | the abstract specification of registration: a register that is old or new, never a third |
| `RegistrationProperties` | type invariant, safety, action and liveness properties, the refinement mapping, and the refuted statements of the design document |
| `OutputRegistrationProofs` | mutual exclusion, and from it the type invariant, proved |
| `OutputRegistrationRecovery` | durability, truthful reports, recovery and the refinement of `AtomicRoot`, proved |
| `LocalHost` | the host, its sessions, plans and confirmations |
| `LocalHostProperties` | type invariant, invariants and action properties of the published chain |
| `LocalHostProofs` | all of them, proved |
| `IntentRegistry` | snapshots, updates, `apply`, the chain a host publishes, `verify_history` |
| `SourceEdits` | what an edit does to a range of text, in the code's arithmetic, and byte by byte as a reference |
| `Reconciliation` | the planner, the checker of bases, and the host that publishes what they give |
| `ReconciliationProperties` | the properties of both |
| `IntentRegistryProofs` | the registry's invariants and action properties, verified histories, and that reconciliation implements the registry, proved |
| `ReconciliationProofs` | that moved ranges follow their text and inserted ones are new, for any list of replacements; then the planner's properties, rule by rule, proved |
| `ReferenceInventory`, `ReferenceInventoryProperties` | batches of source groups and external artifacts over two shared caches |
| `ReferenceInventoryProofs` | the caches' transparency, and that unsettled batches leave no trace, proved |
| `KeySelectors` | catalog keys, selectors and the pattern automaton |
| `MessageLink`, `MessageLinkProperties` | the linker as a function of its request, and what it promises |
| `MessageLinkProofs` | that the pattern automaton decides what a pattern covers; then the linker's four properties, proved |
| `Emission`, `EmissionProperties` | runs of `messages emit` over several output roots, each the register `AtomicRoot` specifies or what a backup removal left of it |
| `EmissionProofs` | types and locks; that outputs are whole, reports true and no failure stops another target, proved |
| `MC...` | constants of the small instances |

Operators whose comment begins "Seeded fault" are not part of the model: they
are wrong versions of a definition, each showing that one property notices.

### Output registration

`fs` is the parent directory as processes see it. Names that carry a random
transaction id are indexed by the id; ids are fresh, so an invocation's number
stands for its id. A tree is absent, empty, unreadable (no manifest decodes) or
managed: the fingerprint of its manifest and whether the tree agrees with it
exactly, in another spelling, or not. That is all `inspect_output_at`,
`inspect_recovery_root` and the journal distinguish. The lock file and the
journal may be torn: created without their complete content.

`pc[p]` names the next effect of process `p`; `job[p]` holds the locals
`CommitRootState`, `CommitControlState`, `RecoveryEffect` and the old root as
the journal records it. An action takes its guard from the code before the
effect and lists every result of the call: success, failure without effect, and
where the code's function writes before it flushes, failure after the write.
The sequences are: lock (`LookupLock` .. `FlushLock`, `acquire_write_lock`),
recovery (`RecoverPriorTransaction` .. `RecoveryFlush`), inspection and staging,
commit (`JournalCreate` .. `RemoveJournalFlush`, `commit_staging`), rollback
(`RollbackAfterCommit` and the `Rollback...` steps), and check (`CheckLookup`
.. `CheckVerify`). `Idle`, at the end of an invocation, is where the lock's file
handle drops.

Power loss. `durable` is the set of directory states a power loss may leave.
Every effect adds the new state; a successful flush of the parent reduces it to
the current one. A loss therefore keeps a prefix of the effects since the last
flush, as a journalled filesystem orders directory operations. File content is
flushed by the code before it is relied upon (`sync_file_at`), so the completed
record replaces the torn one in every surviving state. A process death loses
nothing that was done.

Variables `base`, `entry`, `prior`, `acked` are history: the settled root and
the output when the lock was taken, the tree each transaction replaces, and
whether the last transaction was reported written. No guard reads them.

### Local host

Every host operation takes the guard at most once, so each is one action; a
refused operation changes nothing and is the absence of the action. `sessions`
keeps what `open` copied: caller, authority revision, grants, development flag,
current registry, pins, acquired inventories. Plans and confirmations are
values a client may keep and present in any session, so they are sets that only
grow. A registry is its identity and the updates applied since its genesis,
which is what the chained references identify. The reconciler's choice of
update is free, with one restriction the code has: fresh ids are drawn, never
reused. `Prepare` and `Confirm` use the session's snapshot only; `CommitUpdate`
and `Initialize` check again under the guard (`CheckCurrent`,
`AuthorizeUpdate`, `Matched`).

`RequiresConfirmation` is the eligibility of a decision the plan was explicitly
given; decisions that were proven need none and are not represented.

### Intent registry and reconciliation

`chain` is what a host published: each update with the entries it gave. The code
names a snapshot by the digest of an artifact that names its base; the model
names it by its position, which is the same thing for artifacts of one chain.
`IntentRegistry` has one operator per check of `Transition`, and `Accept` is a
host applying an update to its head. `VerifyHistory` walks back from the head
over the retained artifacts (the model removes any one, or changes a stored
result), stops at the limit of steps and then replays.

`Reconciliation` is one call of `reconcile` per step: its inputs (inventory,
edits, membership, previous update, explicit decisions, links, candidate ids) come
from a scene; `answer` keeps what it was given and returned. A scene counts only if
its inputs have the types the code's constructors give them (`WellTyped`); whatever
else may be wrong with them is for `Admitted` to refuse. Ranges may be empty, as
`ByteRange::new` lets them be. The planner
(`Classify`) and the checker (`VerifyBases`) are translated separately, from
`classify.rs` and from `bases.rs`, because whether they agree is one of the
questions. `Publish` may come after other updates did, as hosts do; `HandUpdate`
is an update a host forms itself, which goes through the same `apply`.

`SourceEdits` gives the ranges and their fates as `fate` and `inserted` compute
them. `Survives` and `Landing` say what happens to a single byte, as `replay`
splices the text; the properties about text use these only.

### Reference inventory

One action per stage of `produce_impl` for a group, with the cancellation polls
where the code has them, then the deferred stores, then the external artifacts.
A source text is what the frontend tells apart: UTF-8 or not, its length, the
goals it parses under and, under each, the calls found and those whose argument or
selector is refused. `CacheFault` is the store: it drops an entry, damages it, or
answers with another key's.

`External` is one configured external artifact. `Snapshot` is the bounded read: at
most one byte more than the wire limit, never a failure because of the size. A
document within the limit may be answered from `extern`, the in-memory cache of
decoded artifacts (`Reuses`); any other is decoded, and the decoder refuses what is
too long, cut or invalid with `ExternalArtifact`. The wire size of a decoded
artifact is not the one its document had, so revalidation alone would let a cached
artifact through whose document is over the limit of a later request: it is the
filter on the snapshot's length that prevents it, and the seeded fault
`ReusesOfAnyLength` drops it. Files that cannot be read at all meet no cache and are
left out.

### Linker

`MessageLink` is the pipeline of `link.rs` in its order over a request as a
record; the pattern automaton is `match_pattern`'s set of active positions. Facts
and reachability are computed separately, as in the code, and `FactsSuffice` is
the lookup between them that would answer `InternalInvariant`.
`MessageLinkProperties` says what is asked without either: a pattern covers a
key if the key can be cut into pieces, and a definition is the nearest if no other
is before it on the chain.

### Emission

A run reads the catalog files one after the other in the order of their paths
(`ReadDefinitions`), then the sources (`ReadReferences`), links, prepares, and takes
its targets in order. Edits come between any two reads; a file that cannot be read,
or that changed while it was read (`source_changed`), contributes nothing and fails
the run at `Prepare`. `past` is the sequence of states the project was in and `when`
the state each run read each file in; both are history.

Each target's registration is `Lock` .. `Settle`. `root` is the tree the output
settles to, the register `OutputRegistration` is checked to implement, with the
results its properties allow a failure to have; `txn` is a transaction a failure or
a death left open, and `provable` whether recovery can tell its outcome from what is
there, which it cannot over a damaged tree or a participant removed by half
(`state_ambiguous`). `RemoveBackup` begins the removal of the replaced tree: a failure
in it is answered by `Settle` as in `commit_staging`, with what `Remains` of that tree put
back and reported `restored`. So the premise `~TornErrors` of the register's proof is
not needed here. `Visible` is what a reader may find under an open transaction: the
settled tree or nothing yet. Other runs, failures and deaths come between any two
steps.

## 3. Runs

| Run | Instance | Shows |
|---|---|---|
| `RegistrationCrash` | one writer, 3 invocations, 2 failed calls, 2 crashes, two artifact sets, 5 initial outputs | `ImplementsAtomicRoot`, write-ahead, truthful failure reports, and that recovery applies to whole participants with a readable replaced tree, also after a failed rollback |
| `RegistrationTorn` | one writer, 3 invocations, 2 failed calls (one may remove part of a backup), 1 crash | the backup always has its journal; reported success is complete and durable |
| `RegistrationReturns` | 2 writers and a checker, 2 invocations, 1 failed call, 1 crash, with fairness | mutual exclusion; a comparison is current when reported; every invocation returns |
| `LocalHost` | 3 sessions, 3 generations, 3 authority revisions over two grant tables, 2 plans, 1 confirmation | one chain within its limit, ordered provenance, binding agrees, loss is final, powers held and confirmations given when published |
| `Reconciliation` | 3 updates, 3 ids, 2 units, texts of up to 3 bytes, up to 2 replacements per edit | one identity each, permanent ids, verifiable history, plans that apply, are whole, follow the text and retire nothing unseen |
| `Inventory` | 2 invocations, 12 requests over 5 sources and documents of 2 and 3 bytes under wire limits of 1 to 3, 1 cache fault, cancellation anywhere | transparent caches, no trace of an unsettled batch, every invocation ends |
| `MessageLink` | about 37,000 requests: all catalogs over 6 definitions, 8 selectors, 2 scopes, locales and units | plans, lookups, unused messages and typed-key models are right |
| `Emission` | 2 runs over 2 targets, 2 catalog files and 2 sources with 2 contents each, 1 edit, 1 failure, 1 death | whole outputs, true reports, no failure stops another target |
| `LockRace`, `TornBackup`, `RecoveredUnchanged`, `PlannerAgreement` | the smallest instance each; the last one that of `Reconciliation` | four statements of documents and comments the code does not keep (below) |

Bounds and why they are enough. One interrupted transaction, the invocation
that recovers it and one that starts from the result are three invocations; two
crashes are the transaction's and the recovery's own; two failed calls are the
commit's and the rollback's; with them `indeterminate` is reported by a writer whose
rollback failed, over a replaced tree that may be damaged. An initially empty output,
which is moved and put back as a complete tree is, is left to `RegistrationTorn` and
to the proofs. Two artifact sets make old and new distinguishable,
and a write of the set that is already there is included. In the races a third
process adds no new pair: the lock is held by one writer or by readers. For
the host, two grant tables are a grant and its revocation, two plans two
different decisions about one intent, and three sessions two that compete and
one that follows.

Reconciliation needs three updates for an id to be retired and restored or to
meet a stale plan, and three ids for two entries and a new one. A text of three
bytes has a declaration that another precedes, follows, touches or contains room
around, and two replacements are the least that can disagree about one
declaration; the lists of replacements are all there are. `MaxHistorySteps` is
two, so that a chain of three is past the limit. The scenes after the first update
are chosen group by group (edits, relocated files, incomplete evidence, explicit
choices), because all inputs in all states are far too many; each group is
complete within its bounds.

The requests of `Inventory` are chosen for what one cached entry can do to
another request: the same text under fewer recognizers or smaller limits, the same
key with another text, aliases, shared identities, every failure. Two invocations
suffice for one to fill the cache and one to read it. In `MessageLink` two keys
share a prefix and a third differs from one only by a token between; two
scopes may be mapped to one; two units are a root and one below it.
One document is read under limits that it fits, exceeds by one byte (so that the
snapshot is still whole and has the key of a cached artifact) and exceeds by more.
In `Emission` one target's failure needs a second target to be stopped, and one
run's open transaction a second run to recover it. One failure is enough to leave
one, and to put a damaged tree back. Two catalog files and two sources are
the least an edit can fall between; the one edit moves the use of a message from one
source to the other and changes one text while it breaks another.

`MaxDraws`, `MaxPrepared`, `MaxConfirmed`, `MaxSessions`,
`MaxRevisions`, `MaxInvocations`, `MaxFaults`, `MaxCrashes`, `MaxRuns`,
`MaxEdits` and, for `Reconciliation`, `MaxGenerations` bound the models; the
host's `MaxGenerations` and `MaxConfirmations`, `MaxHistorySteps` and
`MaxMatchStates` are limits of the code. `CHECK_DEADLOCK FALSE` is set for the
host, for reconciliation and for the linker only: a library acts when it is
called, and a linked request is final. Registration, emission and the reference
inventory have an explicit step for the end of everything (`Quiescent`,
`Finished`), so processes waiting for each other would be found.

Fairness (`FairSpec`): a started process keeps running until it returns or
dies (weak fairness of its steps), and the operating system grants a blocking
advisory lock that keeps becoming free (strong fairness of the three steps that
wait). Starting, crashing and failing are never required. In the reference
inventory a begun invocation goes on (weak fairness of its steps): it is a loop on
its caller's thread that waits for nobody; the caller never has to cancel and the
store never has to answer well.

### What the design document says otherwise

Each is a run that ends in the shortest trace; details and quotations are in
`PROJECT.json` under `findings`.

* `LockRace`: a second writer may lock the file before its creator does, read
  an incomplete record and be turned away, instead of waiting. The creator then
  takes the lock and goes on.
* `TornBackup`: a failed removal of the backup is answered by putting the
  damaged backup back and reporting `restored`.
* `RecoveredUnchanged`: a rollback reports `unchanged` although the same
  invocation's recovery changed the output. (An error after the recovery of
  another set's installation may likewise report `updated` for a set that is not
  the expected one; `UpdatedIsComplete` states what does hold.)
* `PlannerAgreement`: the removal of a file recorded as two adjacent deletions
  that meet inside a declaration counts as its absence for the planner and not for
  the checker of the plan, so `reconcile` answers that it is unresolved.
  `DisagreesOnlyOnRemovals` states that they disagree over nothing else.

`ReportsAreTrue` of emission keeps to what the first and the third of these leave:
its `found` is the tree the output settled to when it was locked, not the output as
it lay there, so that `unchanged` after a recovery is true in that sense only, and
`restored` may be what the run's own half-done removal left. Files edited between two
reads of a run are no divergence: design/014:2656-2660 asks of each file that it is
compared with itself, and no more is promised.

The first journal record is written in place, although `design/014:7534` says
that a partial file never becomes the supported journal; a death in between
leaves one, and every later invocation refuses the output. It is in the model
and in no run of its own; `OutputChangeIsJournaled` shows nothing else has
changed by then.

## 4. Proofs

`OutputRegistrationProofs` proves `MutualExclusion` for any sets of writers and
checkers and any bounds. `LockExclusive` with the types of `pc` and `held`
(`LockIInv`) is inductive: `InsideKeepsExclusion` covers every step of a writer
past its lock, `AcquiringKeepsExclusion` the two that take it,
`OutsideKeepsExclusion` the rest, `IdleKeepsExclusion` returns and deaths. It
rests on the disjointness of writers and checkers only.

The same module proves `TypeCorrect`. `TypeOK` alone is not
inductive: recovery takes the participants' names from the journal, so it acts
on a well-formed transaction only while a complete record is there
(`RecoveryHasJournal`), and that record stays only because no other process
writes while one recovers, which is mutual exclusion. `TypeIInv` is the three
together. `JobTypes` and `EffectTypes` say what the locals of a writer may be,
`StartKeepsTypes`, `WriteKeepsTypes`, `CheckKeepsTypes` and `IdleKeepsTypes`
take the steps group by group. The assumptions are that the bounds are naturals
with at least one invocation, and that initial outputs are trees
(`RootsAssumption`).

`OutputRegistrationRecovery` proves every other safety and action property of
registration. The invariant, `RegistrationIInv`, speaks of all of `durable`, not
of what processes see, and has five parts besides the types:

* `DiskIInv`. A journal record names the tree it replaces and the tree it
  installs. Whoever moved them last, the output, backup and staging it names are
  `Kept`, `Moved` or `Installed` (`Coherent`), and nothing is at a backup name
  without its journal. `Precedes` relates each state a power loss may bring back
  to the visible one: both in the same transaction; or the record is already gone
  from one of them, and the output then is one its record allows. This is what
  makes every flush in `commit_staging` necessary: without one of them some
  surviving state would precede nothing.
* `HeldIInv` and `FreshIInv`. A holder of the lock is alone and its file exists;
  transaction ids are fresh, so the root a record refers to is never overwritten.
* `WriterAt`. For the one writer past its lock, `pc` says where the three
  participants are: `RecoveringAt`, `CommittingAt`, `ProgressAt` (which flushes
  are behind it), `UndoingAt`, and `ReportAt` for what it is about to report.
* `CheckerIInv`. What a checker compared is still the output while it holds the
  shared lock, or no lock file existed and none does yet.

`RegistrationIsInductive` takes the steps in groups (lock, recovery, inspection
and staging, commit, removal of the old tree, rollback, checks, deaths and power
losses), each by a lemma. `BackupAlwaysHasJournal`, `WriteAhead`,
`WholeParticipantsRecover`, `SuccessInstalls`, `UpdatedInstalls` and
`ComparisonStands` follow for every value of the constants. (`WholeParticipantsRecover`
is of participants that are whole and a replaced tree that was readable; over a
damaged one the program refuses with `state_ambiguous`.) `FailureRestores`,
`IndeterminateRecovers` and `ImplementsRegister` are proved for `~TornErrors`,
that is, when a directory removal that fails has removed nothing: the
`TornBackup` run shows that the program does not keep them otherwise.

`IndeterminateRecovers` evaluates recovery's own decision on every state a power
loss may leave after a failed rollback or recovery. It needs `IntactIInv`: while a
rename is still due or was just made, and whenever `indeterminate` is about to be
reported, no such state has a damaged participant, because damage comes only from the
removals at the end of a commit, a rollback or a recovery, and those begin when every
rename is flushed (`RenamingSettles`, `CommitSettles`, `RollbackSettles` and their like
say so group by group). Intact participants are whole, so a branch of
`recover_prior_transaction` applies if the replaced tree was readable, and the
branch leaves the tree the root settles to. With a replaced tree that was damaged
before, the journal and a complete copy are still there, and recovery refuses.

For the refinement, every step of the protocol either leaves alone what the register is
mapped from, or changes the output's trees under an unchanged journal, or
touches nothing but the journal (`RegisterStep`); only writing the journal's
record opens a transaction, only the flush after its removal acknowledges, and
a power loss settles, reopens or switches one.

`LocalHostProofs` proves every property of `LocalHostProperties`, from the
assumptions that grants are grant tables and limits are naturals.

* `TypeCorrect` first; the others use it.
* `ChainIInv` is `ChainLinear`, `RecordsAreOrdered` and `BindingMatchesChain`
  together: an initialization extends the chain correctly only because a
  binding that is not active has no chain, and that is the third conjunct;
  `AppendKeepsChain` shows a linear chain stays linear under one publication.
* `AuthorityIInv` carries the argument that matters: `SessionsInForce` (a
  session whose revision is the host's has the host's grants and development
  flag, since both change only with the revision) and `ConfirmationsGranted`
  (a confirmation's confirmer held the power in the session it was given in).
  With the revision compared under the guard, `PublisherHoldsPower` and
  `DecisionsAreConfirmed` follow.
* `LossIsFinal` is an action argument: every publication requires the binding
  not to be unavailable, and nothing leaves that state.

`IntentRegistryProofs` proves the registry's properties for any ids,
declarations, edits and inventories, and for every scene and hand-made update.
Its invariant `RegistryInv` is that every update of the chain is well formed,
every snapshot has one entry per id, and every step replays: `apply` accepts
the update on the snapshot before and the snapshot after is exactly its result.
`ChecksSuffice` is the core: from the checks of `apply` alone (targets free,
ids fresh or held, every declaration covered) the next snapshot is well formed, so
`NeverMalformed`: the validation of the result in the code never fires.
`IdentitiesAreOneToOne` and `IdsStay` follow. `PlanInv` adds that a plan still
held names the position and the entries it was made from, whatever was published
since, which gives `PlansArePublishedAsPlanned`. `HistoriesVerify` rests on `WalkEnds`: the
answer of the walk is decided by the newest step it stops at, so a lost artifact
blocks it exactly within the limit, and past everything found only replay decides,
which no stored result but the right one survives.
`ReconciliationImplementsRegistry` maps every step to a step of the registry.

`ReconciliationProofs` first compares the code's arithmetic on ranges with what
happens to the bytes, for replacement lists of any length. The sums are a recursive function
over positions; a lemma per sum (`UptoAdds`, `ShiftOfPrefix`, `ShiftOfUnion`) is
proved by least counterexample, since the library's induction takes an operator.
`InOrder` says that a valid list lies in order before and after, `LandsBetween` where
a surviving byte lies among the inserted texts. `MovedRangesFollowText` and
`InsertedTextIsNew` follow.

It then proves the planner's six properties, for any registry that
updates made, any inventory and any inputs of their types: nothing is assumed of the
scenes. It names the parts of `Classify` and shows what each is made of
(`ExplicitMeans`, `CarriedMeans`, `AbsentMeans`, `RemainingMeans`, `DrawMeans`). The
core is `DecisionsApart`: the explicit, continued, retired and new decisions never
share an id or a declaration, because explicit ids are taken out first, a
continuation has to be the only claimant of its target, and what remains is what
nobody wants. Two counting arguments close the gaps: as many decisions were accepted
as were given, so none was dropped and a holder that has to make room does
(`HoldersMakeRoom`); and the order of the new declarations is a bijection, so each
gets a candidate (`NewOrderIsOneToOne`). `PlanPasses` then goes through the checks of
`apply`, and `ChecksSuffice` gives `PlansAlwaysApply`. `EvidenceIsSupplied` says that
the checker sees the host's edits and no others, from which both
`RetiredWereSeenToGo` and `PlannerIsProvenButForRemovals` follow: every other decision
is proven by the facts that made the planner take it, and a retirement fails only
where an edit removes the unit without replacing the declaration. The assumptions
are that declarations have ranges that are not reversed, and that inputs are finite.

`EmissionProofs` proves the three properties of emission, for
any delivery targets (distinct, at least one, as
`ResolvedDeliveryTargets::try_new` demands), keys, catalogs, references and
bounds. `TypesAndLocks` needs types and locks together: that a journal is open
from `commit` on depends on the run holding the root's lock, and the type of the
tree it installs on that journal. Four lemmas then say once what any step may
do: `StepIsLocal` (a step leaves the roots other runs lock alone),
`WorkGives` and `StepGives` (what becomes of the run's locals) and `OutputsGive`
(where a root's next tree comes from). On them rest three invariants:

* `WholeInv`: every tree in a root or a journal that is neither absent nor torn is
  the export of what one run read in full, and what a run at work would install is
  what it read, since `Prepare` lets no run with a failed file pass (`SoundRead`).
  `UnreadInv`, that a file is read once, keeps each read where history has it
  (`ReadsStay`).
* `FairInv`: the targets tried and those still to do are the selected ones, to
  the end, and no target is blocked once one was tried.
* `TruthInv`: every result recorded is honest, and for the target at hand the
  locked root is the tree found until `Install`, the run's own artifacts after, and
  what a failure puts back then is the tree found, or what remains of it once its
  removal has begun.
  With `FairInv`, which excludes an exit code 0 with a target unreported,
  `ReportsAreTrue` follows.

`ReferenceInventoryProofs` proves the three invariants of the reference inventory
for any requests (with finite sets of recognizers and calls, and groups that have a
source), any number of overlapping invocations and any faults of the store. Its
invariant is `InventoryIInv`. An entry is `Genuine` if it holds what a scan under
the goal of the key it carries would have found, and that goal is the one a
complete parse selects; the store may drop, damage or misplace entries but not
forge one, so every entry is genuine wherever it is found. `HitIsScan` is the
core: a decoded entry carries the key it was asked for, and that key fixes the
group's sources, profile, goal, recognizers and text, so an admitted entry is what a
scan would have given; the limits, which are no part of the key, are checked by the
admission. `ReusedIsDecoded` says the same of external artifacts, from the filter on
the length and the revalidation together; `SnapshotDecodesAlike` that a document
cut by the bounded read is refused as the whole would be, and `DecodedIsHeld` that
what is stored is what decoding gives. `Transparent`
then holds of every invocation at every step: what it recorded so far is what the
groups and files behind it yield without caches. One lemma per step
(`BeginMoves` .. `ExternalMoves`) shows so.

`MessageLinkProofs` proves the linker's four properties for every request. What is
assumed of requests, `RequestsAssumption`, is what the types of the Rust tables and
`ConfiguredRoot::try_new` guarantee: definitions, references and roots are finite,
keys and patterns are vectors of tokens, a pattern went through `parse_pattern`, and
no configured root is dynamic. Everything else is checked by `Admissible`, and
`LinkedAsAdmitted`, the inductive invariant, says that an outcome with plans or
findings is `Link` of an admissible request.

* `MatchingIsCovering` is about the automaton alone. After `n` tokens of the key,
  position `p` is active exactly when the first `p` tokens of the pattern cover the
  first `n` of the key, or the first `p + 1` do and the last of these is an `AnyMany`
  (`ReadsOneToken`, by induction on `n`); behind the last token only the first is left.
* `PlansCarryWhatIsAsked`: the automaton, prefixes and candidates are the meaning
  of a selector (`SelectingIsMeaning`), mapped scopes agree with declared ones
  (`SelectedMeans`), and the first hit on a chain is the nearest definition
  (`ChosenIsNearest`), unique because an ambiguity would have blocked the plans
  (`UnblockedMeans`).
* `PlannedLookupsSucceed`: every message a unit reaches has a fact
  (`FactsAlwaysSuffice`), since a scope without facts is a partial one and that
  blocks; and a fact that is empty is a finding that blocks too
  (`ResolvedReferencesFind`). Of the checks that answer `InternalInvariant` it covers
  the lookups of units, scopes and facts; those of sortedness (`outcome.rs:41`),
  capacity (`link.rs:1944`) and model relations (`model.rs:162-199`) are of
  representations the model does not have.
* `TypedKeysCoverPlans`: production keys outside the baseline withhold the model,
  chains stay within the production locales (`ChainsAreProduction`), and resolved
  baselines agree, so a key is defined once (`BaselineDefinesOnce`).
* `UnusedIsRemovable` follows one deletion through every table: the index loses
  the deleted definitions and nothing else (`PrunedIndex`), so ambiguities and what
  is selected stay (`PrunedAmbiguities`, `PrunedSelection`), the pattern budget is
  charged no more than before (`PrunedCostsNoMore`, where matching must be shown to
  cost finitely much), facts of what is reached stay (`PrunedFacts`), and so do
  blocking findings (`PrunedBlockers`) and plans (`PrunedLink`).

Every safety invariant and action property that a passing run checks is proved
for all values of the constants; three of registration under the premise that a
removal that fails has removed nothing, as said above. Only model-checked is liveness (`EveryInvocationReturns`, `EachEnds`):
fairness and ENABLED are beyond the prover.

## 5. Not modelled

Of registration: opening the parent directory component by component and the
re-verification of its identity in `verify_output_parent` (only a change from
outside the program makes it fail, and the result is then `indeterminate` or an error
before any change), here and in emission; names that collide under case folding or normalization; control
records edited by hand, whose every field `read_journal` checks; failures of the
advisory lock call itself, which end the invocation as a failed write of the
lock record does. Of the host: `read` and `analyze`, which change nothing; the
`Unchanged` and `Unresolved` results of `prepare`; establishment limits, which
only refuse `open`; guard poisoning, since no code that runs under the guard
panics.

Of the registry and reconciliation: digests and canonical bytes, owners and
scopes other than one, the byte and count limits except the history's,
cancellation (which returns and changes nothing), the comparison of sources
with their digests (an edit is given with the answer of its replay), and
the compiler of authoring artifacts. Of the reference inventory: the walk over
the syntax tree, and the bytes of cache entries. Of the linker: canonical order,
byte budgets, evidence carried in findings, and the benchmark variants. Of
emission: the definition inventory and configuration, exporter text, and reports
beyond status, state and exit code.

Of the workspace: the components marked "no" above, which are pure functions of
their input, sequential validation of files, or tooling. `fmt` is a loop of
one process over files; what a failed write leaves behind is not decided by its
code.

## 6. Plan

1. The definition inventory and the configuration it reads, as operators over
   small documents.
2. `LocalHost`'s opaque `Apply` replaced by that of `IntentRegistry`.
