# A TLA+ model of LodeDB

LodeDB is an embedded vector database: a Rust core (`crates/lodedb-core`) that
keeps an index in memory and on disk, a Python SDK over it (handles, collections,
a knowledge graph, migration), and a cloud layer (sync of a directory with a
managed store, handles that read and write such a store directly, a command
line). What is hard about it is not the search but the state: one directory
opened by several processes at once, two stores that must agree, a remote that
answers late or not at all, and a crash between any two steps. This project
models that state, checks it with TLC on small instances, and proves the
durability of the store and two properties of the sync verbs with TLAPS for every
instance.

Paths below are relative to `src/`; `engine/mod.rs` and `storage/*.rs` are those
of `crates/lodedb-core/src`, other short names those of `src/lodedb`.

## 1. The system

| part | state it keeps | hard behaviour | module |
|---|---|---|---|
| root, WAL, LSN counter, locks (`storage/`) | `<key>.commit.json`, `<key>.wal`, the counter | frames cut short; records both in the log and in the root | `StoreFiles` |
| appender (`CoreAppender`) | nothing between calls | several at once; crash between frame and counter | `Appender` |
| writer and checkpointer (`CoreEngine`, `CoreCheckpointer`) | index, generation, watermarks; the tokens of a warm base | failed commits retried, stale base, fold that fails after the watermark moved | `Engine` |
| reader (`open_readonly`, `refresh`) | a view, a cached signature | no lock: a fold moves records between two reads | `Reader` |
| generation store (`storage/mod.rs`, journals) | base files per epoch, delta journals, segments | crash or failure between any two files; readers racing the collector | `GenStore` |
| LodeDB handle (`local/db.py`, `engine/native_adapter.py`) | one engine on one worker thread, one operation lock | threads, five ways to end a handle, a log left by another mode | `LocalHandle` |
| options of a store (`local/db.py`, `local/presets.py`) | route identity, ANN and rescore choices | reopened with other arguments | `StoreOptions` |
| collection (`local/collection.py`) | `collection.json`, open spaces | processes that rewrite one manifest from what they loaded | `Collection` |
| knowledge graph (`graph/`) | SQLite topology, LodeDB index | every call spans both stores | `KnowledgeGraph` |
| migration (`local/migrate/`) | target, temporary and set-aside directories | a source edited while it is read; kills | `Migration` |
| managed sync (`cloud/transfer.py`, `lodedb-cloud-core`) | commit pointer, log, base sidecar; the remote head | two devices, lost answers, late commits, crashed restores | `ManagedSync` |
| managed store handle, client (`cloud/serving.py`, `cloud/client.py`) | pool, sequence floor, retries | a service that folds writes later | `CloudServing`, `CloudSession` |
| cloud command line (`cloud/cli.py`) | credentials, `.env`, `orecloud.toml` | what to tell the user when an answer is lost | `CloudCli` |

The rest (section 6) is listed in `PROJECT.json` as not modelled, with reasons.

## 2. The modules

```
StoreFiles ──┬── Appender ──┐
             ├── Engine ────┼── LodeStore ── LodeStoreInv ──┬── MCLodeStore
             └── Reader ────┘                               └── StoreLemmas ── proofs
AtomicStore ── GenStore ── MCGenStore
LocalHandle ── MCLocalHandle            KnowledgeGraph ── MCKnowledgeGraph
StoreOptions ── Collection ── MCCollection           Migration     CloudCli
CloudSession ── CloudServing            ManagedSync ── ManagedSyncProofs
```

The correspondence of each definition to lines of the source is the `map` of
`PROJECT.json`. Definitions keep the source's names where they have one.

### The store

**`StoreFiles`** holds what the processes share: the root, the WAL, the counter,
the four advisory locks. A mutation is a *record*: its payload is abstracted to
an identity, and an index to the set of identities whose effect it holds. The WAL
is the set of complete frames before any torn bytes (`wal`), the state of what
follows (`torn`: nothing, bytes of a frame that was cut short, or such bytes with
frames behind them that make a scan fail), and the complete frames behind, which
no scan reaches (`buried`). File order is LSN order, which `AppendAscends` checks.
A file's length is a count of frames, so a WAL that was removed can grow back to
the length another had. Two history variables record where the code leaves its own
rules: `behind` the frames a writer logged behind torn bytes, `slips` which of its
checks took one file for another.

**`Appender`** is `CoreAppender`. An append takes the shared lock (`Append`), then
the counter lock, under which it repairs the tail and reserves an LSN above
everything durable (`Reserve`), writes the frame (`WriteFrame`), rewrites the
counter and returns (`Publish`). `GiveUp` is the deadline of the counter lock or a
log that cannot be scanned, `AppendFails` a crash or an I/O error in any of these.

**`Engine`** is `CoreEngine` and `CoreCheckpointer`. A commit is two steps that
can be separated by a crash: the root swap (`Commit`) and the removal of the WAL
(`Truncate`). `task` tells whose commit it is (an open's, a persist's, a warm
open's, a reload's, a fold's), which decides what a failure leaves behind
(`PersistFails`). `LoadAndReplay` is the writable wal-mode open, shared by the
writer, the warm open and the reload. How many generations a replay adds depends
on what the records change; the model allows any number from 0 to `MaxBump`,
but not 0 when a writer's own record is replayed onto an index without it.
The bump of `engine/mod.rs:4345-4347`, for a watermark-only commit whose generation
is not past the base epoch, is not in `CommitBodies`: such a commit follows a
replay, which has clamped the generation to the new watermark, above the old one.

**`Reader`** is the read-only handle. A refresh reads the signature, then makes
attempts of four reads each (root token, base, WAL tail, root token again), any
of which may be separated from the next by steps of the others.

**`LodeStore`** composes them and states the properties. A step of the system is
a step of one process; calls that run under a lock are split wherever another
process, a crash or an I/O error can see the difference.

**`GenStore`** opens up what `Commit` treats as atomic: the files of a generation
commit, written one by one before the root that names them, and the collection of
superseded epochs after it. A document's content is the generation that wrote it;
a checksum is modelled by the content it stands for. The state journal and one
sidecar (`tvim`, standing for every journaled sidecar) are enough, because
sidecars are written one after another by the same code shape, and a commit may
touch the state without touching the sidecar. `CommitFails` is an error while the
files are written, or in the collector once the root is swapped: the commit is
published, the handle is told it failed, and its next commit writes the same base
again. `slips` records a base rewritten in place and a delta that adopts a dead
writer's segment. **`AtomicStore`** is what it promises: one content, replaced as a
whole.

### The Python SDK

**`LocalHandle`** is the `LodeDB` class over the core as its adapter shows it. A
call waits for the handle's operation lock, holds it, and for a text upsert goes
through *prepare*, *embed* and *apply*, each a step; a mutation changes memory and
in wal mode the log, and `should_persist` decides whether it commits. A handle
ends by `close`, `discard`, garbage collection with its finalizer, interpreter
exit or a crash; `refs` counts who still references the engine, because it may
only be dropped on its own worker. The `Appender` and `Checkpointer` classes work
on the same directory. `Recoverable` is what the next writer finds. A frame may be
cut short, and what a wal-mode writer logs after it counts as tried, not as
acknowledged.

**`StoreOptions`** are pure operators: the route identity that arguments resolve
to, which arguments are accepted, and what a reopen makes of ANN and rescore
arguments beside the persisted ones. **`Collection`** extends it with processes
that hold a registry, create or reopen a space, and publish it by merging into
the manifest under the root lock.

**`KnowledgeGraph`** represents a call by the list of its steps, each one SQLite
transaction or one index commit, taken one at a time. What a node or edge is found
by is a text or a vector; `meaning` and `fact` are history variables that say what
the caller last gave. `k_hop` is an operator over a list of edges.

**`Migration`** covers inspection and planning as operators and the run as steps:
open the source, write batches page by page, reopen, validate, write the manifest,
set the old target aside, move the new one in, remove the old one. A target
directory may hold files that are no store: it is not refused, and the move then
lands inside it (`Place`, `Moved`).

### The cloud

**`ManagedSync`** models devices that share one remote store. A commit is an
identity with its generation, the writes it holds and the payload stores it
carries. `classify` is the lineage decision of `sync_plan.rs`; a push sends a
compare-and-swap, which may be refused, lose its answer or arrive late
(`DeliverLate`); a restore takes the writer lock, checks its pin, swaps the
pointer, truncates the log, records the base. The control plane is external.

**`CloudSession`** is what comes before and after a call: the target and tenancy
that `connect` resolves, the pool it opens, the `Client` that lends its own.
**`CloudServing`** extends it with the handle's calls against a service that keeps
a log of accepted writes and a snapshot folded from it later. The service is
external, modelled from the answers `serving.py` distinguishes: 404 before the
first fold, 425 until the fold reaches the floor, coded 409s, 403, a control plane
that ignores the `ids` field, TTL-hidden documents.

**`CloudCli`** gives each command as the sequence of requests and local steps it
makes, for a personal and for a bound credential; one set of actions (`Answered`,
`Refused`, `NetworkFails`, `Kill`, ...) runs any of them. A 5xx or a lost answer
may come after the change was made. Another terminal may log in or out meanwhile,
and tokens expire.

## 3. What is checked

| run | instance | question |
|---|---|---|
| `Appends` | 2 appenders, wal-mode writer, checkpointer, 3 records, 1 fault, torn frames | `AckedDurable`, `LsnUnique`, `AppendAscends`, `CommitKeepsBase` |
| `Reads` | appender, writer of either mode, reader, 2 records | `ReadYourWrites`, `RefreshIsFresh` while records move from the log to the root |
| `Folds` | 2 appenders, generation-mode writer, checkpointer, 2 records, 2 faults, torn frames, fairness | `AckedDurable` behind repairs; `AckedFolded`: every acknowledged append reaches the root |
| `Generations` | 2 documents, 3 generations, 1 fault, reader | `RootIntact`, `ReaderExact`, `ReaderServed`, and refinement of `AtomicStore` |
| `Handle` | 2 processes, 2 threads, 1 document, 3 calls, 1 fault | `AckedSurvives`, `PlanFresh`, `DroppedAtHome`, `NoCallStranded` |
| `Spaces` | 2 processes, 2 spaces, 4 calls, 1 fault | `SpacesKept`, `ManifestTrue`, `LocksAccounted`; the option operators against every argument (`OptionsKept`) |
| `Graph` | 2 nodes, 1 edge, 3 calls, 1 crash | `IndexFollows`, `ReindexRestores`; `KHopExact` on every graph of 3 nodes and up to 3 edges |
| `Migrate` | 3 rows, pages and batches of 2, 2 runs, 1 edit, 1 flaw (an unusable row, a failed write), fairness | `PublishedComplete`, `TargetKept`, `RunEnds` |
| `Sync` | 2 devices, 2 payload stores, 2 writes, 4 calls, 1 fault, 1 force | `NothingLostSilently`, `BaseWasPublished`, `UpgradeOnlyAdds` |
| `Serving` | 2 documents, 2 calls, 2 writes, 1 retry, fairness | `WrittenOnce`, `SessionReadsOwnWrites`, `GetTextsExact`, `WalkExact`, `CallsReturn`; `PoolsHeld`, `ConnectedAsNamed` |
| `Cli` | 2 control planes, 2 environments, 5 tokens, 3 commands | `RotateHonest`, `KeysNeverAccumulate`, `LinkedKey` |
| `StaleBase` | appender, writer, checkpointer, 2 records, no fault | `FoldNeverClobbers` is violated (below) |

Each property is stated in words above its definition. Every property of a passing
run has a mutant in `PROJECT.json`: a plausible bug in one definition (a dropped
clamp, a skipped scan, an idempotency key made per attempt) under which it fails.
The mutated forms stand before the definitions they replace and are used nowhere
else.

Some invariants are stated in the modules and are not part of a run's list: the
type invariant `TypeOK` of each module, the inductive invariant `IndInv`
(`LodeStoreInv`), `IdentityHeld` (`LocalHandle`) and `SubmittedOnce`
(`CloudSession`). They hold on the instances above too; adding them to the cfg of
the module's run repeats that.

### Exceptions

The code breaks some of its promises in known ways. They are not assumed away:
every such case is part of the model, a history variable records when it happens,
and the property says what holds unless it has. So the runs also show that there
is no further way.

| recorded as | what happens | excepted in |
|---|---|---|
| `"base" \in slips` (`LodeStore`) | a checkpointer takes the tokens of a root that a writer committed after its warm load (`engine/mod.rs:3532`); its next fold drops that commit | `AckedDurable`, `LsnUnique`, `AppendAscends`, `CommitKeepsBase`, `ReadYourWrites`, `AckedFolded` |
| `"length" \in slips` (`LodeStore`) | the WAL was removed and has grown back to the length the counter vouches for (`engine/mod.rs:3423`); the LSN of an unscanned frame is minted again | `LsnUnique`, `AppendAscends`, `ReadYourWrites` |
| `behind` (`LodeStore`) | a wal-mode writer goes on after a failed append left part of a frame (`engine/mod.rs:1969`); what it acknowledges goes behind bytes the next open discards, and is lost unless it persists first | `AckedDurable`, `LsnUnique`, `ReadYourWrites`, `RefreshIsFresh`, `AckedFolded`; likewise `AckedSurvives` in `LocalHandle` |
| `~Scannable` | its frames complete the torn one with a wrong checksum: every scan, and so every open and fold, fails | `AckedFolded` |
| `"in place" \in slips` (`GenStore`) | the handle that created the store counts from 0 and rewrites the base of generation 1 (`engine/mod.rs:4348`) | all four of `Generations` |
| `"adopted" \in slips` (`GenStore`) | a writer that reopened after a crashed delta appends to the journal it left and publishes the orphan segment (`storage/state_journal.rs:347`) | all four of `Generations` |

After a slip `Generations` explores no further (`CONSTRAINT BeforeSlips`): nothing
is claimed there. `RefreshIsFresh` says of a refresh that keeps its view only what
appenders acknowledged, while the counter can be read: an append moves the counter,
which is in the signature, and a wal-mode writer's mutation does not.

### Bounds

- Store. Three records are the fewest that let two appenders and a writer each
  hold one, or one be in the root, one in the tail and one in flight; one fault
  separates every pair of consecutive steps, two let a torn frame be repaired and
  torn again. `Appends` has the wal mode, in which a writer's records are at stake
  before they are committed; the generation mode beside a checkpointer is in
  `Folds`, both modes are in `Reads` and in the proofs. `MaxAttempts = 8` is the
  bound of `refresh`'s own loop; with two records there are fewer commits than
  attempts, so `Reads` never reaches the last attempt, which is another matter
  (below). A reader sees a fold as a commit and then a truncation whoever makes
  it, so the writer's folds stand for the checkpointer's there.
- `Generations`. Three generations allow a base with two deltas, or two base
  rewrites that make the collector remove an epoch (`Retained = 2`); two documents
  let a delta leave one alone. With one document and `MaxGen = 4`, where a
  compaction follows two deltas (`MaxSegments`), and with `MaxCrashes = 2`, the
  properties hold too (14 and 19 million states, too long for a run to keep).
- `Handle`. Two processes and two threads make every pair of a call with an end of
  its handle, an open, an append or a fold. One document is enough where every
  call names it; batches are sets of documents.
- `Sync`. Two writes and two commits make two devices diverge; four calls let each
  act, fail and act again. Force and rollback are counted apart so that a loss on
  purpose cannot use up the run.
- `Serving`. Page size 1 and two documents put a page boundary inside every walk.
  The session opens before its calls, and a handle borrowed from a `Client` makes
  one call: what a call does depends on the handle, not on who owns its pool.
- `Migrate`. Pages of 2 over 3 rows give a full and a short page; two runs make the
  second one meet what the first left, killed or not.
- `Cli`. Three commands suffice for a run cut short, its re-run, and a look at the
  result; five tokens for a login and a key in each environment. A command of
  another terminal counts as one of the three. Two `init`s at once are not
  modelled.

Handles, threads, appenders, devices and payload stores are interchangeable, and
runs without liveness use that symmetry. Behaviours of most runs end when their
bounds are used up, so deadlock is not an error there; `Spaces` never comes to rest
and leaves the check on.

### Fairness

- `Folds`: a call in progress goes on (weak fairness of the steps inside a call).
  `OpenWarm` and `StartCheckpoint` poll for the writer lock
  (`PersistentLock::acquire_lock` tries every 25 ms until
  `LODEDB_PERSIST_LOCK_TIMEOUT`, and `checkpoint` is documented to be driven "on a
  loop or a timer"), which other processes take and release in between: strong
  fairness says that a poll repeated for ever meets the lock free if it is free
  again and again. A checkpointer that was closed or crashed is started again.
  Nothing is assumed of appenders or writers beginning a call.
- `Serving`: the blocking call takes its steps; a request without an answer ends by
  its timeout. Nothing is assumed of the service.
- `Migrate`: the run takes its steps, unless it is killed. Nothing is assumed of
  the source.

### Disagreements between the code and its documentation

`StaleBase` reproduces one as a run, and `findings` quotes the sentence: a writer
commits between the checkpointer's warm load and its read of the tokens, and the
next fold drops that commit, where `engine/mod.rs:3547-3548` says it "cannot clobber
that writer's commit".

The others are the exceptions above and what the same modules show when a constant
or a property of a run is changed. Each was checked with TLC.

| to see it | what happens |
|---|---|
| `Appends` with `AckedDurable` without `\ behind` | a writer's acknowledged record is lost behind a torn frame. `README.md:754-755` speaks of the torn record alone: "a half-written trailing record is discarded" |
| `Generations` with `RootIntact` without `slips = {}` | the creating handle rewrites g1 in place, in 4 states; `docs/architecture.md:150-152`: bases are "never overwritten in place". A reopened writer's delta adopts an orphan segment, in 15; 152-154: the writer rolls back, "dropping the uncommitted artifacts" |
| `Reads` with `RefreshIsFresh` without `~a.own` | a record of a wal-mode writer is missed by a refresh whose signature did not change; `engine/mod.rs`, `refresh_signature`: "Equal signatures across two refreshes mean nothing the overlay folds moved" |
| `Reads` with `Ckpts = {c1}`, `MaxRecs = 3`, `MaxAttempts = 2`, `Modes = {"generation"}`: `ReadYourWrites` | the last attempt of a refresh is kept although the root moved during it (`engine/mod.rs:2663`); two attempts instead of eight only keep the race short. `docs/architecture.md:312-313`: "a checkpoint racing the refresh cannot drop committed records" |
| `Folds` with `AckedFolded` without `[]<>ExclusiveFree` | calls of two appenders that overlap without end keep the shared lock taken, and a checkpointer that polls for the exclusive one never folds; no sentence promises otherwise |
| `Graph` with `ReindexFaithful` | a node's label is blanked and the removal of its document is cut short; a rebuild leaves the old document (`graph/knowledge_graph.py:684-696`), where the comment at 655-671 says "never a silent corruption" |
| `Spaces` with `RecordedOnce` | a creator whose registry is older than another's publish overwrites that record's flags (`local/collection.py:399-401`), against 118-120 |

Three more are visible in the definitions without a run. `--resume` replaces the
target (`SetAside`, `local/migrate/runner.py:902-912`), where `local/migrate/cli.py:81`
says "Write into an existing target path."; a target directory without a
recognised store is not refused, and the new store is moved inside it (`Place`),
where the docstring of `_atomic_move` says the caller refused a collision; failures
of `init` inside `_agents_repo_token` exit with 1 whatever their class
(`Within_run`), where `cloud/cli.py:13-17` lists a code per class.

## 4. What is proved

`LodeStoreProofs`, for every set of appenders, writers, checkpointers and readers,
every number of records and crashes and every replay bump:

| theorem | statement |
|---|---|
| `Durability` | `Spec => []AckedDurable` |
| `CommitsKeepBase` | `Spec => CommitKeepsBase` |
| `Invariant` | `Spec => []IndInv` |

in both commit modes and with frames cut short. They are unconditional: nothing is
assumed beyond the `ASSUME`s of `StoreFiles`, `Engine` and `Reader` (the kinds of
processes are disjoint, bounds are naturals, `None` is not a value). The two
exceptions are part of the properties: records in `behind`, and behaviours from
the step on in which a checkpointer takes the tokens of a root it has not loaded,
which `StaleBase` shows to be real.

`ManagedSyncProofs`, for every set of devices and payload stores and every bound,
from no assumption at all:

| theorem | statement |
|---|---|
| `BasesPublished` | `Spec => []BaseWasPublished` |
| `UpgradesAdd` | `Spec => UpgradeOnlyAdds` |
| `SyncInvariant` | `Spec => []SyncInv` |

### The inductive invariant of the store

`AckedDurable` is not inductive. It says that the root and the tail together hold
what was acknowledged; a step that swaps the root or removes the WAL keeps that
only if the engine that takes it has the right index in memory. `LodeStoreInv`
states what is needed, in named parts:

- *locks* (`AppendersLocked`, `EnginesLocked`): who is inside a call holds the
  lock it took, so the WAL does not change under an engine, and appenders add to
  it one at a time;
- *the tail* (`TailAboveRoot`, `AckedKept`, `AppendsSound`): a WAL record that is
  not in the root is above the root's watermark, so a replay that starts at the
  committed generation accepts it. One exception is real: the seed commit is
  published as generation 1 while the index that made it is still at 0, so the
  first mutation has the LSN of the root's own watermark. This is why the open
  replays inclusively, and why no warm engine, which folds exclusively, may
  exist then (`NoWarm`);
- *the holder* (`HoldersCover`): the engine that holds the lock has in memory
  what the root and the tail hold, and has something to commit unless the root
  already has the tail. This makes the removal of the WAL safe, the one that
  follows a commit with nothing to write included;
- *the warm engine* (`WarmMatches`): the index a fold goes onto is exactly the
  root on disk; the tokens of a checkpointer whose reload failed name a root that
  is gone for good, so it reloads again. Roots only move forward (`Before`), so
  a token that once differs from the root differs for ever;
- *torn bytes* (`NotBuried`): no appender completes a frame behind torn bytes; a
  writer that does has its record in memory, and in `behind`.

`IndInv` is this conjunction, or `"base" \in slips`. The latter is stable, and
every step that does not establish it preserves the former. TLC confirmed `IndInv`
on the instance of `Appends` before it was proved.

### The inductive invariant of the sync verbs

A base is recorded several steps after the head took it, by a device whose plan
may be old. `SyncInv` therefore speaks of the verb in progress: what a device has
published or downloaded was at the remote (`Held`), and a sync about to publish
the commit it saw at the head carries every store the head had (`Upgrades`). The
compare-and-swap makes the second fact about the head it *saw* one about the head
it *replaces*; that `classify` never decides otherwise is the lemma
`PublishedUpgrades`.

### Layout

`StoreLemmas`: maxima, frames and replay. `AppenderProofs`, `WriterOpenProofs`,
`WriterProofs`, `CheckpointerProofs`, `CommitProofs`: one lemma per action, that
it preserves `Inv`, with one step per part it can disturb. `LodeStoreProofs`: the
failures, the readers, the initial state, and the theorems. `Commit`,
`Truncate` and `PersistFails` rest on `RootSwap`: whatever root a holder
publishes, base rewrite or delta, is after the last one and holds the tail.
`RootAdvances` is the same fact for every step, and gives `CommitsKeepBase`.
`ManagedSyncProofs` has one lemma for any step of a verb (`StepKeeps`), and one
per action that says what its new record is.

Each leaf names its prover where only one of them finds the proof.

## 5. What is only model-checked

- Liveness under fairness (`AckedFolded`, `CallsReturn`, `RunEnds`) and
  `NoCallStranded`, which speaks of ENABLED: beyond the prover.
- The refinement of `AtomicStore`, which folds over a journal of any length, and
  `KHopExact`, `WalkExact`, `GetTextsExact`, which fold over lists: they need
  induction over data, beyond it too.
- `LsnUnique`, `AppendAscends`, the readers' properties, `NothingLostSilently` and
  the invariants of the SDK, migration and command-line modules: checked on the
  instances above and not proved.

## 6. What is left out

Inside the modules:

- The bytes of frames, manifests and counters. A frame is complete or torn, a
  checksum is the content, a torn counter reads as none.
- Loss of completed writes at a power failure: a write that returned is kept. The
  `fsync` policy (`durability` option) is not modelled.
- Several index keys in one directory. They share the locks and nothing else.
- Windows, where a shared lock is exclusive: fewer interleavings, not more.
- `ManagedSync` uploads and downloads all blobs in one step: they are addressed by
  content, and no pointer is written until all are there.
- `CloudServing` handles one call at a time, as the class does; deadlines are a
  choice to stop at any moment.
- The retry loop of a read that is answered 425 (`cloud/serving.py:201-211`) is
  one wait that may end at any moment; that its deadline comes is assumed.
- `ManagedSync` leaves out the journal manifests that a restore rewrites last
  (`managed.rs:466`; a death just before leaves those of an older lineage beside the
  restored root), `shared_store_conflict`, the match by a legacy redacted id, and
  the refusal to push a topology that embeds text.
- `Migration` validates by the counts of `_read_back_counts`; the sampled comparison
  and the audit behind it (`runner.py:734-753`) can only fail a run that passes
  here.
- `LocalHandle` counts the references of the holder, the calls and the finalizer;
  those a traceback or a bound method keeps (`local/db.py:207-210`) are left out.
- `KnowledgeGraph` is about complete calls in `IndexFollows`; what a cut-short call
  leaves is the matter of `ReindexRestores`, which excepts a blanked label.
- Wording, progress output and tables of the command lines.

Not modelled:

- `.tvvf` (`storage/tvvf_store.rs`): a folding and collection protocol of its own,
  for which `GenStore`'s sidecar does not stand; `.tvann` is a cache, rebuilt when
  missing.
- Filters, lexical search, rank fusion, vector and GPU scans, quantisation: pure
  evaluation, mostly over floating-point numbers, which TLC does not have.
- Chunking and embedding: string handling and model inference. An embedder that
  raises is part of `LocalHandle`.
- The native graph crate and `graph/temporal.py`, segments, late interaction: the
  first is what other bindings use for what `KnowledgeGraph` models, the last a
  handle with the discipline of `LocalHandle`.
- Transfer to plain directories and buckets, sealing, the scaffold of `init`,
  servers, integrations with other libraries, `doctor`, the Python storage oracle,
  the C and Swift bindings: request I/O, marshalling, generated text, or the same
  formats a second time.
