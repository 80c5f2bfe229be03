# TLA+ models of sous: reconciliation engine and desired-state store

This directory holds TLA+ models of parts of sous and the TLC
configurations that check them. sous reconciles the desired deployments
declared by operators with what a cluster scheduler (Singularity)
reports. `spec.md` describes the engine. The source files under `src/`
are a slice of the repository. Some parts of the engine are under `src/`
and are modelled from the code. The others (the diff engine, the queue
set, the rectification and the loop) are not under `src/`, and their
definitions are modelled from `spec.md` and marked `spec_modelled` in
`PROJECT.json`.

## 1. Inventory

### Components, their state and operations

| Component | Code | State | Operations |
|---|---|---|---|
| Deployment model | not under src/ (spec §3) | `Deployments`: a set keyed by DeploymentID (cluster, repo, dir, flavor) | snapshot, diff |
| Diff engine | not under src/ (spec §4.1) | none (pure) | `Diff(current, next)`: each ID becomes Added, Removed, Same or Modified |
| Resources | `src/lib/resources.go` | a `map[string]string`; `MissingResourceFlaw` holds the map itself | `Cpus`, `Memory`, `Ports` (parse, with a default when parsing fails), `Equal` (tolerant), `Validate`, `Repair`, `Clone`, `AddContext`, `String` |
| Rectification | handler in `src/graph/server.go:240-247`; state machine not under src/ (spec §4.2) | Created → Started → Succeeded/Failed, or Cancelled | `Begin` (PostRequest+Deploy, Deploy, or DeleteRequest, chosen by the diff kind), `Wait` |
| Scheduler test double | `src/lib/dummy_rectification_client.go` | `Created`, `Deployed`, `Deleted` slices | `Deploy`, `PostRequest`, `DeleteRequest` (each appends a record) |
| Per-resource queue set | not under src/ (spec §4.3); `NewR11nQueueSet` wiring in `src/graph/server.go` | ID → queue (one item in flight, one pending) | `Push` (create, coalesce, replace pending), worker loop, teardown |
| Reconciliation loop | not under src/ (spec §4.4) | cycle in progress, report history | read desired and observed state, diff, filter, push, collect |
| Desired-state store, write path | `src/ext/storage/postgresstatemanager_write.go` | Postgres tables `deployments` (append-only; the highest `deployment_id` per deployment is current; removals are `decommisioned` tombstones), `components`, `clusters`, `owners`, `component_owners`, `envs`, `resources`, `metadatas`, `volumes` | `WriteState`: begin at repeatable read, `loadState`, diff, ten INSERTs, commit; deferred rollback |
| JSON put-back | `src/lib/putbackjson.go` | none (it mutates its arguments) | `putbackJSON`, `applyChanges` (recursive three-way apply), `same` (recursive deep equality) |
| CLI errors and program entry | `src/cli/errors.go`, `src/main.go` | the exit status, the deferred log flush and panic banner | `main`, `action`, `handlePanic`, `ErrorResult`, `ExitCode` |
| Wiring, log messages, image builder, tests | `src/graph/server.go`, `src/util/messages/messages.go`, `src/ext/docker/splitcontainer_runnablebuilder.go`, `*_test.go` | none the engine depends on | see §5 |

### How the components interact

1. The loop reads desired state from the store and observed state from
   the scheduler.
2. It diffs the two and pushes each in-scope diff into the queue set.
3. The queue set's per-ID worker runs the handler in `server.go`, which
   calls `Rectification.Begin` and then blocks in `Wait`. `Begin` calls
   the scheduler capability, whose test double is
   `DummyRectificationClient`.
4. Outcomes flow back to the loop.

Desired-state edits go through `WriteState`. It diffs the new state
against the persisted one inside the transaction and writes rows for the
difference only. The `Resources.Equal` comparison decides, inside the
diff, whether a deployment is Same or Modified. It therefore decides
both what the loop rectifies and what the store writes.

### What makes it hard

- **Concurrency.** Many server requests call `WriteState` at once. Each
  runs in its own repeatable-read transaction, whose snapshot is taken by
  its first statement. The rows of one write are only ever inserted. So
  the only conflicts between two writers come from the `ON CONFLICT`
  clauses on `components` and `clusters`.
- **Partial failure.** Any of the ten statements, and the commit itself,
  can fail. Two of the statements swallow their error (`return nil`).
- **Ordering.** Which row is current depends on `deployment_id`, which
  follows insertion order, not commit order. The child rows find their
  deployment through a `max(deployment_id)` sub-select.
- **Numeric edges.** `Resources.Equal` has to cope with strings that do
  not parse, NaN, and int32 range.
- **In the spec-modelled parts** (planned): per-ID serialisation with
  coalescing of pending pushes, waiters on superseded pushes, workers
  racing on a shared scheduler double, and convergence under repeated
  failures.

### What makes each component correct

- **Store.**
  - A nil return means the write is applied.
  - An error means nothing of it is visible.
  - Read-back returns what was written, tombstones and re-adds included.
  - An unchanged state writes no deployment row.
  - Each deployment holds its last committed write.
  - Child rows hang off their own deployment row.
  - Concurrent writes are serializable: the spec claims this, and the
    code does not provide it.
- **Resources.**
  - Maps that mean the same are `Equal` (the tolerance).
  - `Equal` maps mean the same. The spec's example expects this, and the
    code does not provide it.
  - A repair never changes what is deployed.
- **Queue set** (planned).
  - At most one rectification is in flight per ID.
  - Superseded pushes never run.
  - At most two rectifications run per burst of pushes.
  - Every pusher is eventually answered.
- **Loop** (planned).
  - Once desired state stops changing and the scheduler stops failing,
    observed state converges to desired state.
- **Diff** (planned).
  - It is a total partition of the IDs.
  - Swapping its arguments swaps Added and Removed.
  - `Diff(D, D)` is all Same.

## 2. Plan

Modules in order of importance. The store comes first: it is the part
of the core whose code is here, and where concurrency bites.

1. **PGStateWrite** (done): the `WriteState` transaction with concurrent
   writers. **StateStoreAbstract** (done) is its atomic promise, and
   the one-writer store refines it.
2. **Resources** (done): the tolerant equality and the flaw repair.
3. **R11nQueue** (done): the per-ID queue set (spec-modelled) with
   the `server.go` handler (`Begin` then `Wait`) and
   `DummyRectificationClient` as the scheduler. **R11nQueueAbstract**
   (done) is the abstract queue (one atomic lifecycle step at a time,
   latest diff wins), and R11nQueue is checked to refine it. Still to
   come: the Failed outcome of a client that can return errors.
4. **Diff**: `Diff(current, next)` as an operator, using
   `Resources!Equal` for the resources field. It is checked against a
   reference classification over all pairs of small states: totality,
   the swap symmetry, idempotence.
5. **Reconcile**: the loop composing Diff, R11nQueue and a scheduler
   that may fail. Convergence (`<>[](observed = desired)` once desired
   is stable) is checked under weak fairness of the loop and the
   workers. So is the refusal to start a cycle while pushes are
   outstanding.
6. **PutbackJSON** (done).
7. **CLIExit** (done): one run of the binary (`main`, `action`,
   `handlePanic`) with the `ErrorResult`/`ExitCode` mapping.

## 3. Modules and how they correspond to the code

### PGStateWrite.tla (+ MCPGStateWrite.tla)

It models `WriteState` and `storeManifests` in
`src/ext/storage/postgresstatemanager_write.go`. Each writer is a
caller of `WriteState`, and `pc[w]` is the step it is at:
`idle → load → components → clusters → depUpdates → depDeletes → owners
→ component_owners → envs → resources → metadatas → volumes → commit`.

- `BeginTx`: `m.db.BeginTx` at repeatable read (lines 16-23). It either
  opens a transaction or returns "opening transaction".
- `LoadState`: `state.Deployments()` and `loadState` (lines 43-56). They
  take the snapshot, and may fail with "storing state". `loadState` is
  not under src/: `PersistedState` says that a deployment's state is its
  visible row with the highest `deployment_id`, and Absent if that row
  is a tombstone.
- `Updates`, `Deletes`, `AllDeps`: the switch over the diff (lines
  57-72).
- `InsertComponents`, `UpsertClusters`: the two `ON CONFLICT` inserts
  (lines 82-104). They use the Postgres repeatable-read behaviour the
  code relies on (`LockedFor`, `ConflictFor`):
  - a row another open transaction wrote is waited on;
  - a row written by a transaction that committed after the snapshot
    raises a serialization failure.
  `DO NOTHING` on `components` conflicts only on components the
  transaction cannot see. `DO UPDATE` on `clusters` writes every
  cluster of `alldeps`.
- `UpsertClusters` takes one cluster row per step. Postgres locks the
  rows of a multi-row insert in the order of its `VALUES` list. That
  order comes from `ds.Snapshot()`, a Go map, so it is arbitrary, and
  the step picks any row of `Pending(w)` (lines 272-275). A row that
  another open transaction holds makes the writer wait: `waitFor[w]`
  names the row. Once the lock is free, the writer either writes the
  row or, on a serialization failure, aborts. An aborted transaction
  releases its locks at once (`InProgress` leaves it out).
- `DeadlockDetected`: two writers that share two clusters can each
  hold one row and wait on the other. `WaitsFor` is the waits-for
  relation, and `TransitiveClosure` (community module Relation) finds
  a cycle through the writer. Postgres then fails the statement of
  one writer on the cycle with "deadlock detected" (line 282). The
  error returns from the clusters `execInsertDeployments`, so
  `storeManifests` swallows it, and the `Commit` fails. The resulting
  state is the same as that of a clusters `StmtError` taken while
  waiting.
- `InsertDeployments`: the active rows for updates and the
  `decommisioned` rows (with the prior configuration) for deletes
  (lines 106-140). Each row takes the next `deployment_id`.
- `InsertOwners`: `owners` and `component_owners` (lines 142-161).
- `InsertChildren`: the four tables addressed through `depID` (lines
  163-226). They record which deployment row each child row hangs off.
- `SkipStmt`: `execInsertDeployments` issues nothing when it has no rows
  (lines 272-278).
- `StmtError`: a statement fails, and the server aborts the
  transaction. For components and clusters the code returns nil and
  goes on to `Commit`. For every later statement it returns the error,
  and the deferred `Rollback` ends the transaction (`Fail`).
- `Commit`: `tx.Commit()` (lines 34-39). On a transaction the server
  has aborted, lib/pq rolls back and returns an error. Otherwise the
  commit may succeed or fail.

Abstractions:

- Column values, SQL text and logging are left out. A deployment's
  configuration is a model value in `Configs`.
- Owner e-mails are not modelled, so their `ON CONFLICT` serialization
  failures are covered by the free statement failure.
- `Potent` is modelled as "has deployments". A deployment is assumed to
  have at least one env, resource, metadata and volume row.

The history variables `lastWritten` and `written` exist
only for the properties.

### StateStoreAbstract.tla

It states what the store promises (spec §4.5 and §5). `WriteState(S)`
is one atomic step. `Call` starts a call and `Refused` fails it before
it starts. `Apply` makes `S` the persisted state and returns nil.
`Abort` returns an error and leaves the persisted state as it was.

PGStateWrite instantiates it as `Atomic`. The mapping is:

- `persisted` is `Persisted`, what `loadState` reads from committed
  rows;
- `calling` is the writers not idle;
- `req` is `new`, and `result` is `result`.

`BeginTx` is `Call`, or `Refused` when it fails. The successful
`Commit` is `Apply`. Every failing step is `Abort`. Every other step is
a stutter, because rows of an uncommitted transaction are not
persisted. With two writers the refinement fails at a commit after a
write skew, the same behaviour as the store_serializable run, so it is
checked with one writer.

### Resources.tla

It models `src/lib/resources.go`.

- `Cpus`, `Memory`, `Ports`: parse the string and fall back to the
  defaults 0.1, 100 and 1.
- `Differ`: `math.Abs(a-b) > 0.001`, where every comparison with NaN is
  false.
- `Equal`: lines 150-174.
- `Validate`: lines 80-103.
- `Repair`: lines 74-78.

`strconv.ParseFloat` and `ParseInt(s, 10, 32)` are modelled by what
they return for every string the model uses. An ASSUME checks that each
such string is either a number the table knows or a string the parser
rejects. Numbers are fixed point with four decimals, which is exact for
every value used. The state is the desired and the observed map of one
deployment. They are edited to any value of small per-key sets
(`SetResource`, `DropResource`) and repaired one flaw at a time
(`RepairFlaw`).

### PutbackJSON.tla (+ MCPutbackJSON.tla)

It models `src/lib/putbackjson.go`. A JSON value is a leaf (a scalar
model value, `Null`, or an array `[items |-> s]`) or an object, a
function from keys to values.

- `Same`: `same`, lines 74-118. It compares objects key by key in both
  directions and arrays by length and then element by element. Any
  other value is compared with `==`.
- `ApplyChanges`: `applyChanges`, lines 31-72, as a RECURSIVE operator
  that returns the new target or `Panic`. `Step(k)` is one iteration
  of the loop over `changed`. `TargetSub` (lines 54-57) replaces a nil
  target sub-object by `{}`. `Remaining` (lines 66-69) is the set of
  keys of `base` still there after the loop, which the last loop
  deletes from the target. The unchecked casts of line 59 and the nil
  target of line 33 are panics.
- `PutbackJSON`: `putbackJSON`, lines 11-28. A document that is not an
  object or `null` fails to decode, and the code panics on it. `null`
  decodes to a nil map, which reads as empty and panics as a target.

The state is the three documents, chosen in `Init` from every document
of the instance, and the result of the one `Putback` step. `Done`
keeps the returned result.

### R11nQueue.tla (+ MCR11nQueue.tla)

It models the per-resource queue set and the rectifications its
workers run. The queue set and `Rectification` are not under `src/`,
so they are modelled from the spec (§4.2, §4.3).

- `Push` is atomic on the identity-to-queue table. It creates the
  queue, or replaces the pending item and Cancels the old one, or
  becomes the pending successor of the in-flight item.
- `Begin` and `Finish` are the handler of `graph/server.go` lines
  52-58. The worker pops the pending item and calls
  `Rectification.Begin`. `Wait` returns when the calls are done, and
  then the outcome is published. The worker then takes the next item,
  or tears the queue down if there is none.
- `Calls(kind)` lists the client calls each diff kind makes.
- `ClientRead` and `ClientAppend` are one `t.X = append(t.X, ...)` of
  `DummyRectificationClient` (lines 64-100). The read of the slice and
  the store of the longer slice are two steps. Nothing orders them
  between workers, since there is no lock, so another worker may store
  in between and its record is lost. This is the outcome the Go data
  race can produce.

### R11nQueueAbstract.tla

It states what the queue set promises (spec §4.3), with no queues,
workers or client calls. Its one variable is `pushes`, the
QueuedR11ns.

- `Push(d, kind)` appends a push and Cancels the waiting push of `d`.
- `Start(d)` starts the waiting push of `d` when none of `d` runs.
- `Complete(d)` makes the running push of `d` Succeed.
- `Spec` has weak fairness of `Start(d)` and `Complete(d)`.

R11nQueue instantiates it as `Abs` with `pushes` mapped to itself, and
`QueueRefinesAbstract == Abs!Spec` is a property. Each `Push`, `Begin`
and `Finish` of R11nQueue is one abstract step. The client calls,
teardown and `Quiescent` are stuttering steps. The abstract fairness
follows from the weak fairness of each worker.

### CLIExit.tla

It models one run of the binary: `main`, `action` and `handlePanic` in
`src/main.go`, and `ErrorResult` and `ExitCode` in `src/cli/errors.go`.

- `Init` chooses what the run meets. Each of `Inject` and
  `NewSousCLI` succeeds, fails or panics. The command succeeds, panics
  or returns an error of one of seven dynamic types: the five Result
  types, a bare `cli.Error`, or another package's error. `DEBUG` is
  set or not. These calls are not under `src/`, so they are inputs.
- `Inject` is lines 27-40. An error returns 70 before `AtExit` is
  deferred. Success defers it.
- `NewSousCLI` is lines 42-47, which return 70 on an error.
- `Invoke` is line 49, through `InvokeExitCode`: 0 for a success,
  otherwise `ExitCode(ErrorResult(err))`.
- `Return` and `PanicOut` leave `action`, and both run its deferred
  `AtExit`.
- `MainExit` is `os.Exit(action())`, which runs no deferred function
  of `main`.
- `HandlePanic` is lines 52-62. It prints the banner unless
  `DEBUG=YES` and does not recover, so the runtime exits with 2.
- `Error`, `UserTip` and `Pre` only format messages and are left out.

## 4. Runs

| Run | Module / cfg | Expect | What it shows |
|---|---|---|---|
| store_sequential | MCPGStateWrite / PGStateWrite_sequential.cfg | pass | One writer, three WriteStates of any of the 9 states of 2 deployments, with any statement failing. `StoreRefinesAtomicWrite`: WriteState refines StateStoreAbstract, so the persisted state changes only when a call returns nil, and then to exactly its state. This covers reading back what was written through tombstones and re-adds. 232k states. |
| store_concurrent | MCPGStateWrite / PGStateWrite_concurrent.cfg | pass | Two writers, three transactions, symmetry over writers, configurations and clusters. `OkMeansApplied`: nil means committed with every changed deployment written, and an error means never visible. `LastWriterWins`: each deployment holds the configuration of the last committed write to it. `ChildRowsFollowDeployment`: child rows of a committed write point at that write's own row. Cluster rows are locked one at a time in any order, so the writers can deadlock and one is aborted. 1.7M states, about 40 s. |
| store_serializable | MCPGStateWrite / PGStateWrite_serializable.cfg | violation | `PersistedIsAWrittenState` fails. Both writers load (v1, v1). One sets c1 to v2, the other sets c2 to v2. The writes are on different clusters, so there is no conflict, and both commit. The store then holds (v2, v2), a state neither wrote. |
| store_error_report | MCPGStateWrite / PGStateWrite_error_report.cfg | violation | `StoreErrorReportedAsStoring` fails. The components insert fails, `storeManifests` returns nil, and Commit fails on the aborted transaction. The caller sees "committing transaction" instead of the storing error. |
| resources_equality | Resources / Resources_equality.cfg | pass | `SameResourcesAreEqual`: maps that mean the same ("1" and "1.0005" cpus, "100" and "100.0" memory, "01" and "1" ports) are Equal. `RepairKeepsScheduledResources`: a repair never changes Cpus, Memory or Ports. 187k states. |
| putback_merge | MCPutbackJSON / PutbackJSON_merge.cfg | pass | All 91k triples of documents, each with one key whose value may be an object of two keys, null, two scalars or an array. `SameIsDeepEquality`: `same` is JSON equality. `LocalEditsApplied`: every path the user set to a leaf, or deleted, holds the user's value after the put-back, whatever the server did. `NoPanicWhenKindsAgree`: the put-back panics only when the documents disagree on whether some value is an object. |
| putback_unedited | MCPutbackJSON / PutbackJSON_unedited.cfg | violation | `PutbackWithoutEditsKeepsServer` fails. The server deleted `a`, which was `{}` in base and changed. The put-back of the unedited copy writes `a: {}` back. |
| queue_liveness | MCR11nQueue / R11nQueue_liveness.cfg | pass | One ID, five pushes, a fair worker. `QueueRefinesAbstract`: every behaviour is one of R11nQueueAbstract, fairness included. The abstract fairness resolves every push, so every `Wait` returns. 146k states. |
| client_race | MCR11nQueue / R11nQueue_client_race.cfg | violation | `RecordedCallsMatchKinds` fails. Two workers each Deploy. Both read the empty `Deployed` slice, and the second store drops the first record. |
| cli_exit | CLIExit / CLIExit.cfg | pass | All 126 runs of the binary. `ExitStatusMatchesRun`: the status is 70 when start-up fails, 2 after a panic, 0 after a success, and otherwise the documented status of the error (255 for one without a Result type). `LogsFlushedOnEveryExit`: once the log set exists, every exit, a panic included, runs its `AtExit`. `BannerOnlyOnPanic`: the banner is printed exactly on a panic with `DEBUG` not `YES`. 558 states. |
| resources_tolerance | Resources / Resources_tolerance.cfg | violation | `EqualResourcesAreSame` fails. {cpus: "0.1"} is Equal to {ports: "1"}. By the same definitions, NaN equals anything, "2.0" or "3000000000" ports equal "1", and the other key is never compared. |

Every property of a passing run has a mutant in `PROJECT.json`: a
plausible bug of the code, defined next to the definition it replaces,
that TLC catches with the run's own cfg.

- **`UpsertClustersNoWait`** (a cluster row written without waiting
  for its lock, as with `DO NOTHING`, which locks no existing row)
  breaks `LastWriterWins`. The lock of that upsert is what orders two
  writers of the same deployment. (Dropping the serialization check
  instead does not break it: the check protects the diff's snapshot,
  not the order of the writes.)
- **`StmtsChildrenFirst`** (child inserts before the deployment
  inserts) breaks `ChildRowsFollowDeployment`.
- **`CommitIgnoringError`** breaks `StoreRefinesAtomicWrite` in
  the sequential run. A call
  returns nil and nothing is persisted.
- **`CommitIgnoringError`** breaks `OkMeansApplied`.
- **`InsertDeploymentsPostForDeletes`** (tombstones built from the
  absent post-state) breaks `TypeOK`.
- **`EqualExact`** breaks the tolerance property.
- **`ValidateSwapped`** (the wrong default) breaks the repair property
  and `TypeOK`.

- **`PutbackJSONNoPanic`** (a decode error returns nothing instead of
  panicking) breaks `TypeOK`.
- **`SameOneWay`** (the second loop of `same` dropped) breaks
  `SameIsDeepEquality`.
- **`RemainingKeepsObjects`** (`delete(base, k)` forgotten in the
  object branch) breaks `LocalEditsApplied`.
- **`TargetSubAsIs`** (no `{}` for a nil target sub-object) breaks
  `NoPanicWhenKindsAgree`.
- **`FinishAlwaysTearDown`** (teardown even with an item pending)
  breaks `QueueRefinesAbstract`. The
  stranded pending push stays Created when the next push for its ID
  arrives, a step the abstract `Push` does not allow.
- **`ExitCodeUsageAsSoftware`** breaks `ExitStatusMatchesRun`.
- **`InjectNoDefer`** (the `AtExit` never deferred) breaks
  `LogsFlushedOnEveryExit`.
- **`MainExitRunsDefers`** (`main` returns, so its deferred
  `handlePanic` runs on every exit) breaks `BannerOnlyOnPanic`.

### Bounds and why they suffice

- **Store: two clusters and one component.** This gives two
  deployments. They are on different clusters, so the clusters upsert
  does not serialise them: that is the write-skew case. They share one
  component, so the components insert can conflict while it is new.
  Two configurations allow both a Modified and an Added/Removed diff.
- **`MaxTx = 3`.** This is enough for create, remove and re-add by one
  writer. With two writers, one transaction can create and the two
  others can race on the same deployment. That is the case
  `LastWriterWins` needs, and its mutant is found with these bounds.
- **Resources: a few strings per key.** These cover:
  - an exact match;
  - a match within the tolerance;
  - a value that does not parse;
  - NaN;
  - a non-integer port and an int32 overflow;
  - a key the code does not compare.

- **PutbackJSON: one top-level key whose value may be an object of two
  keys.** `applyChanges` treats keys independently, so one key at the
  top exercises the recursive call. Two keys below it exercise the
  interplay of created, changed, deleted and untouched sub-keys. There
  are two scalars, so a leaf can change, and two arrays, so the array
  branch of `same` is used. `null` and a bare scalar are documents
  too.
- **R11nQueue.** The client race needs two IDs, for parallel workers on
  the shared client, and two pushes. The liveness run has one ID and
  five pushes, so one ID can see a replacement, then a successor, then
  another replacement. IDs interact only through the client, which
  never blocks, so the refinement is a per-ID question. Each ID has its
  own worker and its own fairness.
- **CLIExit: no bound.** Every combination of outcomes is enumerated.

### Fairness

`store_sequential` checks a refinement (a safety property only).
Only `queue_liveness` checks liveness: `QueueRefinesAbstract` includes
the abstract fairness of `Start` and `Complete`, so it says that every
push is eventually resolved. It assumes
`WF_vars(Worker(d))` for each ID. Each queue's worker is its own
goroutine, which runs while it has something to do. The dummy client
returns at once. Nothing is assumed of the pushers: a caller may stop
pushing at any time.

Deadlock is checked in every run:

- **Store runs.** A writer waiting on a row lock takes no step until
  the lock is freed, its statement fails, or the deadlock detector
  aborts it; two writers waiting on each other are therefore never a
  TLC deadlock, just as Postgres never leaves them waiting. The bound
  is reached only through `Done`, when every writer is idle.
- **Queue runs.** They end through `Quiescent`, once every push is
  made and every queue is drained.
- **PutbackJSON runs.** They end through `Done`, after the one call.
- **CLIExit run.** It ends through `Exited`, once the process has its
  status.

## 5. Not modelled, and why

- **Not under `src/`, planned from the spec:** the diff engine and the
  reconciliation loop (see §2). The queue set and the rectification are
  modelled from the spec in R11nQueue.
- **`loadState`:** modelled from the spec inside PGStateWrite.
- **`encodeJSON`:** it is deterministic, so the put-back's output is
  represented by the value it encodes.
- **In R11nQueue:**
  - The Failed outcome is not modelled, because the only client under
    `src/` never returns an error.
  - `SetLogger` and the log calls are not modelled.
  - The queue set's status enumeration is not modelled, because it
    only reads.
- **`cli/errors.go`:** `Error`, `UserTip` and `Pre` only format
  messages.
- **`main.go`:** the text of the banner and `log.SetFlags`.
- **The rest of `graph/server.go`:** constructor wiring.
- **`util/messages/messages.go`:** logging. It is a draft that does not
  compile: `getLevel` has no return, and it uses undefined names.
- **`splitcontainer_runnablebuilder.go`:** image builds, which are pure
  I/O and outside the spec's scope.  Its one piece of logic, the Dockerfile
  template (rendered through `html/template`, which HTML-escapes the
  `CMD` arguments), is a formatting question with no state to explore.
- **Tests.**
- **In Resources:** `Clone`, `AddContext`, `String` and the log
  messages only copy or format.
