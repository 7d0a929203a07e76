# Verification of agent-git-service

TLA+ models of the parts of agent-git-service (AGS) whose correctness depends on
interleavings, failures and time, with TLC configurations that check them on
small instances and TLAPS proofs of their safety properties. Paths in this
document are relative to the repository's root.

AGS is a Go server that stores Git repositories and speaks the GitHub REST and
GraphQL APIs. A *primary* owns the repositories and a database; *Edge* nodes hold
read-only snapshots of them. The primary also mirrors ("projects") pull requests
to providers (Forgejo, GitHub, GitLab, Multica) and notifies Feishu and Multica.

## Inventory

| Component | State | Operations | What is hard | What makes it correct |
|---|---|---|---|---|
| Snapshot store, `internal/snapshotstore` | `published/<key>` trees, staging, clean-close checkpoint; in memory entries with pin counts, `active`, `lastUse`, `restoredUse` | Open, ConfigureRetention, Acquire, Release, Install, InstallIncremental, publishStage, NewCapture, Prune, Remove, Close | concurrent leases, imports and collections; crash and restart; each file-system call may fail | a lease is on a complete view nobody changes; recent use protects a view across restarts; budgets hold |
| Outbound delivery queue, `internal/service/outbound_*.go`, `internal/notifications` | rows of `outbound_deliveries` (status, attempts, lease, backoff) | enqueue, poll, inline delivery, claim, dispatch, record, collect | compare-and-set claims from stale reads; leases that expire under a running post; lost workers | one live claim per row; no untruthful or reopened result; typed rows settle; non-idempotent posts are not repeated |
| Edge mirror, `internal/edge/mirror.go` | job per missing snapshot, queue object per store, closed flag | EnsureSnapshot, runSync, Prune, Close, warm-up | callers joining a flight, queue objects that come and go, shutdown | one synchronization per snapshot, one transfer per store, nothing after Close, a waiter gets its own snapshot |
| Edge reads, `internal/edge/read.go` | recently served views | prepare, materialize, decide, revalidate, serve | a copy outlasting its authorization; remembered views of moved refs | nothing is served on an authorization older than the copy; discovery is current; leases end with the request |
| Git storage gate, `internal/gitstore/{snapshot_barrier,maintenance_access}.go` | weighted semaphore, access counts, the running maintenance | BeginMutation, WithSnapshotCapture, BeginMaintenanceAccess, maintenance | nested leases, cancellation, captures queuing in between | captures and maintenance run alone; nobody waits for ever |
| Edge protocol, `internal/edge/{control,server,peer}.go` | none of its own | validation of wire records | — | data validation |
| Primary-side replication, `internal/replication`, `service/replication_read.go` | generation rows, captures | observe, capture, export | refs moving under a capture | an exported snapshot is one instant of the repository |
| GitHub projection jobs, `service/github_projection_*.go` | job row (trigger, phase, attempt, `next_run_at`, fact hash), mapping row | enqueue, claim, attempt, finish, schedule, reconcile | stale dispatches, lease expiry, provider side effects, lost answers | a superseded worker records nothing; a finished close is a receipt; backoff is kept; every shadow ends closed |
| Forgejo projection jobs, `service/pr_projection_jobs.go` | job row (phase, attempt as generation, lease in `next_run_at`, head), an in-process lock per job | enqueue, retry, repair, resume, retire, schedule, claim, attempt, commit | requests arriving while a runner works, several processes, crashes | a pending reopen has work, a projected job has its head recorded, inspected failures stay |
| Pull request lifecycle, `service/pr_lifecycle.go`, `pr_integrations.go`, `pr_projection.go` | state, `lifecycle_generation`, reopen intent, provider watermark, binding | native close and reopen, close dispatch, reopen confirmation, close and merge webhooks | late, repeated and equally timed webhooks; readings made before a lock | a stale reading neither closes, reopens nor confirms |
| Forgejo rebase jobs and action intents | durable intents | record, act, resolve | crash between act and resolve | an intent is neither lost nor acted on twice |
| Wiki compaction and post-commit queue | one job row with a heartbeat; an in-process FIFO | start, beat, finish, recover | dead workers, queue limits | one compaction at a time; post-commit work in order |
| Wiki catalog, `internal/wikicatalog` | content-addressed pages | commit, search | — | data transformations in transactions |
| Access grants and sessions | grant rows, use counters | issue, use, revoke, merge | use racing revocation | a revoked grant authorizes nothing later |
| OAuth device flow, `internal/oauth` | device codes | create, approve, poll | two polls racing one approval | one token per approval |
| Rate limiter, `internal/ratelimit` | windows per key | allow, sweep | window boundary | at most limit per window |
| Projection monitor, artifact retirement, Git transport, REST/GraphQL, issues and the like, database, GitLab/Multica/provider logs | see `PROJECT.json` | | | |

The components interact through the database (the job tables and the delivery
queue), through the snapshot store (the Edge mirror and the primary's exporter
both lease from one), through the admission gate in front of Git storage, and through HTTP calls to providers and from Edge to primary.

## Modules

| Module | Models |
|---|---|
| `SnapshotStore` | the snapshot store and its use by readers, imports and captures |
| `ViewStore` | abstract: what a store of immutable views promises its readers |
| `SnapshotStoreProofs` | theorems about `SnapshotStore`, among them that it implements `ViewStore` |
| `OutboundDelivery`, `OutboundDeliveryProofs` | the outbound delivery queue, its pollers and inline callers |
| `GitHubProjection`, `GitHubProjectionProofs` | the durable job that projects one pull request to GitHub, its requests, schedulers and watch rounds |
| `GitStoreGate`, `GitStoreGateProofs` | admission of pushes, service calls, captures and maintenance to Git storage |
| `EdgeMirror`, `EdgeMirrorProofs` | the Edge's mirror over a `ViewStore` |
| `EdgeRead`, `EdgeReadProofs` | a read at the Edge and the primary's side of it, over a `ViewStore` |
| `ForgejoJobs`, `ForgejoJobsProofs` | the durable job that projects one pull request to Forgejo |
| `ForgejoLifecycle`, `ForgejoLifecycleProofs` | the open or closed state of one pull request kept natively and on Forgejo |
| `MC...` | constants and symmetry sets of the TLC instances |

`EdgeMirror` and `EdgeRead` instantiate `ViewStore` and use its `Lease`, `Return` and
`InUse` as their own steps, so what they assume of the snapshot store is what
`ImplementsViewStore` says `SnapshotStore` does.

### SnapshotStore

*State.* `disk`, `mtime` and `saved` survive a crash: what each `published/<key>`
directory holds, its modification time, and the clean-close checkpoint.
`entries`, `refs`, `active`, `lastUse`, `restoredUse` and `openedAt` are the fields
of `Store` of the same names. `pin` and `imp` are the leases and the positions of
the goroutines that use the store. `used` is a history variable: nothing but the
properties reads it.

*Atomicity.* Each action that takes `Store.mu` is one critical section. The steps
of an import between its critical sections are actions of their own: borrow a base
(`BorrowBase`), reserve the store (`StartIncremental`, `Install`), nested repack
(`Repack`), finish the private stage (`FinishStage`), publish, and the deferred
releases in the order in which Go runs them (`Leave`, `ReturnBase`).

*Contents.* A tree is `intact`, `damaged` (verification would fail) or `gutted`
(the directory misses `manifest.json` or `view`, at which the inventory fails).
The keys are numbers because the collection breaks ties by key order.

*Failures.* `Faults` names which calls may fail in a process that goes on:
`remove` (an `os.RemoveAll` stops half way), `publish_sync` (the rename happened,
the directory sync failed), `close_sync` (the same for the checkpoint). A transfer
error, a failed verification, cancellation and missing disk headroom are
`AbortStage`. A crash is possible at every moment and also inside each of the
three places that remove trees (`CrashInPrune`, `CrashInPublish`, `CrashInRemove`).
A call that the code refuses without a state change has no action.

*Collection.* `collectLocked` walks the views oldest first and stops removing once
it is within budget and none has expired; `CollectPlan` states the resulting set,
`Prefixes` the sets that cancellation or an error may leave removed.

### OutboundDelivery

*State.* A row has the columns `status`, `attempts`, `owner` (`lease_owner`),
`lease` (`lease_expires_at`) and `wait` (`next_attempt_at`). A worker is at one
statement of `DeliverOutboundDeliveryNow` (`pc`) and holds what it read there:
whether the row it read was an exhausted typed claim (`full`), the lease it read
(`seenLease`), its clock reading (`age`), the attempt number it reloaded (`tries`)
and the answer of its post. `receiver` is a history variable: what the other side
did about the row.

*Time.* Every timestamp is kept relative to the present: what a lease or backoff has
left, how long ago a clock was read. That keeps the state space finite without a
bound on the length of a behaviour. The code compares timestamps with a clock
reading that may be old by the time the statement runs, so `Expired(w, d)` compares
with `-age[w]`, not with 0.

*Answers.* The queue distinguishes three answers: delivered, retryable, refused. A
retryable answer (time-out, 5xx, lost connection) leaves open whether the receiver
acted, which `Send` expresses by its `effect`.

*Typed and untyped.* Multica rows have a typed, idempotent receiver and are reclaimed
after their lease; Feishu rows are not. A lost answer is retried for both; what is never
repeated is a Feishu row whose worker is lost (`OrphanNotReposted`). The run has a Multica
row; the Feishu side is proved (`OrphansStay`).

### GitHubProjection

*State.* One pull request (`open`, `fact`), its job row (`trigger`, `phase`, `attempt`,
`due` for `next_run_at`, `hash`), its mapping (`mapNum`, `mapState`) and the pull
requests GitHub has for its branches (`shadow`). Each actor has a position (`pc`) and
its local variables (`me`). Rows of different pull requests do not meet, so one is
enough; the scan cursor and the batch limits that choose among them are left out.

*Fences.* Every update of the row is a compare-and-set on columns the actor read.
Writes of `next_run_at` are the present time, a lease or a backoff, taken to be
distinct values, or null in a finished job. `current` is the set of actors whose copy
of `next_run_at` is the row's; `Unchanged` adds the case the null leaves open, a
finished job that went round and looks as it did. `claimGitHubProjection`,
`gitHubProjectionClaimScope`, `finishGitHubProjection` and the updates of
`enqueueGitHubProjection` are stated with these two. The supersession by a close
compares trigger and attempt only, and so does the model.

*Steps.* Every database statement outside a transaction and every call to GitHub is a
step of its own; `finishGitHubProjection` is one transaction that locks the pull
request. The several `BeforeWrite` checks of an ensure are one (`Check`): the last
before the write is the one whose staleness matters. A push and a change of metadata
leave `shadow` as it is.

*Time and failures.* A lease or backoff runs out at some moment (`Expire`); an attempt
whose lease has run out sees its context end, unless its write is already on the way
(`WriteLost`). Failures are counted: lost answers, failing calls, a session whose
authority is gone (`Deny`), crashes.

*Forgetting.* `Needed` says what an actor will still use of what it has read, and `To`
drops the rest, as a Go function's locals end. `stray` is a history variable: a watch round
wrote the mapping (`Upsert`, which has no fence) while a close was at work, after that
close had read it.

### GitStoreGate

`all`, `repos` and `running` are the fields of `repositoryMaintenanceAccess`; `sem` is
`Store.captureSem`, an external semaphore modelled from its documented order (first come,
first served; `Without` is the removal of a waiter from its list); `lock` the repository
locks of `githttp`. A push and a call have a main part (`main`) and an inner mutation
(`sub`), which is where leases are shared and where a nested request might queue behind a
capture.

*Permits.* A permit goes by the name of whoever asked for it: the request itself, or its
inner mutation (`Inner(w)`). So one request may hold, or hold and wait for, two of them.
`refs` is `mutationLease.refs` of the lease on a permit, and `LeaseOf` says whose lease an
inner mutation has: a push's is its own, a call's is the call's as long as that has
references. `EnterInnerAnew` is the code without this reuse (`snapshot_barrier.go:93`):
the inner mutation asks the semaphore by its ordinary rule, and `EveryoneLeaves` fails
exactly when a capture queues between the call and the mutation the call waits for.

The release functions of a lease, which give back an access and a permit one after the
other, are one step. The repair of HEAD after a push repeats the pattern lock and lease and
is not a step of its own. `GiveUp` is a context that ends during a wait.

### EdgeMirror

`jobs`, `stores` and `users` are the fields of `Mirror` and `storeQueue`; job and queue
objects are numbered so that an object that was forgotten and one made afresh for the same
key differ. A caller passes the cache (`Hit`, `Miss`), joins or begins a job, waits, and
acquires. A job takes the store's slot, a node slot, looks again, leases a base, transfers
and publishes; any of these may fail. `lost` is a history variable.

### EdgeRead

At the primary, the observation under the capture barrier (`Observe`), the first Acquire
(`Retained`), the second capture with its new authorization (`Pin`), `capture.Retain`
(`RetainPin`), the plan's timestamp (`Stamp`) and the confirmation before the plan is sent
are steps of their own; so are, at the Edge, the receipt of the plan, the copy, the search
for the wanted object, the decision about the plan's age, the second authorization and the
last check before Git starts. Between any two of them refs move (`Push`), the permission is
lost and regained, the primary prunes and time passes. `Receive` accepts a plan that is
valid and names the snapshot that was asked for, if one was.

*Ways out.* The handler's returns are actions of their own, each with the release the code
has at that place: `Refuse` before there is a view, `NotHere` and `Reject` inside
`materialize`, `Withdraw` when the second prepare of a fetch fails (`read.go:261`), `Abort`
and `Finish` through the deferred release of `ServeHTTP`. None of them releases for
another, so a return that forgot to would leave the lease behind.

Both sides share one clock. Who may read is one Boolean. `RevalidateRead` is one step.
`Copy` and `Collect` stand for the mirror, `Prune` for the primary's retention. `heads`,
`vouched` and `revokedAt` are history variables.

### ForgejoJobs

The attempt column serves the code as the generation of a claim. Only whether a runner
carries the row's attempt matters, so the model keeps that as `valid`, which needs no
counter. `due` is the lease or delay in `next_run_at`. Load and claim are one step because
the claim is a compare-and-set on the row that was loaded; the second read of the claim is
a step of its own, outside any transaction, as in the code, so that two runners may carry
one generation.

*Requests.* `req` has the position of every request in flight, each served by the process
`ProcessOf` names: enqueues, retries, repairs, reopens and resumes interleave with one
another statement by statement, and end with their process. A resume
(`ResumePendingForgejoProjectionJobs`) is its five statements: read the pending pull
requests, revive the job of each from what was read, retire, requeue admission failures,
select and schedule. `Start` is a process that starts and resumes; the code serves no
request before that resume has returned, the model does not insist on it.

*Failures.* A terminal failure is `retired`, `admission`, `drift` (the provider's branch
has diverged: `NonFastForward`, `SHADrift`) or `other`. The repair takes only `drift`. A
reopen whose pull request has no mapping yet leaves the intent pending and goes on to
push; the commit then confirms it.

Not modelled: the repair's correlation marker, and the action-bound rebase trigger, which
takes the row for another kind of job (`forgejo_rebase_job.go:78`).

### ForgejoLifecycle

`pr` is the native row, `binding` the state column of the projection row, `provider` the
Forgejo pull request, `events` the close webhooks, any of which may be delivered at any
time and again. Provider times never go back and may repeat. Every reading outside the
row's lock (a handler's row and readback, a worker's row and snapshot) is a step of its
own. `life` counts how often the provider's pull request was opened and appears in no
guard; with `seen` it is what the properties refer to. `closers` counts the native close
dispatches in flight before and after their PATCH: a dispatch has nothing of its own that a
later one does not have, so numbers are enough. Each reads row and binding when it gets to
the provider, not when the close commits.

*Merges.* `ApplyMerge` is the merge webhook, which closes the binding. `NativeMerge`
(`pr_merge.go:218`) and `AcknowledgeMerge` (`provider_merge_reconcile.go:68`) mark the row
merged and leave the binding as it is; the first writes the row without another look at it.
A merge webhook for a row that is merged already changes neither row nor binding.

*Left out.* With the mapped pull request closed and no pending intent, `EnsurePullRequest`
opens a second provider pull request. Recording it is refused, because the binding names
the other one, so row and binding stay; the second pull request itself is not in the model.

## Runs

Passing runs:

| Run | Instance | Checks |
|---|---|---|
| `snapshot_faults` | 2 views, room for one; a reader, two imports, a capture; every fault | `RefsMatchLeases`, `DrainedWhenDown`, `PinnedViewUntouched` |
| `snapshot_retention` | 3 views of sizes 1, 1, 2, budget 2 bytes and 2 views; a reader, an import, a capture; publication may fail to sync | `LeasedViewIntact`, `RecentUseProtected`, `BudgetRespected`, `ImplementsViewStore` |
| `outbound_liveness` | one Multica row, a poller and an inline caller, stalls longer than a lease, one failure, with fairness | `LeaseExclusive`, `SettledTruthfully`, `OverrunBounded`, `SettledIsFinal`, `TypedSettles` |
| `github_jobs` | a request, the scheduler it leaves behind and a watch round, two facts, two changes of the pull request, two shadows, two attempts, one failure, with fairness | `CloseReceipt`, `BackoffKept`, `ClosedRetires`, `OpenMapped` |
| `git_gate` | two pushes, a call with nested work, a capture, maintenance, two repositories, with fairness | `TypeOK`, `CaptureAlone`, `MaintenanceAlone`, `AccessExact`, `EveryoneLeaves` |
| `edge_mirror` | two callers, three views in two stores, two pending jobs, one transfer at a time | `TypeOK`, `OneTransferPerStore`, `SingleFlight`, `QuietWhenClosed`, `WaiterServed` |
| `edge_read` | two requests, two snapshots, a forced push, a permission lost and regained | `AuthorizedAfterCopy`, `RevocationBounded`, `DiscoveryCurrent`, `ServedExactly`, `NoLeaseLeft` |
| `forgejo_jobs` | two processes with a request each, two heads, one reopen, one attempt per run | `PendingHasWork`, `ProjectedRecorded`, `TerminalKept` |
| `forgejo_lifecycle` | a handler, two workers, two close dispatches, two reopens, two provider times, two lives | `MergedIsFinal`, `CloseReadBack`, `CloseEventCurrent`, `ReopenConfirmed`, `OneReopenPerIntent` |

The type invariants are proved (below). Only those of the gate and of the mirror are also
among the runs' properties: they say that a count that is released does not fall below
zero.

Three runs show the code departing from what its comments say (`findings` in
`PROJECT.json` quotes both sides):

- `forgejo_lost_schedule`: a retry queues a new generation of the job while the process's
  runner is still in an attempt of the old one. The schedule finds the runner's lock taken
  and returns; the attempt ends for good, its mark is fenced off, and the runner ends
  without loading the row again. The job stays queued until a startup, a reopen or the
  integrity scan schedules it.
- `github_stale_open`: "a provider response arriving after close must never commit a stale
  open mapping" (`github_projection_jobs.go:282`). A watch round looks at GitHub while the
  pull request is open; the pull request closes; the round's upsert
  (`github_projection_reconcile.go:111`), which locks and compares nothing, writes an open
  mapping. `ClosedRetires` says that a later round repairs it, and `CloseReceipt` holds but
  for mappings written this way (`stray`).
- `github_duplicate_dispatch`: "duplicate dispatch never resets attempts or backoff"
  (`github_projection_jobs.go:37`). Two dispatches of one edit read the same failed row;
  the first refreshes it and its attempt fails finally at the same attempt number; the
  second's fence, which leaves out the fact's hash (`github_projection_jobs.go:86`),
  matches again and resets the attempts. `BackoffKept` is what does hold: an unfinished
  job keeps its attempts.

The models contain further behaviour that a reader of the documents may not expect, and
that no run singles out:

- a removal that fails half way keeps the cached entry, and a later `Acquire` leases the
  incomplete view (`store.go:320`, `retention.go:282`); `snapshot_retention` excludes this
  fault, and `LeasedIntact` and `StoreImplementsPromise` assume it away;
- a `Close` whose directory sync fails leaves a checkpoint in a store that stays open;
  after later use and a crash it is trusted (`retention_restart.go:128`);
- a worker that stalls between reading the row and reading the clock posts beyond the
  attempt budget (`outbound_delivery.go:214`; by how much is `OverrunBounded`);
- a poll delivers the rows it selected one after another without testing their backoff
  again, and its first error ends the pass (`outbound_delivery.go:354`);
- a creation that was checked before a close and reaches GitHub after the close job found
  nothing leaves an open shadow that nothing looks for (`integration.go:804`);
- `publishStage` reports success for a view that already exists without refreshing its
  age, so a collection may remove it at once (`store.go:283`; `retention.go:222` speaks
  of "recently advertised" views);
- a crash inside a removal leaves a directory without `manifest.json` or `view`, at
  which the next `ConfigureRetention` fails (`retention.go:119`);
- a native or acknowledged merge leaves the Forgejo binding open, and a merge webhook that
  comes later does not close it (`pr_projection.go:299`), as
  `provider_merge_ff_ack_test.go:136` expects;
- a dispatch that loaded the pull request before an edit may put the old fact back into
  the row (`github_projection_jobs.go:85`), and of two enqueues of a Forgejo job the one
  that read the older head may write last (`pr_projection_jobs.go:338`);
- the PATCH of a native close carries no generation: one that arrives after a reopen closes
  the provider with an event newer than the watermark, whose webhook closes the reopened
  pull request (`pr_projection_state.go:85`).

*Bounds.* Two views with room for one is the smallest instance in which an import
must evict what another goroutine may be pinning; two imports are needed for a lost
race to publish; a third view of a different size separates the byte from the view
budget and lets a plan have more than one member. `MaxTime` bounds the clock: it
exceeds `MaxAge` so that a view can be protected, evictable and expired in one
behaviour, and it allows a use, a restart and an expiry in sequence. In the queue,
`MaxStall` exceeds `Lease`, so every worker can outlive its claim; `MaxAttempts = 2`
separates the first, the last and an extra attempt; `MaxFailures` bounds crashes.
In the projection, the request and the scheduler it leaves behind are one actor, as one
goroutine follows the other; the watch round is the second, which gives every pair of a
stale and a newer writer. Two attempts separate a retry, with its backoff, from the last
one and let a second claim follow an expired lease; two changes allow a close and a reopen,
or an edit and a close; two shadows allow a second creation beside a known one.
In the gate, two pushes share a repository lock, and a call with nested work and one capture
are enough for a capture to queue between two requests of one context. In the mirror, three
views in two stores give two jobs of one store and one of another, and two pending jobs
make a third one meet the bound. In `edge_read`, a push of the second snapshot makes a
remembered view stale, and the clock outlasts a plan's lifetime and the window. In
`forgejo_jobs`, two processes with a request each let one runner take over the other's
expired lease and two requests interleave, and a second head makes a running job obsolete;
one attempt per run suffices, since retries of the row come from the requests and
the failure that is retried without counting. In
`forgejo_lifecycle`, two reopens are needed for a reading to belong to an earlier
generation, two lives for a webhook of an earlier one, and `MaxTime = 2` allows equal and
different times.
Deadlock is not checked where a bounded clock or bounded counters stop the system
(`snapshot_*`, `forgejo_*`) and in `edge_mirror`, where a closed mirror is at rest.

*Symmetry.* Importers, pollers, callers, requests, workers and processes are only compared with one another.
The liveness runs use no symmetry. `forgejo_jobs` also has a view (`MCForgejoJobs`): states
that differ only in what a runner remembers of a pull request that has closed, moved on or
reached a later generation, or after it has lost its claim, are one. All the guards such a
runner can still meet compare what it remembers with the row and fail, so each state has
the successors of the other up to the same view; and the properties do not mention what the
view leaves out.

*Fairness.* `outbound_liveness` assumes that time passes, that a poller whose query
finds rows starts its pass (a ticker in `RunOutboundDeliveryWorker`), and that a
running delivery takes its next step (every statement and post has a time-out). It
assumes nothing of callers beginning deliveries, and failures are bounded, without
which a process that always crashes refutes every promise. The projection's fairness is
the same: time passes, watch rounds (a ticker in `projectionwatch`) and schedulers
start again, started work goes on; nothing is assumed of requests or of changes.
`git_gate` assumes that goroutines that can move do and that Git work and maintenance end
(both have deadlines). Entering the gate and taking a repository lock are strongly fair:
maintenance starts on a timer and Go's mutexes hand over to waiters, so a request that
finds the way free again and again gets through. A call waits for the nested mutation it
has started and starts finitely many: its end is strongly fair while none is under way.
That a call ends sooner, with the nested work going on, is possible but not counted on. No
request is assumed to start, to give up, or to ask for nested work.

*Mutants.* For every property of a passing run, `PROJECT.json` names a variant of one
definition (a dropped guard, a missing reset, an off-by-one) under which TLC finds
the property violated. The variants stand directly before the definitions they
vary and are marked `Mutant`.

## Proofs

For every value of the constants that satisfies the named assumptions of the modules:

| Theorem | States | Further assumption |
|---|---|---|
| `TypeCorrect` | `Spec => []TypeOK` of the store | — |
| `LeasesCounted` | `Spec => []RefsMatchLeases` | — |
| `PinnedUntouched` | `Spec => PinnedViewUntouched` | — |
| `LeasedIntact` | `Spec => []LeasedViewIntact` | no half-done removals in a running process |
| `RecentUse` | `Spec => []RecentUseProtected` | no failed sync at Close |
| `ClosesDrained` | `Spec => []DrainedWhenDown` | — |
| `BudgetKept` | `Spec => []BudgetRespected` | — |
| `QueueTypeCorrect` | `Spec => []TypeOK` of the queue | — |
| `LeasesExclude` | `Spec => []LeaseExclusive` | — |
| `StatusesTruthful` | `Spec => []SettledTruthfully` | — |
| `SettledStays` | `Spec => SettledIsFinal` | — |
| `OrphansStay` | `Spec => OrphanNotReposted` | — |
| `OverrunsBounded` | `Spec => []OverrunBounded` | — |
| `JobInvariant` | `Spec => []JobInv` of the projection | — |
| `ProjectionTypeCorrect` | `Spec => []TypeOK` of the projection | — |
| `BackoffsStay` | `Spec => BackoffKept` | — |
| `ClosesAreReceipts` | `Spec => []CloseReceipt` | — |
| `StoreImplementsPromise` | `Spec => ImplementsViewStore`, the refinement of `ViewStore` | no half-done removals in a running process |
| `GateInvariant`, `GateTypeCorrect` | `Spec => []GateInv`, `Spec => []TypeOK` of the gate | — |
| `CapturesWorkAlone` | `Spec => []CaptureAlone` | — |
| `MaintenanceIsAlone` | `Spec => []MaintenanceAlone` | — |
| `AccessesCountedExactly` | `Spec => []AccessExact` | — |
| `NoWakeupLost` | `Spec => []NoLostWakeup`: whoever heads the semaphore's queue does not fit | — |
| `MirrorInvariant`, `MirrorTypeCorrect` | `Spec => []MirrorInv`, `Spec => []TypeOK` of the mirror | — |
| `TransfersExclusive` | `Spec => []OneTransferPerStore` | — |
| `FlightIsSingle` | `Spec => []SingleFlight` | — |
| `ClosedIsQuiet` | `Spec => []QuietWhenClosed` | — |
| `WaitersServed` | `Spec => []WaiterServed` | — |
| `EdgeInvariant` | `Spec => []EdgeInv` of the read, its types included | — |
| `ServedAuthorized` | `Spec => []AuthorizedAfterCopy` | — |
| `RevocationIsBounded` | `Spec => RevocationBounded` | — |
| `DiscoveryIsCurrent` | `Spec => []DiscoveryCurrent` | — |
| `ServesExactly` | `Spec => []ServedExactly` | — |
| `LeavesNoLease` | `Spec => []NoLeaseLeft` | — |
| `LifecycleInvariant`, `LifecycleTypeCorrect` | `Spec => []LifecycleInv`, `Spec => []TypeOK` of the lifecycle | — |
| `MergesStay` | `Spec => MergedIsFinal` | — |
| `ClosesAreReadBack` | `Spec => CloseReadBack` | — |
| `CloseEventsAreCurrent` | `Spec => CloseEventCurrent` | — |
| `ReopensAreConfirmed` | `Spec => ReopenConfirmed` | — |
| `OneReopen` | `Spec => OneReopenPerIntent` | — |
| `JobsInvariant`, `JobsTypeCorrect` | `Spec => []JobsInv`, `Spec => []TypeOK` of the Forgejo job | — |
| `PendingReopensHaveWork` | `Spec => []PendingHasWork` | — |
| `ProjectedAreRecorded` | `Spec => []ProjectedRecorded` | — |
| `TerminalsAreKept` | `Spec => TerminalKept` | — |

The further assumptions are necessary: without them the failed removal and the failed Close
described above are counterexamples.

*The store.* `RefsMatchLeases` is not inductive: that publication may reset `refs` to 0
needs that no lease is on a view that is absent from the disk, which needs that a
lease is always on a recorded entry and that what a collection removes is not
pinned. `LeaseInv` adds these facts and the link between an import's position and its
base lease. `EntriesIntact` (every cached entry is a complete view) is what the
verification-free path of `Acquire` relies on, and what a half-done removal breaks.
`AgeInv` relates the history `used` to what survives a crash: either the running
process knows the use, or the modification time or the checkpoint covers it, or the
process opened after it.

Close waits until `active` is 0 and nothing is pinned. That this leaves nobody inside
needs `ActiveExact`: `active` is the number of reservations the imports hold (two during
a nested repack) plus the captures; `ReservedInv` says at which positions an import holds
one. For the budgets, `SizeOf` is a fold over a set of views. A smallest set on which two
ways of computing the sum differ would be one view larger than a set on which they agree,
so the sum does not depend on the order, is a natural number, and shrinks with the set;
the well-founded order of finite sets gives the smallest set, in place of an induction.
Given that, an import only publishes what fits after its collection, and every other step
leaves views out.

*The queue.* `LeaseExclusive` needs to know when a claim was made: `LeaseTracked` says that
the lease on a row its worker still owns is exactly `Lease` minus the age of that
worker's clock reading. Since a rival's clock reading is never in the future, it
cannot see that lease as expired before it is. `QueueInv` adds the positions
(`Named`, `OwnedDelivering`), the bound `Punctual` on readings, and the two facts that
make statuses truthful: `Counted` (the reloaded attempt number is not above the row's)
and `Witnessed` (an answer reflects what the receiver did). For `OverrunBounded`, a worker
that read a spent row dead-letters it or read a lease with time left; since leases on a
`delivering` row are only extended, such a worker's claim fails (`SpentIsLeased`). So each
attempt beyond the budget uses up one worker that read the row before its last attempt, and
`OverrunAccounted` counts the attempts together with the workers that remain.

*The projection.* `JobInv` says what the fences are for: of the actors whose copy of the row
is current, at most one is in an attempt (`Alone`), it works for the row's trigger in
phase `preflight` (`Claimed`), and one about to replace a trigger or a fact replaces the
one it read (`Superseding`). `Rowed` ties a null `next_run_at` to finished jobs, which is
why only those can be confused with an earlier reading: `BackoffKept` follows. For the
receipt, `Known` says that the owner of a claim goes by the mapping's number, unless the
mapping is `stray`, and `Closing` that what a close will record is closed on GitHub, where
nothing reopens. A watch round's write while a close is at work makes the mapping stray;
the next close that reads it ends that.

*The refinement.* A view is offered by the abstract store when its tree is complete
(`avail`), and `held` is `pin`. `MapInv`, that is `LeaseInv` with `EntriesIntact`, makes
each `TakeLease` a `Lease`, each `DropLease` a `Return`, a crash or Close a `Restart` and
everything else a `Restock`, which may not take away a view in use.

*The gate.* The argument has two halves. `Sound` is about the semaphore alone, whoever asks,
releases or gives up: a capture holds it alone, a permit is waited for once and not held
meanwhile, and the head of the queue does not fit. `PartyInv` then says that the program
counters follow it: those who asked are in it, and a task that works, or a lease with
references, holds its permit. How many references a lease has is a function of the
positions of the two parts of a request (`PushInv`, `CallInv`), which is why a release by
one part does not free what the other still uses; a call's inner mutation with a permit of
its own can only have started after the call's lease was gone. `AccessExact` is inductive with these. For maintenance, `ByTask` restates
the property about the tasks themselves instead of their accesses: an admission is possible
only with no run in the way, and a run starts only when the counts, which are exact, are 0
for what it works on.

*The mirror.* A running job is in the job map and in the queue object of its store, and
nothing else is (`JobInv`); a queue object belongs to one store and its user count is the
number of jobs in it (`QueueInv`). Hence an object is forgotten only when nobody is in it,
and two jobs of one store share one object, whose slot is held once (`SlotInv`): this is
why the queue objects may come and go. `CallerInv` ties a waiter to a running job of its
own view, `ServedInv` says what a job that ends well leaves.

*The read.* `LeaseInv` says at which points a request has a lease: from the copy to the end,
on the view aimed at, which has the wanted object once it was searched; at all others it has
none, which is what each way out has to establish for itself; a discovery aims at what the refs were when it looked, and only a
renewal, which keeps the aim, comes after that (`DiscoverInv`); as long as the permission
lasts whoever has a lease is vouched for, and once past the last call everyone is
(`VouchInv`); no plan outlives its lifetime, nor the permission by more than that
(`PlanInv`).

*The lifecycle.* Every property is about a reading made outside the lock and used inside it,
so `LifecycleInv` says what each reading still tells (and that a merged row is closed, from
which `SameFact` keeps every worker away from a merged pull request): a handler whose generation is the
row's saw no waiting intent, and after its readback the provider was closed since the last
confirmation (`HandlerInv`); a worker's open snapshot was open in the worker's generation
(`WorkerInv`); an intent that waits belongs to a generation never confirmed (`GenInv`); and
closes of lives before the confirmed one lie at or before the watermark (`EventInv`), which
with `Stale` decides the equal-time case. `EventInv` needs from `WorkerInv` that a
snapshot's time is not before any close of an earlier life.

*The Forgejo job.* `ClaimedHead` says that a runner that carries the row's attempt works on
the head the row asks for: every write that changes the head takes the row away from its
runner, and the requeue of admission failures, which does not, keeps the head.
`ProjectedRecorded` follows. `SettledNow` (a settled row has no delay) is what
`TerminalKept` needs against the passing of time.

Only model-checked: the liveness properties `TypedSettles`, `ClosedRetires`, `OpenMapped`
and `EveryoneLeaves`, since liveness under fairness and `ENABLED` are outside the prover's
reach. The types proved of `EdgeRead` leave out its two sequences `recent` and `cands`,
which are made with `SelectSeq`: the provers know nothing of what it computes, and no other
theorem needs it. The library's induction theorems cannot be used, because the provers do
not instantiate operator parameters; `SizeOf` shows the way around it where one is needed.

## Plan

1. `SnapshotStore`, `OutboundDelivery` and `GitHubProjection` with proofs (done).
2. `ViewStore` and its refinement by `SnapshotStore`; `EdgeMirror` and `EdgeRead` over it;
   `GitStoreGate` (done).
3. `ForgejoLifecycle` and `ForgejoJobs` with proofs (done).
4. Proofs for `EdgeMirror`, `EdgeRead` and `GitStoreGate`; `DrainedWhenDown`,
   `BudgetRespected` and `OverrunBounded` (done).
5. Liveness of the mirror (every caller is answered, Close ends); wiki compaction and its
   heartbeat, rebase jobs and action intents, access grants, the device flow, the rate
   limiter.

## Not modelled

Wiki compaction, rebase jobs and action intents, access grants, the device flow, the rate
limiter and artifact retirement (but for its settling of closed projection jobs) have state
machines of their own that the plan leaves for later. Liveness of the Forgejo jobs is not
stated: `forgejo_lost_schedule` shows that it would need the integrity scan, which is not
modelled. The lifecycle has none because its retries are the job's.

Git itself (processes, packs, refs on disk), request decoding and rendering, provider
clients, schema migrations, wiki page storage and search, CRUD operations in single
transactions. Their behaviour is data transformation or that of an external program;
`PROJECT.json` lists each with its reason.
