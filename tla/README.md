# vfs-link: TLA+ models and proofs

vfs-link serves one virtual file tree over HTTP, WebDAV and FTP from a Go
server (`apps/file-server`) that runs as several instances at once (Cloud Run).
Payloads live in a blob store (local disk or GCS). Metadata lives in Postgres
or, in the layout this project is mostly about (v4), in small objects of an
object store that offers no more than *conditional writes on one object*. All
that makes the tree consistent - transactions, leases, recovery - is built on
that one primitive in `internal/db`. A web application (`apps/web`) shows files,
uploads, shares and repairs; its controllers keep state of their own while
requests overtake each other, time out and are given up. Paths below are
relative to `src/apps/file-server/internal` unless they start with `docs/`;
`web/` stands for `src/apps/web/app/features/`.

## 1. Inventory

| Component | State it keeps | Operations | Talks to |
|---|---|---|---|
| **v4 transactions** `db/tree_v4.go` | envelopes (current value, pending value), manifests (active and journal), leases | `transact`, `renameSameParentOptimisticAttempts`, `visibleEnvelope`, `normalizeEnvelope`, `recoverTransactions` | every v4 mutation goes through it; the janitor runs in the reducer loop |
| **v4 namespace** `db/tree_v4.go` | directory shards, node records, path cache | create, mkdir, delete, move, rename | transactions; derived deltas after commit |
| **v4 trash** `db/tree_v4_trash.go` | one manifest per trash group | trash, restore, claim, cleanup, delete | namespace, permanent deletion |
| **object backend** `db/tree_backend.go` | objects with generations | get, list, compare-and-put, delete; hedged writes, resolution of lost replies | all of `db` |
| **derived aggregates** `db/tree_delta.go`, `tree_recovery.go`, `tree_reconcile.go`, `tree_aggregates.go` | delta objects, per-directory totals, applied tokens, reducer lease | emit, reduce, compact, rebuild | transactions emit deltas |
| **durable operations** `db/tree_operations.go`, `fileops/` | operation records: status, lease, checkpoint | submit, claim, run, checkpoint, finish, resume | namespace, trash, blob store |
| **upload sessions** `upload/`, `db/tree_entities.go` | upload records: status, offset, completion and cleanup state, lease | create, write chunk, complete, cancel, expire, recover | blob store, namespace |
| **share jobs** `share/`, `db/tree_entities.go` | job records with status, lease, attempts | create, relay, process, notify | pub/sub, blob store, push |
| **WebDAV locks** `webdav/locksystem.go`, `db/tree_entities.go` | lock table | create, refresh, confirm, unlock, expire | the WebDAV handler |
| **thumbnails** `db/thumbnails.go`, `api/thumbnails.go` | thumbnail records with claims | claim, store, collect | blob store |
| **drift repair** `drift/`, `db/drift_store.go` | plans, actions with leases | scan, plan, apply | blob store, namespace |
| **v3 tree store** `db/tree_store.go` | the previous layout, under one global lease | as the namespace | kept for rollback |
| **migration** `db/tree_v4_migration.go`, `cmd/metadata-*` | migration journal | export, import, verify | stopped service |
| **Postgres store** `db/store.go`, `postgres_*.go` | tables | one SQL transaction per operation | external database |
| **blob stores** `blob/` | payload objects | open, write, finalise, delete | disk, GCS |
| **front ends** `api/`, `ftp/`, `vfs/`, `webdav/handler.go` | open handles | decode requests | all of the above |
| **share page** `web/share` | the record shown, the active request, the terminal latch | poll, refresh, confirm, open, leave | share jobs |
| **upload queue** `web/upload/application` | rows, runners, checks, sources, archive batches | add, check, decide, upload, retry, pause, resume, cancel, clear | upload sessions, upload panel |
| **upload dialog** `web/upload/presentation` | chosen files, options, running builds | choose, drop, group, build archives, abort | upload queue |
| **drift page** `web/drift` | plan dialog, actions, list, filters, ticks, rescan | estimate, start, poll, retry, dismiss, search, page, rescan | drift repair |
| **file browser** `web/files` | route, lists, selection, dialogs, operation followed | open, search, page, rename, move, trash, restore, delete, refresh | namespace, trash, durable operations, upload queue |
| **shell** `apps/web/app` (rest) | | routing, widgets, HTTP client | all pages |

What is hard in each, and what makes it correct:

* *v4 transactions.* A mutation of several objects is spread over many
  conditional writes; processes stop between any two; leases run out under
  processes that still run; replies get lost; readers, later writers and the
  janitor all repair what others left behind, at the same time. Correct:
  a transaction becomes visible all at once or never, no committed mutation is
  overwritten by one that never saw it, nothing stays pending for ever.
* *v4 namespace and trash.* Paths are resolved before leases are held. Correct:
  a node has one place, no node is lost or left without its payload, nothing
  is created below a directory that is going away, a group claimed for
  permanent deletion does not come back.
* *object backend.* A write whose reply is lost may or may not have happened, and
  a local generation is a hash of the content. Correct: a conditional write is
  reported as what it was.
* *derived aggregates.* Deltas are applied at least once, in any order, by
  reducers that overlap. Correct: totals converge to what the tree says, no
  delta counts twice.
* *durable operations.* Leases of two minutes, runners that outlive them,
  records that are not saved after the work is done. Correct: work is not
  repeated, a finished operation is reported as what it did.
* *upload sessions.* Completion is a saga that several processes may run at
  once and that is resumed from its last mark. Correct: a visible mapping has
  its object; a completed upload is visible; a cancelled or conflicting one
  is not, and leaves no object behind.
* *share jobs.* Delivery at least once. Correct: the result of a job is
  published, and the user notified, although deliveries overlap or vanish.
* *WebDAV locks, thumbnails, drift actions.* Check then act on leases; correct
  when two holders exclude each other and expired holders do no damage.

* *the web pages.* A handler reads state, sends a request and goes on when the
  answer arrives, by when other answers, timers, clicks and routes have changed
  what it read. Correct: an answer only changes what is still asked for; what
  is shown is not older than what was shown; what the user agreed to is what is
  done; a button that waits comes back; nothing given up keeps a slot, a file
  or a session.

Every hazard has its line in `PROJECT.json` ("hazards"), with the properties
that cover it, or the reason why none does yet.

## 2. Plan

In order of what the rest of the system rests on:

1. **TreeTxn** (done): the transaction protocol; abstract specification
   **AtomicNamespace**; proofs of both invariant and refinement.
2. **TreeNamespace** (done): operations on the tree and the trash, with a
   transaction as one atomic step - TreeTxn is what justifies that - and the
   permanent deletion that drives them; proofs of all its properties.
3. **Upload** (done): chunk writes, completion saga, cancel, expiry, recovery,
   with the mapping and the payload as shared state, and replacing an existing
   file; proofs of all its safety properties. Left: an abstract specification
   (an upload is published at most once and ends in exactly one outcome).
4. **SharePage** (done): the page of one share and the worker of its job;
   abstract specification **FreshView**; proofs of the invariant, the refinement and
   both action properties.
5. **UploadQueue** (done): rows, runners, checks, batches, with a small server;
   **Upload** models the real one. Proofs of all its safety properties.
6. **DriftActions**, **DriftList**, composed by **DriftPage** (done): proofs of both
   invariants.
7. **FilesPage**, **UploadDialog**, composed by **FileBrowser** (done): proofs of all four
   properties.
8. Left: **Operations** - claim, run, checkpoint, finish, resume, composed with the
   deletion steps of TreeNamespace.
9. Left: **DerivedReducer** - emission, batches, tokens, compaction, rebuild. Abstract
   specification: a total is the sum of the deltas emitted. Theorem: no
   delta counts twice.
10. Left: **ObjectBackend** - hedged writes and lost replies against an atomic
    compare-and-put - the abstract specification all other modules assume.
11. Left: **DavLock**, thumbnails, the outbox and relay of share jobs.

What exists has a theorem for every safety property of a run; the further theorems
are those of the modules that are left.

## 3. TreeTxn: the transaction protocol

### State

| Variable | Code |
|---|---|
| `env[k]` | the envelope object of participant *k* (`treeV4Envelope`): `cur`, and `pend` tagged with its transaction |
| `man[t]`, `jnl[t]` | status in the manifest under `transactions/active/` and in its copy under `journal/` |
| `lease[r]` | the lease object of resource *r*: owner, and whether `Until` is still ahead |
| `late` | transactions whose `LeaseUntil` has passed |
| `seen`, `todo`, `pc` | local variables and position of the process that runs *t* |

A value is named by the transaction that wrote it and a generation by the
content it stands for. The local backend really uses a hash of the content
(`tree_backend.go:108`); GCS generations distinguish more, so they only make
more conditional writes fail.

### Actions

A leased transaction goes `Begin` (manifest `preparing`), `Acquire` one resource
at a time in sorted order, `Acquired`, `Read` (through `visibleEnvelope`), `Plan`
(participants recorded), `Prepare` one participant at a time, `Verify` (leases),
`Commit` (manifest `committed`), `Release`/`Released`. A same-parent rename goes
`Begin`, `Read`, `Plan`, `Prepare` (folding what it found into `cur`), `Commit` (the
manifest is *created* as committed), or `Resolve` after a lost reply. `Fail` is any
error before the decision, `Crash` stops a process for good anywhere.
Others - readers, later writers, finalisers, the janitor - take `Settle`, `Discard`,
`ForceAbort`, `Archive`, `Unlink`; time is `DeadlinePasses` and `LeaseExpires`.

What the model simplifies, and why that is sound:

* A helper of the code that repairs an envelope before it goes on
  (`normalizeEnvelope` inside `prepareMutation`, promotion inside a snapshot) is
  the corresponding repair action followed by the caller's own: the two are
  separate conditional writes in the code too.
* The rename's fallback to leases after repeated conflicts (1532-1563) is a
  leased transaction with a new id.
* `requireAbsent` and errors of a build are `Fail`. Giving up on a lease after
  `treeCASAttempts*8` tries is `Fail`, too.
* `Verify` reads several leases as one step; each is only compared with what the
  transaction itself wrote.
* `transactOptimistic` has no callers and is not modelled.
* While a rename does not know whether its commit went through, only the janitor
  archives its manifest, after it has settled the participants. The code
  ignores errors of that settling (`tree_v4.go:1162`); a failed promotion *on top
  of* a lost reply is outside the model.
* Clock skew between instances and writes that arrive after their sender has
  given up are not modelled.

Time. A lease or a deadline may run out at any moment *for a process that has
stopped*, and before its last check for one that runs. What separates the code's
assumption from what it enforces is the constant `Faults`: with `"stall"` a process
may be arbitrarily slow between its last check and its decision. With it the
protocol does not hold (finding 2; *NoLostUpdate* of two leased
transactions fails with it in the same way). `"lost_reply"` lets a rename lose the
reply of its commit. A lost reply of a leased commit is harmless: nothing else
is decided under that id afterwards.

### Runs

Two shards with one lease each; transactions *a*, *b*, *c* leased without
generation checks, *f* a leased `renamePath`, *r*, *s* same-parent renames; *c*, *f*
and *s* touch one shard, the others both. Two shards are what it takes to see
half of a transaction and to take leases in an order; two or three transactions
give every pair of kinds; ids are never reused in the code, so a retry is one
more transaction.

| Run | Checks | Shows |
|---|---|---|
| `txn_leased` {a, b} | `TypeOK`, `AtomicPublication`, `NoLostUpdate` | leased transactions exclude each other, through crashes, take-overs and the janitor's aborts |
| `txn_mixed` {f, r, s}, lost replies | `TxnInv`, `AtomicPublication`, `NoLostUpdate` | the invariant of the proof; renames and generation-checked transactions need no common lease |
| `txn_progress` {a, c}, stalls | `LeaseWaitEnds`, `ManifestsDrain` | whatever stops, waiting for a lease ends and every manifest gets decided and archived |

*Fairness* (`FairSpec`): weak fairness of the janitor's steps (`RunDerivedReducerLoop`
runs it every few seconds in every instance), of deadlines and leases running
out (clocks advance), and of a waiting process polling for its lease
(`acquireLease` loops). None on a process that holds a lease: it may stop.
`LeaseWaitEnds` therefore says that waiting ends, by a lease or by giving up,
even if every holder dies.

### What is proved

`TreeTxnProofs`, for every set of
participants, resources, transactions and leases, under `TxnAssumption` (constants
are of their types, a rename has no leases, *Fenced* are not renames) and, except
for the first, `NoStalls`: no `"stall"` in `Faults`, or no renames.

| Theorem | States |
|---|---|
| `TypeCorrect` | `Spec => []TypeOK` |
| `TxnInvariant` | `NoStalls => (Spec => []TxnInv)` |
| `Refinement` | `NoStalls => (Spec => AtomicPublication)`: TreeTxn implements AtomicNamespace |
| `CheckersLoseNoUpdate` | `NoStalls =>` a transaction that checks generations (a rename, or one of *Fenced*) commits only over the versions it read |
| `LeasesLoseNoUpdate` | `"stall" \notin Faults /\ Guarded => (Spec => NoLostUpdate)` |

That readers see a transaction at once is not inductive: one has to know why a
pending value cannot be taken away before its decision. `TxnInv` says it in
seven parts. `PendingOwned`: a pending value belongs to a transaction that got as
far as preparing it. `PreparedHeld`: what a transaction has prepared stays in
place until its decision - so that `Commit` shows *all* of it. That needs
`PhaseAgrees` (a leased transaction is resolvable from its first step, so nobody
finds its pending value without a manifest; a rename that has not published has
no status at all) and `LateStopped` (a rename past its deadline will not commit -
the one place `NoStalls` is used). `DecisionKept`: the journal and the active
manifest agree, except when an unsure rename contradicts its own archived
commit, and then nothing of it is pending any more. `SnapshotSound` and
`BuiltOnCurrent`: what a rename or generation-checked transaction read is what it
replaces; they give `CheckersLoseNoUpdate`. Only `renamePath` and same-parent renames check
(`tree_v4.go:786`), so the theorem is about them, and says nothing of the leased writers beside them,
which may well undo what they did (finding 1).

The refinement maps a reader's view and the set of committed transactions to
AtomicNamespace. `CommitPublishes` shows that `Commit` is a `Publish`;
`OthersKeepView` that every other action leaves both as they are.

`LeasesLoseNoUpdate` is about transactions that do not check generations and so
depend on their leases. `Guarded` is what the code's choice of leases gives: such a
transaction shares a lease with every other one it shares a participant with. That is
so for two leased mutations, which take the lease of each shard they touch, and not
for a leased mutation and a rename, which takes none (finding 1). The invariant is
`LeaseInv`. `LeasesHeld`: the leases a transaction verified are still its own when it
decides - the place where a process slower than its leases is excluded. `ReadCurrent`:
as long as a transaction holds all its leases, what it has read is what a reader gets
now. It is kept because a commit that changes a participant comes from somebody
who shares it, holds all of its own leases by `LeasesHeld`, and so one of the reader's
(`ReadsKept`); and because nobody gets all leases back after losing one
without starting again (`HeldBefore`). TLC finds `LeaseInv` in all states of
`txn_leased`, with `Tx = {"a", "b"}` and `{"a", "e"}`, *e* a `renamePath` of both shards.

Only model-checked: the liveness properties.

## 4. TreeNamespace: the tree, the trash, permanent deletion

### State and actions

`ent[d][n]` are the entries of directory shards, `man[i]` the manifest of trash
group *i* (root node, original path, `Deleting`, cleanup plan), `rec` the nodes whose
own records are stored, `obj` the files whose payloads are. Each process has a
request and goes through

* `Plan...`: what the code reads before it holds leases - paths resolved, shards
  to lease chosen, the subtree walked;
* `Build...`: the leases are there, what the code checks again is checked again, and
  the new contents of *whole shards* are computed;
* `Commit`: they become visible. `Abandon` is every error and every crash before that.

`AtomicPublication` (proved of TreeTxn) is why `Commit` is one step, its leases are
why two processes between `Build` and `Commit` hold disjoint ones. The model takes
all leases in the step that needs the last of them; in the code they come one
by one, which excludes more. Requests: create (a file that must not exist, or a
directory), delete, move of one root (also `renamePath` between directories),
trash, restore, and purge - `deletePermanentlyWithCheckpoint`: `PlanClaim`, `Claim`,
`Collect`, `Erase` one payload at a time, `Review` (deleteTrash reads the manifest
again), `SaveCleanup` (the list of keys is stored before anything goes), `Clean` one
key at a time, `DropManifest`. A purge that is abandoned starts over.

Left out: the lease on a path and on a legacy id (the lease on the shard covers
them), the directory cache, thumbnails, batches of several ids or roots (for the
trash the code runs one transaction per id), replacing an existing file. Keys of one
class are deleted in one fixed order.

**Where the code does not look again.** Three operations use what they read before
their lease without reading it again: `trashOne` the place of the parent
(`tree_v4_trash.go:122`), `restoreTrash` the parent and the manifest (`:274`), `claimTrash` the
manifest (`:320`); and `PlanMove` compares *paths*, so that moving `/x` below `/y` and `/y` below
`/x` at once passes both checks, holds disjoint leases, and leaves a cycle that is reachable
from nowhere. The model does what the code does: `Spec` has all these behaviours, and in it
most of what one would like to be true is false. `ApartSpec` is `Spec` restricted to behaviours
in which requests do not meet there, `Apart`, a conjunction of

| Clause | No two requests such that | Without it TLC finds violated |
|---|---|---|
| `GroupsApart` | one has looked at an unclaimed trash group, to restore or purge it, and has no lease yet, while another is restoring or purging it | `NamespaceInv`, `NoOrphan`, `LiveIntact`, `AddedToLive`, `ClaimBlocksRestore` |
| `ParentsApart` | one has found its parent, to trash or restore, and has no lease yet, while another is about to trash or delete that parent | `NoOrphan`, `LiveIntact`, `AddedToLive` |
| `MovesApart` | both move a directory and are between `BuildMove` and `Commit` | `NoOrphan` (in an instance with crossing moves) |

What holds of `ApartSpec` is therefore a promise of the code to callers that keep such
requests apart, and no more; nothing in the code keeps them apart. `tree_claim` shows the violation a
document of the repository denies (finding 3). A stale claim can also put a manifest without its
cleanup plan over one that has it, which after a crash loses what the plan was
stored for (`tree_v4_trash.go:426`). `TypeOK`, the leases and `NothingOverwritten` hold of `Spec`
as it is.

### Runs

The tree `/x/x/y` (a file below two directories) and `/y`, a new file and a new
directory, two trash groups, and five processes with a choice of requests each
that overlap pairwise: creating below a directory that is trashed or deleted,
moving out of and into it, trashing a tree and a part of it, restoring while
it is claimed, two deletions of one group, one of which may die at any step and
start over. Three levels are what it takes to have a shard of a subtree that
the root's lease does not cover.

| Run | Checks | Shows |
|---|---|---|
| `tree_ops` (`ApartSpec`) | `NamespaceInv` (`TypeOK` and `OnePlace`), `NoOrphan`, `LiveIntact`, `AddedToLive`, `NothingOverwritten` | while requests do not meet where the code does not look again, no node is duplicated, lost, or live without its payload and records; nothing is put where it cannot be seen; no entry is overwritten |
| `tree_claim` (`Spec`: a process that trashes, one that restores, one that deletes for good) | `ClaimBlocksRestore`, violated | a restore that looked before the claim commits after it, and the group is live while its payloads are erased |

These are safety runs of processes that finish, so deadlock is not checked (the
system stops when all requests are done).

### What is proved

`TreeNamespaceProofs`, for any finite set of directories, any files, names, shards,
trash groups, processes and requests, under `NamespaceAssumption`: the initial tree
is a tree (`IsTree`), requests are requests, and ids of new nodes and of new trash
groups are fresh (`FreshIds`; both are uuids, `tree_v4.go:1237`). The premises are those of the
table above: `LooksApart` is `GroupsApart /\ ParentsApart`, `Apart` adds `MovesApart`.

| Theorem | States |
|---|---|
| `NamespaceLeased` | `Spec => []LeasedInv`: what is built is leased, and leases are disjoint |
| `NamespaceTypes` | `Spec => []TypeOK` |
| `NothingIsOverwritten` | `Spec => NothingOverwritten` |
| `NamespaceInductive` | `Spec /\ []LooksApart => [](NsInv /\ Looks)` |
| `NamespaceAlways` | `Spec /\ []LooksApart => []NamespaceInv` |
| `LiveIntactAlways` | `Spec /\ []LooksApart => []LiveIntact` |
| `ClaimAlwaysBlocks` | `Spec /\ []LooksApart => ClaimBlocksRestore` |
| `NoOrphanAlways` | `Spec /\ []Apart => []NoOrphan` |
| `AlwaysAddedToLive` | `Spec /\ []Apart => AddedToLive` |

The first three are about the code as it is, whatever meets: `NothingIsOverwritten` because every
operation looks at the entry it fills, or knows it from a shard it read, under the
lease on that shard, and nobody without the lease changes it. The others say how far the
code gets if the meetings above do not happen. In the proofs the premises are used
in `Looks`: what a request has read of its group or parent before it had a lease is still so.

None of these properties is inductive. What one has to know is that what a
process checked under its leases is still true when it commits, and that what a
permanent deletion is about to erase cannot be seen by anybody. `NsInv` says it
without a word on reachability, which no single step can be shown to preserve:

* a node is `Placed` when an entry or a manifest names it, `Unborn` while the create
  that will name it is under way, and `Gone` when neither is so and it has no entries
  left. A directory is `Standing` when it is placed but in no trash group. `Group(i)` is
  everything below the root of group *i*, with its cleanup plan;
* `TreeOK`, `FreshOK`: a node is in one place; ids to come are nowhere yet;
* `GroupOK`: a cleanup plan, once stored, is closed - entries of its directories lead
  into it, and nothing outside does - so that erasing it in any order orphans nothing;
* `StoredOK`: what is placed and not `Doomed` (in a claimed group) is stored in full;
* `PlanOK`, `BuiltOK`, `LeasesOK`: what is about to be committed is what would be
  computed now (`Published`), its directories stand, and two such processes have
  disjoint leases, which cover every shard they touch;
* `PurgeOK`: what is left to erase is in the group the process claimed, or `Gone`.

Every commit is `Orderly`: it writes only into standing directories, and leaves
claimed groups and whatever is standing but not trashed by it as they are;
every deletion step `Erases` only in claimed groups or what is gone. Both are shown
once per operation; that the rest of `NsInv` survives follows for all at a time.
`LiveIntact` follows because `Below(Root)` meets no group (`LiveStands`).

For the last two, `ReachInv` adds that every stored node is live or in a group
(`Reached`), and that the target of a built move is not below what it moves (`Clear`, which another move of a directory could break - hence
`MovesApart`). With it, what stands is live (`StandingIsLive`), and therefore
what the operations check under their leases is what `AddedToLive` asks for.

`TreeWalks` has the lemmas about walks: `Subtree`, a recursive function over the
number of steps, is the least closed set that has its root (`SubtreeIsBelow`). That
needs induction over data; the library's induction theorems cannot be
instantiated here, so it is done from the fact that a non-empty set of naturals has a
least member.

## 5. Upload: bytes, completion, cancel, recovery

### State and actions

| Variable | Code |
|---|---|
| `rec[u]` | the stored session (`UploadRecord`): status, completion mark, owner and lease, uploaded size, the target's snapshot (`expect`), cleanup |
| `off[u]` | the length of the local staging file, or of GCS's resumable session; -1 when there is none |
| `obj`, `at`, `trash` | stored payloads; the payload the path maps to; payloads the trash refers to |
| `task`, `sess`, `pc` | the request a process serves, the session it may write back (with the revision it read), its position |
| `old`, `driver`, `trouble`, `shown` | sessions past `ExpiresAt`; the storage in use; the bound on crashes and errors; which uploads were ever published |

A request starts with `Look` (`Find`): the record is read, compared with the bytes
that are there, and may first be reconciled (`Reconcile`) or expired (`Expire`). Then

* *write*: `BeginChunk`, `StoreChunk` (all of the chunk, none of it, or more than it
  should be: `RollbackChunk`), `EndChunk`. A browser writes to GCS by itself
  (`DirectWrite`) and the object exists with the last byte;
* *complete*, *recover*: `RequestCompletion`, `ClaimCompletion`, and from the mark in the
  record on `Finalize`, `MarkObjectReady`, `Publish`, `MarkPublished`, `MarkComplete`. A
  publication that finds another file goes `Recheck`, `CheckReferences`, `Discard`,
  `MarkConflict`; an error goes to `Retry`; a complete upload to `InspectCleanup`,
  `Unlink`, `MarkCleaned`;
* *cancel*: `RequestCancel`, `Withdraw`, `EraseUpload`, `MarkCancelled`.

`Crash` stops a process at any place; its lease stays in the record until
`LeaseExpires`. `Error` is a call that failed. `Vacate` trashes what the path shows.
All uploads go to one path, because only then do they have anything to do with
each other.

Simplifications. Record and offset are read in one step: what is written from
them is conditional on the record's revision. `Publish` is one step by TreeTxn. An
owner is a fresh uuid in the code, so the name of a process that stopped is
replaced by `Gone`. Deleting the trash for good is TreeNamespace's; here what is
in the trash stays. Left out: thumbnails and shares as further references, the
check for keys of an older scheme, creating parent directories.

### What is assumed

`Faults` switches on what the code does not survive; each was tried:

| Fault | What it allows | With it |
|---|---|---|
| `oversize` | a body longer than its range | checked in `upload_bytes` |
| `lost_reply` | `Publish` or `Discard` takes effect and reports an error | `CancelledHidden` fails (finding 4) |
| `stall` | a lease runs out under an owner that still runs; 30 s, never renewed | two completers act at once; in no checked run |
| `vacate` | the file is trashed between publication and the mark for it | `PublishedOnce` fails for an upload that requires an absent path: it is published again, while the first is in the trash |

Without `lost_reply`, `Error` only happens where the record shows what the failed
completion has done so far; otherwise it would be the same fault by another way.

### Runs

| Run | Checks | Shows |
|---|---|---|
| `upload_saga`: two uploads of one chunk, a handler and a recovery loop, two troubles, both drivers | `VisibleStored`, `CancelledHidden`, `OutcomeTrue`, `PublishedOnce` | each upload has one outcome, the one reported; nothing visible loses its payload, through conflict, cancel and cleanup |
| `upload_bytes`: one upload of two chunks, two handlers and a recovery loop, one trouble, both drivers | `TypeOK`, `LosersLeaveNothing`, `CompletionSettles` | chunk races, oversize bodies, expiry; a completion asked for ends |
| `upload_cancel` | `CancelledHidden` violated | finding 4 |

Two uploads are what a conflict needs; two chunks what a wrong offset needs; two
troubles are a crash of the owner and one of its successor. Deadlock is not
checked: when every session is over and every path is taken nothing need happen.

*Fairness* (`FairSpec`): requests go on (weak); a lease runs out once its owner has
stopped (weak); each scan of `RunRecovery` takes all due sessions, the longest
waiting first, so a session that is due again and again is taken up (strong). None on
writing, cancelling or completing: clients may go away.

`CompletionSettles` excepts a session that is `Spoilt`: a late chunk has made a new
staging file beside the object (finding 5), or the rollback of an oversize chunk
has cut off what another request had appended to a file that is already counted
as complete. Finalise then fails for ever. On GCS `LosersLeaveNothing` says
nothing of cancelled uploads: a cancel that read a stale size before the browser
wrote the last byte leaves the object behind. A cancel interrupted in
`cancelling` is not taken up by recovery, and cleanup stays pending for ever once
the path shows something else; neither is claimed.

### What is proved

`UploadProofs`, for any sessions, processes, requests, sizes and numbers of troubles,
under `UploadAssumption` (names are distinct, requests are of known operations).
`TypesAlways` holds under every fault, the others under `Calm`: `Faults` has none of
`"lost_reply"`, `"stall"`, `"vacate"` - each of which the table above says what it breaks.

| Theorem | States |
|---|---|
| `TypesAlways` | `Spec => []TypeOK` |
| `StoredAlways` | `Calm => (Spec => []VisibleStored)` |
| `HiddenAlways` | `Calm => (Spec => []CancelledHidden)` |
| `OutcomeAlways` | `Calm => (Spec => []OutcomeTrue)` |
| `PublishedOnceAlways` | `Calm => (Spec => PublishedOnce)` |
| `LosersAlwaysLeaveNothing` | `Calm => (Spec => []LosersLeaveNothing)` |

None of the properties is inductive. `SagaInv` adds what ties a record, the path and the
position of each process together:

* `RequestOK`, `CopyOK`, `RecordOK` (types, under every fault): a request is for a session
  that exists; status and completion mark agree; a finalising session has an owner.
* `PlaceTrue`: who works on a completion owns a live lease and the mark in the record is the
  one this place expects (so two completers exclude each other - *this* needs that
  there is no stall); who may delete an object knows that nothing shows it.
* `RecordTrue`: a published upload is past `object_ready` and can no longer be cancelled; and
  an upload whose mark lags behind its publication - the crash between `Publish` and
  `MarkPublished` - meets a path that is not its snapshot, so that publishing it again
  finds a conflict, which `Recheck` recognises as its own file. That a path never returns
  to an upload's snapshot follows from `expect` being empty, the old file or an upload
  published before, and from each being published once; it is why `vacate` is
  excluded. An object that is missing at `object_ready` was discarded by
  a refused publication, and the path differs from the snapshot for the same reason.
* `PathTrue`: what the path or the trash shows was published and has its object.

`LosersLeaveNothing` needs one more invariant, `Left`, about bytes. An upload through
the server becomes an object only in its completion, so one whose completion was
never asked for, or whose bytes are not all there, has none. In GCS an object exists
with its last byte, and bytes that were once seen to be complete stay so: nobody
appends to them, and a rollback is for what the server wrote. The places that rest on
the *absence* of an object - `refusing`, after the discard, and `withdrawn`, after the
cancel's deletion - can only be disturbed by a completion of the same upload, and
`PlaceTrue` excludes one.

Only model-checked: `CompletionSettles`, which is liveness.

## 6. SharePage: a share and the page that follows it

### State and actions

| Variable | Code |
|---|---|
| `req[s]` | a request of `web/share/application/share-request-coordinator.ts` from `run` until its promise settles; `latest` is the comparison of generations |
| `active`, `terminal` | `activeRequest` and `terminal` of the coordinator |
| `shown`, `loading`, `starting`, `page` | the view state of the controller, and whether it is mounted |
| `rec` | the stored share: status, `CompletedAt`, `ProcessingBy`, dispatch status; `version` counts what a reader can tell apart |
| `job[w]` | what a worker of `share/service.go` is doing |

The page takes `Open`, `Leave`, `Poll`, `Refresh`, `StartShare`, `Expire` (the deadline) and
`Settle`, which is what the promise's continuation does with an answer. `Handle`,
`Reload` and `Lose` are the network and the API; a start the page has given up may
still arrive (`HandleStray`). Workers take `Deliver` (`ClaimShareJob`), `Uploaded`, `Notified`,
`JobFails`, `Release`; `Stop` is a process that dies and `LeaseEnds` its lease running out.

Simplifications. A start only asks for a dispatch, as `RequestShareJob` does. The
relay and the queue are `Deliver`, which may happen any number of times while a dispatch
is due. What is uploaded and how people are told is left out. Two requests at a
time are what it takes for one to overtake the other; a third one would only be
outdated by the same rule.

### Run, fairness, proofs

`share_page` (two requests, one worker, one trouble: lost, failed or slow request, failed
job, dead worker) checks `PageInv`, `ShownIsFresh`, `StepsForward`, `OutcomeKept`, `StartingEnds`,
`BusyIsWatched`: only the newest request changes the page; a ticked step is never taken
back; a notified share stays so; the button comes back; a busy share is watched
until the page can say more.

`FairSpec` assumes that timers fire (`Poll`, `Expire`), promises settle, the server answers
what reached it, workers go on, leases end and due jobs are delivered (weak), and
that the newest request is answered and a useful answer settles (strong: pressing
Refresh for ever just before each answer is not a behaviour of users).

`SharePageProofs` proves, for any requests, workers and troubles, `SharePageInv`
(`Spec => []PageInv`) and `SharePageFresh` (`Spec => ShownIsFresh`: the page implements FreshView, it shows
versions the record really had and never goes back). `PageInv` is inductive as it stands
because `RepliesFresh` bounds *every* answer by the record, and the answer of the newest
request by what is shown; `OneLatest` is what makes the second half survive another
answer.

`OutcomeAlwaysKept` (`Spec => OutcomeKept`) and `StepsAlwaysForward` (`Spec => StepsForward`) need
what workers and answers know. `JobsTrue`: the owner in the record is the only worker
with a job, an upload job finds the share not completed and a notify job finds it
completed; so a delivery that was given up and run again cannot undo the other's
outcome. `KnownInOrder`: of any two records the page knows - shown, or in an answer
on its way, or stored now - the one of the later version is at least as far. A ticked
step is then kept because the page never takes an older record (`PageInv`).

The liveness properties (`StartingEnds`, `BusyIsWatched`) are model-checked only.

## 7. UploadQueue: the queue of the browser

### State and actions

| Variable | Code |
|---|---|
| `item[k]` | the row (`upload-queue-controller.ts`): state, batch, what preflight said, `overwrite`, session, retries |
| `runner[k]` | an attempt of `startUpload` and its cancellation: the request it waits for |
| `checks` | preflight requests in flight |
| `held`, `batches` | `UploadSources`; archive batches whose thumbnail waits |
| `file`, `srv`, `stray` | the server: paths, sessions, requests nobody waits for any more |
| `approved`, `asked` | what the properties remember: the version the user agreed to replace; sessions whose cancel was sent |

A synchronous handler and the continuations it triggers are one step, because no
other event can come between them; `Schedule` at its end starts the first queued
rows while slots are free. A runner goes `create` or `status`, `put`, `reconcile`, `complete`,
`deciding`; errors lead to `sleep` (retry with delay), to `recheck` (the target changed) or to an end.
The buttons are `Pause`, `Resume`, `Cancel`, `Retry`, `Dismiss`, `ReplaceOne`, `SkipOne`, and those for
all. The server finalises, expires sessions, and somebody else writes.

Simplifications. A file has at most one chunk; the server's steps are atomic but for
finalising, which `Upload` has in detail. When a request is cancelled while its answer is
read, the cancellation wins. Byte counts, progress and disposal are left out.

### Runs and fairness

| Run | Checks | Shows |
|---|---|---|
| `upload_queue`: two rows (one empty file), two paths, one slot | `QueueInv` (with `SourcesHeld`), `NoIdleSlot`, `BatchesWait`, `NoForgottenSession` | rows, runners, checks, sources, batches and sessions agree in every state, after every sequence of buttons, errors and late answers |
| | `NoBlindReplace`, `RowsSettle` | only the version the user saw is replaced; once rows are not paused any more, each comes to rest |

Two rows and one slot are what it takes for a row to wait and to be passed over, and two
rows for one path to be duplicates; one retry and one trouble reach the limit of
retries. `MCUploadQueue` bounds what only multiplies states: of the requests that are given up, those
of the first row may still arrive (`MCLingering`: a chunk, a cancel), and the second path only
receives parts of two-part archives and is written by nobody else (`PathsApart`), so that rows
on two paths are those of one batch.

The answer to a `createUpload` may be lost after the server handled it (`NetworkFails`): the session
stays open, the client does not know it, and the retry creates another
(`upload-queue-controller.ts:198`). Nobody cancels such a session; it is left to expire.
`NoForgottenSession` is therefore about sessions the client was told of (`known`): for one whose answer was lost the
code has no promise to check. A row has one session in the model, so the lost one is followed until the
retry replaces it.

Fairness: each request, check and finalisation ends. `RowsSettle` assumes that the user stops
pausing rows: a row that is paused and resumed while its session is created does pass
others for ever.

### Proofs

The runs have two rows and one slot; the proofs are for any number of rows, slots,
paths, retries and troubles.

`UploadQueueProofs` proves `SourcesAlways` (`Spec => []SourcesHeld`, a conjunct of `QueueInv`), `BatchesAlways` (`[]BatchesWait`) and
`ReplacesAgreed` (`NoBlindReplace`) from one inductive invariant, `QueueIInv`. What it adds:

* `Agree`, `ChecksApart`: what a live runner, or a check on its way, says of its rows. A row
  that completes is therefore in no check, a removed one leaves no runner that
  goes on, and a batch never loses a part behind the back of `Abandoned`;
* `Agreed`, `Unasked`, `Wanted`: a session wants what the user agreed to when it was
  created, and once a row has a session, nobody is asked again - a row goes back to
  preflight only without one. This is why an approval cannot get newer than the
  session that rests on it, which is what `NoBlindReplace` needs;
* `NewLast`: rows are added in the order of their keys.

Two more are `NoSlotIdles` (`[]NoIdleSlot`) and `QueueAlways` (`[]QueueInv`). Every step has one of
two shapes (`Shape`): it ends in `Schedule` and started no runner of its own (`Refills`), or it
frees no slot and adds nothing that waits (`Rests`). `ScheduleFills` and `ScheduleFits` are the
counting arguments about `nextRunnableUploadKeys`: what it leaves waiting found all slots
taken, and the last row it starts still found one free.

`NoSessionForgotten` (`[]NoForgottenSession`) rests on `SessionsNoted`: a session the server
keeps open or uploaded, and the client was told of, is known as such to its row, which is neither complete nor
skipped; and when the row is gone its cancellation was asked for. The property only
speaks of rows without a runner, but the invariant has to hold while an answer is on
its way too, and for that a row that is decided or checked again must have no session
(`Unasked`, `Wanted`).

`RowsSettle`, which is liveness, is model-checked only.

## 8. DriftPage: moves and rescans

`DriftActions` has the dialog (`plan`, `acknowledged`, `starting`), the rows of actions, the list
request and the round of polls, the two buttons of a row, and the server's action,
goroutine and dismissal (`drift/action.go`). `DriftList` has the search field and its timer,
filters, page, list requests, ticked rows, the rescan shown, and the server's rescan
and snapshot (`drift/scan.go`). The two share no state, so `DriftPage` runs one part at a
time: a product would show nothing more.

`drift_page` (two plans of which one may start, two edits, two rescans, one trouble in
each part) checks

* `DriftInv`: objects are moved only for a plan whose cost was acknowledged while it was
  shown. Two plans are what it takes to acknowledge one and start another;
* `ListInv`: at rest the list is that of the filters shown and not older than the rescan
  reported, and no tick is carried over a change of either;
* `MovesEnd`, `ScanShown`: a move or rescan ends on the screen although the process that
  runs it dies - a goroutine is only started again because a reader finds it without
  one, so the polls are part of the argument.

Fairness (weak): requests end, timers and intervals fire, goroutines run, leases end. No
user has to do anything. `ScanShown` excepts a list whose load failed, which the page says.

`DriftProofs` proves `AcknowledgedAlways`: `PagesSpec => []DriftInv` for any number of
plans, starts and troubles. `DriftInv` is not inductive: a start is safe because the plan
shown was not started before - otherwise taking the acknowledgement back would
take it from an action that runs. `DriftIInv` adds that (`ShownIsNew`), that plans are numbered
as they are made (`PlansMade`), and that answers on their way are of actions that
exist (`AnswersReal`).

It also proves `ListAlways`: `PagesSpec => []ListInv` for any number of edits, filters,
rescans, requests and troubles. `ListIInv` adds that of the requests in flight at most one
is the latest (`OneCurrent`); that no report is of a rescan that was not begun, and one that is
called completed has saved its snapshot (`Numbered`, `Saved`); and that the answer the page waits
for is for the filters shown and not older than the rescan applied, unless loading is
due again (`Coming`) - without it, an answer that arrives could be an old one.

## 9. FileBrowser: the folder page and the upload dialog

`FilesPage` has one controller (`files-controller.ts`) that outlives the pages mounted on it:
`route` is the page, `at`, `search`, `offset` the controller; `lists`, `bins`, `asked` are requests in
flight, `calls` the changes asked for, `banner` and `monitor` the operation shown and the one
followed; `content`, `bin` are the server and `known` the versions the page was told of.
`UploadDialog` has the chosen files, drops that are still read, options, and the builds
with what they were started with; `given` is what the queue got. Grouping and unique names
are operators (`Grouped`, `Ordered`, `UniqueArchiveName`, `ArchiveNames`, `BuildArchivePlans`). Which files there
are, how they are called, which of them sit in a folder and which cannot be decoded are
constants: a file is a number, in the order of the paths, and a name a sequence of words,
the suffix `(n)` being one more word, so that a file may already be called like another with a suffix.
`FileBrowser` runs one of the two at a
time: they meet only in the folder shown, which the dialog reads.

`files_page` checks

* `FilesInv`: a folder that rests without an error is the one of the route, with its query
  and page, and not older than any change, operation or published upload the page was told of. An
  upload whose completion was answered with 202 completes its row before it is published
  (`api/uploads.go:186`); nothing tells the page when it is (`PublishLate`), and the list stays old
  until something else reloads it;
* `DeletesChosen`: what is deleted for good is what was chosen when the dialog opened;
* `DialogInv`: the archives queued hold the files of the moment the build was started, each once,
  under names that differ, for the folder shown then; the thumbnail is an image of
  the archive that can be decoded; a build that was cancelled in time, or failed, queues nothing;
* `FilesStayListed`: while a build runs, and when it is cancelled or fails, its files stay in the list of
  the dialog it was started from.

Bounds: three acts of the user, two changes, one upload, one trouble on the page, of the last
three kinds at most three in one behaviour (`Few`); nine steps, two builds, one trouble in the dialog. Two changes are what it takes for answers to
overtake each other; three acts to choose, confirm and do something else. `MCFileBrowser` has three files: a
folder with two (one no browser can decode, with a name that collides with the suffix
scheme) and a single one; nine steps let a second dialog build beside a detached build.
Split archives, selection in folders and sharing are left out. These are safety runs: nobody has to do
anything, and nothing is assumed of requests. Deadlock is not checked in any
run of the web modules, since users may stop.

`FileBrowserProofs` proves `FilesAlwaysCurrent` (`BrowserSpec => []FilesInv`) and
`DeletesAlwaysChosen` (`BrowserSpec => DeletesChosen`) for any number of acts, changes, uploads
and failures. `FilesInv` is not inductive: an answer that arrives must not make the
folder older than what the page was told of while it was on its way. `FilesIInv` adds

* `FreshOK`: of the requests in flight only the newest may become the list; it is for
  the route, query and page of the controller; once answered it is as new as what the
  page knows - unless an upload completed since, in which case the folder is in
  `told` and a reload is due. Everything that tells the page of a newer version
  (`AcceptMutation`, `MonitorOperation`, `RefreshUploaded`) therefore has to ask again in the same step;
* `StoreOK`: the page is told of no version the server does not have;
* `DeletingOK`: while the delete dialog is open it holds what the user chose.

`DeletesChosen` follows because only that dialog makes such a call, and because what
replaces a call later keeps its number.

`ArchivesAlwaysRight` (`BrowserSpec => []DialogInv`) holds for any files, names, folders and
selections. It rests on what the operators compute. `PlansMade`: whatever the options, the plans made of
a list hold each of its files once, under names that differ. The recursion in
`ArchiveNames` and the order of the groups are settled by a smallest counterexample
(`LeastNumber`) instead of an induction theorem; `SuffixFree` is why the search for a free
suffix ends: one more suffix is tried than there are names. `FirstDecodes`: the image chosen is one of the
archive that can be decoded, if there is one. The invariant `DialogIInv` then has

* `Numbered`: builds are told apart by their numbers, also once the dialog that started them is gone;
* `Sound`, per build: its plans are those of its files (`PlansKept`); a thumbnail that
  was found decodes, and none is missing once the first entry is packed (`ThumbnailsKept`); and a build
  cancelled in time still has an entry or an archive to begin, which is where the abort is
  looked at (`AbortSeen`) - the last archive is closed without a look;
* `OneMine`, `MineShown` (which give `FilesAlwaysStayListed`): the dialog has one build under way at most, stays in the archive
  step, and its list still holds the files of that build;
* `Handed`: what the queue got under the number of a build is exactly its archives if
  it ended well, and nothing otherwise.

TLC finds `DialogIInv` to hold in all states of `files_page`, as it does for `FilesIInv`.


## 10. Findings

Findings 3 and 4 are runs; the others were found the same way and are reproduced by
a configuration of a few lines, given with each.

1. **A leased mutation undoes a same-parent rename.** Renames take no
   lease and only `renamePath` sets `enforceGeneration` (`db/tree_v4.go:786`). A `replaceFile`
   that has read a shard prepares the value it built from it although a rename of
   the same shard committed in between. `docs/metadata-v4-cutover.md:108` asks to
   "Confirm no lost update, duplicate live path, missing path".
   (`txn_leased.cfg` with `Tx = {"a", "r"}`: `NoLostUpdate` fails.)
2. **A slow rename commits half.** The commit of a rename does not look
   at the deadline in its pending values (`db/tree_v4.go:1682`), while others may drop
   them once it has passed. The comment at `db/tree_v4.go:827` says its "embedded lease
   prevents another writer from discarding a live preparation".
   (`txn_leased.cfg` with `Tx = {"r", "s"}`, `Faults = {"stall"}`: `AtomicPublication` fails.)
3. **A claim does not stop a restore** (`tree_claim`). `restoreTrash` looks at `Deleting`
   before it holds the lease (`db/tree_v4_trash.go:262`) and does not look again at its commit (`:274`);
   `docs/operations.md:53` says a claim prevents another instance from restoring a
   mapping "while its local or GCS object is being deleted".
4. **A cancel deletes a visible file** (`upload_cancel`). A publication whose error comes
   after its effect (a lost reply, or the read at `fileops/commands.go:241`) is
   retried from the start, and `RetryUploadCompletion` (`db/tree_entities.go:760`)
   leaves a session that can be cancelled. `upload/service.go:806` says "It is still
   unpublished because completion and cancellation are mutually exclusive, so
   deleting this exact key is safe".
5. **A late chunk blocks completion.** `WriteUploadChunk` creates a
   missing staging file (`blob/local.go:111`), also after the completion renamed it;
   when the completer stops before its next mark, each retry fails.
   `blob/local.go:189` says "Retrying complete after an atomic rename is safe because
   the session has already persisted status=uploaded".
   (`upload_bytes.cfg` with `Size = 1`, `Drivers = {"local"}`, `Faults = {}`: `RetrySafe` fails.)
6. **A confirmed share is not watched.** Confirming ends the latch that stops polling,
   but the answer to the start may repeat the final status the page already
   shows, and the latch closes again: the page stays on "failed" while the job
   runs. The test `share-request-coordinator.test.ts:108` says polling "can resume
   polling after a user action invalidates terminal state".
   (`share_page.cfg` with `PROPERTY ConfirmIsWatched` fails.)

What the web modules keep as the code has it, and no property excludes:

* *Upload queue.* A completion answered 202 makes the row complete although the
  server may still discard the upload. Clearing finished rows gives up the
  thumbnail of a batch that is still uploading (the panel says "Active uploads
  will not be affected."). A cancel while the server finalises is refused and
  the file is published. Creating a session has neither deadline nor
  cancellation, so a hung one holds a slot; the lost answer of one leaves a
  session nobody knows of. A 308 without a range counts a chunk as stored. A
  late request of an empty file after a resume fails the row for good.
* *Drift page.* The answer of a poll can bring a dismissed action back, or undo a
  retry, until the next synchronisation; polls outdate lists that take longer than
  their interval; a start drops a plan estimated meanwhile; the first background
  synchronisation that finds an old completed rescan resets page and ticks; Next after
  a failed load skips a page; rows of the old list can be ticked while the new
  one loads.
* *File browser.* Entering the same folder again keeps the query of the controller
  under an empty field; typing it again at once is ignored. The browser's Back
  between folders keeps the field while the controller forgets the query.
  Requests for the trash are not ordered. A second change stops the first one's
  operation from being followed, and one failed poll ends following. Leaving the
  page keeps the banner. A move can be asked for twice. A late answer to a
  deletion closes a dialog opened since.
* *Upload dialog.* An abort after the last entry was begun is ignored and the
  archives are queued. Files dropped late into a dialog whose build succeeds are
  gone with it. The dialog shows the new folder after Back, while its archives
  go to the old one. A build goes on after the page was left.

## 11. Not modelled

*Left for later* (in the order of the plan): durable operations, derived aggregates,
the object backend, WebDAV locks, thumbnails, the outbox and the relay of share
jobs (the page's model has the delivery they amount to), scanning and planning
of drift repair (the page's model has their records).

*For good.* Migration and reconciliation: one sequential batch with the service
stopped. Postgres: one SQL transaction per operation; what it adds is the
database's isolation. v3: kept for rollback only. The HTTP, WebDAV and FTP front
ends and the disk and GCS calls of the blob stores: input and output. In the
web application the shell, the HTTP client (a request ends with an answer, an error
or not at all in every module), formatting, cost summaries, progress and byte counts, the
inspector, preferences, the folders offered for a move, and disposal of controllers
with the whole application.
