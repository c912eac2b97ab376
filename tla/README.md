# tensorfs, specified

TLA+ specifications of tensorfs: the Rust core (`crates/tensorfs-core`) that
stores tensors and snapshots by content, its bindings, and the Python content
store. The modules are checked by TLC on small instances (`MC*.tla` with
`MC*.cfg`) and some of their properties are proved by TLAPS for every instance
(`*Proofs.tla`). `PROJECT.json` says which lines of the
source every definition stands for, which runs check which properties, and
which hazards of the code they are aimed at.

## 1. The system

A *store root* is a directory:

| place | what it holds | who changes it |
|---|---|---|
| `objects/xx/yy/<digest>` | immutable bytes named by their digest | admission (`store.rs`), removal by the collector |
| `tmp/` | temps of running admissions, lease files of projections and ref swaps | admissions, projections, two reapers |
| metadata database | workspaces (inodes, dirents, records), snapshot rows, leases, quarantine, epoch | `workspace.rs` in write transactions |
| `snapshots/<id>/` | a disposable tree projected from a manifest | `layout.rs`, `scrub`, `delete_snapshot` |
| `refs/<name>` | a text file with a snapshot id | `set_ref`, `scrub`, `delete_snapshot` |

Nothing coordinates clients except the file system (link, rename, advisory
locks) and the database's single write transaction. Clients are threads of one
or of several processes. The Python client has a content store of its own
(`local.py`) of the same shape, coordinated by lock files alone.

### The parts and how they interact

* **Object store** (`store.rs`): admits bytes under their digest, removes
  objects, collects abandoned temps.
* **Workspace roots and collector** (`workspace.rs`, `workspace_db.rs`): heads,
  snapshot rows and leases keep objects alive; `collect` deletes what none of
  them has named for two passes.
* **Workspace tree** (`apply_mutation` and its helpers, `seal_snapshot`,
  `create_workspace_from_snapshot`) with the **manifest** (`tfm1.rs`): inodes,
  dirents, hard links and record runs, sealed as a manifest and cloned from it.
* **Projected layout** (`layout.rs`, `scrub`, `delete_snapshot`): trees and
  refs on disk, scratch leases, reaping.
* **Sources, planners and ingest** (`source.rs`, `planner/`, `object.rs`,
  `admit_regions`): a file that others may be writing is cut into objects at
  its tensors and admitted by a pool of workers.
* **Streams and composition** (`stream.rs`, `workspace_source.rs`,
  `compose.rs`, `adapter.rs`, `contract.rs`): stored records are read back, and
  recombined into other files without the file they came from.
* **Morphisms and fills** (`layout_morphism.rs`, `layout_fill.rs`, the CUDA
  sink): a tensor is written to a buffer in a storage arrangement.
* **Sync engine** (`sync.rs`): `push_snapshot` and `pull_snapshot` over HTTP.
* **Python content store** (`local.py`, `project.py`).

`commit_generation`, `seal_snapshot` and `adopt_snapshot` admit bytes through
the object store *outside* any transaction and name them *inside* one;
`collect` deletes objects inside one. `scrub` reads the root set inside a
transaction and acts on the file system; `project` and `set_ref` take none.
`push_snapshot` pins a closure with a lease; `pull_snapshot` admits and then
adopts.

### What makes it hard

Files cannot be rolled back when a transaction is; an advisory lock is taken
in a second call after the file was created, and given up before the file is
removed; a directory entry is durable only after its directory's fsync; a
listing or a read is stale when it is acted on; a file changes while it is
read; an answer is lost after the remote acted; any process may die anywhere.
The hazards of `PROJECT.json` give the lines.

## 2. The modules

| module | models | built on |
|---|---|---|
| `Cas` | the promise of an object store | |
| `ObjectStore` | admission, removal and temp collection | implements `Cas` |
| `RootsGc` | roots, seals, adoption, the two-epoch collector | |
| `Layout` | projection, refs, scratch leases, scrub | |
| `SyncWire`, `Sync` | what each HTTP route makes of an answer; push and pull | |
| `Container` | cells of a file, the parts a planner reads, records and bodies | |
| `Planner` | container headers, contract seams, the cut into regions | `Container` |
| `Compose` | streamed reads, rekey, subset, adopt | `Planner` |
| `Adapter` | layouts matched by role, permutes, derive | `Compose` |
| `Ingest` | a file imported while it changes, worker pool, composer | `Container` |
| `Composed` | what holds of plans and composed bodies | `Ingest`, `Adapter` |
| `Tfm1` | the rules of a manifest, its builder and its decoder | `Compose` |
| `WorkspaceTree` | mutations, seal, clone, inode leases | `Tfm1` |
| `Morphism` | arrangements as data, plans, runs, ratification | |
| `Arrange` | one tensor's bytes gathered and arranged | `Morphism` |
| `Fill` | host and CUDA sinks, their clients | |
| `LocalCas` | the Python content store and its projection | |
| `RootsGcProofs` | proofs about `RootsGc` | |
| `ObjectStoreProofs` | proofs about `ObjectStore` | |
| `LayoutCallProofs`, `LayoutProofs` | proofs about `Layout` | |
| `LocalCasProofs` | proofs about `LocalCas` | |
| `SyncProofs` | proofs about `Sync` | |
| `IngestProofs` | proofs about `Ingest` | |
| `FillProofs` | proofs about `Fill` | |
| `MC...` | instances for TLC | |

Every operation that is not one atomic step in the program is a sequence of
actions with a program counter; other clients and the environment move in
between. An action's name is the function or the system call it stands for.
An operator `Name_Variant` is a mistake that a mutant run puts in place of
`Name`, to show that a property notices it; no specification uses it otherwise.

`Ingest`, `Fill` and `WorkspaceTree` take the pure algorithms they call
(`Planned(_, _, _)`, `Filled(_, _)`, ...) as operator constants, and their
configurations give those the definitions of `Planner`, `Arrange`, `Tfm1` and so
on. TLC can then treat one call of an algorithm as one value and need not
expand it in each action, and what is proved of `Ingest` and `Fill` holds
whatever the algorithms compute.

### ObjectStore and Cas

Bytes are their digest. A temp is an inode with a number; it may have a name in
`tmp/`, a lease holder, bytes (`None` until complete), and may be fsynced.
`object[d]` is the inode linked at `d`'s path and `disk[d]` what is sure to be
there after a power loss.

* A writer creates its temp (`Create`), takes the lease in a second call
  (`Lock`, or `LockRefused` when the temp collector holds it), writes, fsyncs
  and makes it read-only (`Finish`), and links it without clobbering (`Link`).
  Success leads to `SealDirectories` (the three fsyncs) and `Installed`;
  an existing path leads to `AlreadyExists`, `OpenResident`, and `Accept` or
  `CorruptResident` after rehashing. Every error path (`Mismatch`, `NameLost`,
  `ResidentGone`, `DropUnfinished`) drops the temp.
* `RemoveUnlink`/`RemoveSync` are `remove_object`. `ReapList` to `ReapUnlink`
  are `collect_abandoned_temps`: list, open and compare, lease, stat again, unlink.
* The environment ages temps, kills writers and collectors, decays a medium,
  and cuts the power (`PowerLoss`: an unsynced directory entry may or may not
  survive, unsynced bytes are torn). Which of these a run allows is the
  constant `Faults`.

`Cas` has two variables: what is resident and what has been promised. An
acknowledgement needs the object, and only a removal takes a promised object.
`ObjectStore` implements it under two mappings: `Durable` promises what calls
returned as freshly installed, under every fault; `Served` promises what any
call returned, while the power holds.

### RootsGc

A head is the set of data objects that a workspace's linked files name, a
snapshot is its manifest object, `Refs` gives the data a manifest names. The
write transaction is `writer`.

* `commit_generation`: `CommitBegin`, one `CommitVerify` per object (the rehash
  outside the transaction) and `CommitTx`, which checks again that every object
  is there. `kept` and `held` stand for what the mutation leaves linked and
  what an unlinked-file lease keeps.
* `seal_snapshot`: `SealBegin` (phase A reads the generation), `SealTree` (and
  the tree), `SealPlan` (phase B decides what to reuse and to encode),
  `SealAdmit` per object, `SealRetry` when the head has moved (at most three
  attempts), `SealTx`, `SealPut` and `SealCommit` (phase C).
* `adopt_snapshot`: one `AdoptStat` per object, `AdoptPut`, `AdoptRow`.
* `collect`: `CollectBegin` marks inside the transaction, `CollectList` lists
  the directory (files admitted meanwhile may or may not be seen),
  `CollectDelete` per doomed object, `CollectCommit` writes quarantine and
  epoch. `Abandon` is an error or a death: the transaction rolls back, the
  files do not.

`torn` records the manifests whose row was inserted when bytes they name were
already gone; `unrooted` counts for how many consecutive committed passes an
object has been resident without a root. `seenInc` is the incarnation of the
workspace name whose generation a seal read, and `mistaken` has the workspaces
whose head took a seal planned for an earlier incarnation and lost to it the
guarantee that what it names is there. All four are history: no guard reads
them. `SealTx` drops from the head what the records it replaces named. That is
what phase B planned to drop whenever the tree is the one it read, and any part
of the head otherwise.

### Layout

A scratch token names a lease file, a `.building-` directory or a `.swap-`
file, and the inode wherever it is renamed to; tokens are never reused.

* `project`: `ProjectExists`, `ProjectLease`, `LeaseLock` or `LeaseRefused`,
  `MakeDirectory`, one `Fill` per manifest entry, `Rename` or `RenameLost`,
  `Cleanup`, `DropLease`, `RemoveLease`. `set_ref`: `SwapBegin`, `Stage`,
  `SwapRename`.
* Removal (`RemoveTree`, `RemoveRef`) is one rename to a `.removed-` name and
  then the deletion of that; `Wipe...` is `remove_dir_all` entry by entry on an
  open directory, which follows the inode when it is renamed.
* `delete_snapshot`: the row, the tree, the listing, one read per ref and one
  removal per hit. `scrub`: `ScrubBegin` reads the roots and lists the trees
  inside the transaction, then removes trees, reads and removes refs, commits,
  and reaps: for every listed artifact it samples the lease (`SampleFree`,
  `SampleDrop`: the lock is held for a moment only) and then acts.
* `Die` releases the locks of a process and leaves its files.

`swept` records leases whose file was removed under a creator that is alive.

### SyncWire and Sync

`SyncWire` is the HTTP adapter: for each route, which answers there are (an
answer, a refusal, an expiry, a body that is not the route's JSON, a carrier
that fails before or after the remote heard) and what error `sync.rs` makes of
them. `Sync` is the engine over it. Its `call` holds the locals of the one
running call, `remote` what the hub has staged and promoted. An object is its
place in the closure `data_closure` computes, and `Length` gives its bytes. The
engine keeps every list and queue in that order, so the model keeps the set of
their members and takes the least first (`First`, `FirstOf`). Only a list that
comes from the remote has an order of its own: it is a function on numbers, and
`Views` has the true one and the wrong ones `verify_lanes` is there to refuse
(backwards, repeated, with objects of the other lane, with a wrong length). A
remote that lists once more an object it has accepted is not in it: nothing in
the engine can tell, and the object is sent again.

* Push: `Declare`, then rounds: `BlobGrants`, one `UploadPart` per part,
  `PartsDone`, `ReportBlobParts`, `BlobProbe`; `PackGrants`, one
  `UploadOnePack` per pack assembled greedily from what is owed; `Reprobe`;
  `Complete` as a poll. Budgets for stalled replans, upload attempts and
  completion stalls are the code's, counted as the code counts them.
* Pull: `ReadHead`, `DownloadGrants`, `FetchManifest`, `DownloadAndAdmit` per
  object, `AdoptSnapshot`.
* The environment: `Kill` (the process starts over), `Compete` (somebody else
  promotes the closure), `Sweep` (staging is cleaned), `Heal` (from here on
  nothing goes wrong, which `HealthyPushSucceeds` is about).

### Container, Planner, Compose, Adapter, Ingest and Composed

A file is a sequence of cells; the cells of a header hold what the header says,
so a parse is a look at them, and a cell missing or of the wrong kind is a
refusal. `PlanOnce` sniffs, parses a safetensors or GGUF header and cuts the
file into regions at tensors, at a contract's seams, and at the object limit.
`StreamRead` is `read_exact_at`, buffered or direct, with its bounce buffer.
`Recompose`, `Adopt` and `Derive` build new bodies from the records of old ones.

`Ingest` has two callers, one per behaviour because they share no state. The
importer runs `plan_file`, `plan_and_hash_file` or `admit_file`: `StatPath`,
`OpenPath`, `Compare`, `Capture`, `Precheck`, the reads of the header,
`MakePlan`, `Recheck`, `HashBegin` to `HashEnd`, and the workers' `Take`,
`ReadRegion`, `PutRegion` with `Join`. Between any two of them another program
may `Write` the file or `Replace` the path. The composer makes `Rekey`,
`Subset`, `AdoptContract` and `DeriveLayout` of the body it holds. `Composed`
puts the two beside the algorithms and states what their results must be.

### Tfm1 and WorkspaceTree

`Tfm1` has what `SnapshotBuilder` refuses and builds (case folding, parents,
aliases, the order of entries, the canonical carrier of a hard link) and what
`decode` checks. `WorkspaceTree` holds the database's rows as functions
(`workspaces`, `inodes`, `dirents`, `leases`). A `Commit` applies a batch of
mutations (`CreateFile`, `SetRecords`, `Truncate`, `Mkdir`, `Symlink`,
`Hardlink`, `Rename`, `Unlink`, `Rmdir`, `SetExecutable`) and is undone as a
whole when one is refused. `SealBegin`, `SealCapture` and `SealCommit` are the
phases of `seal_snapshot` around which other calls move; `CloneBegin` and
`CloneCommit` the two transactions of `create_workspace_from_snapshot`;
`AcquireUnlinkedLease` and `ReleaseLease` keep an inode that has no name.

### Morphism, Arrange and Fill

A record factors every axis of a shape into sub-axes and permutes them.
`Morphism` has its checks, its plan for one shape, the run-merging walk the
byte movers use, and the automatic verifier. `Arrange` gathers a tensor's bytes
from records, files or an address and moves them run by run. `Fill` is the
state around it: a host buffer that is its own staging, and a CUDA sink whose
staging slab grows, is retargeted, and keeps a failed transfer pending. The
reference they are checked against (`Meaning`, and `Arrangement` for the whole
buffer) reads the arrangement element by element.

### LocalCas

The Python content store: `storeLock`, `objectLock` and `refLock` are the flocks
(the store lock, shared or exclusive; one per object; one per ref), `tmp` the
names in `tmp/`, and `bytes`, `lease` and `inode` what a name leads to, whose
flock is on it and whether it still is the file that was created. `building` is
the scratch directory a leased token names. The locals of a call (`pc`, `op`,
`arg`, `temp`, `seen`, `ok`, `filled`, `listed`) are functions on the processes.

* `put_bytes`, `open_writer`/`put_file` and `adopt_file`: the look before
  writing (`PeekStore`, `PeekObject`, `Peek`), `MakeTemp`, `LeaseTemp`, `Fill`,
  `Check`, and `_commit_temp` step by step (`CommitStore`, `CommitObject`,
  `Identify`, `Link`, `Rehash`, `Replace`, `Recheck`, `Unlink`), and, in every
  call that made a temp, `CloseTemp` (which gives up the lease) and `UnlinkTemp`.
* `compare_and_swap_ref`: `CasStore`, `CasRef`, `CasRead`, then `UnlinkRef` or a
  leased temp and `ReplaceRef`. `read_ref`: `ReadStore`, `ReadExists`,
  `ReadBytes`.
* `project_snapshot`: `Exists`, a lease, `Mkdir`, `FillTree` per entry,
  `Rename`, `Rmtree`.
* `collect_abandoned_temps`: `CollectStore` (exclusive lock and listing),
  `Collect`, `ReclaimLease` and `Reclaim` per file, `CollectEnd`. `reap_projection_scratch`:
  `Reap`, `ReapUnlock`, `ReapEmpty`, `ReapRmdir`, `ReapEnd`.
* From outside: `Die`, `Decay` of an object, `Swap` (the path `open_temp` gave
  out leads to another file), `Discard` of a tree.

`decayed` and `retracted` are history: digests whose object went bad on the
medium, and digests at which an adoption linked a file that was not the one it
verified.

## 3. The runs

| run | instance | shows | distinct states |
|---|---|---|---|
| `roots` | one client commits, seals, adopts and pushes, one commits and collects; 1 data object, 2 manifests that name it, 3 epochs, 2 generations, 2 incarnations, in three scenes | heads and sealed or leased roots stay resident; `usage`'s exclusive bytes are those a deletion frees; the quarantine lasts two passes and no longer | 769 k |
| `roots_torn` | the same | **violation**: a root row over missing bytes | |
| `store_power` | 2 writers, 2 digests, deaths, decay, removals, power losses, temp collector | digest paths lead to whole bytes; fresh installs are durable; leased temps are kept | 84 k |
| `store_fair` | 2 writers, 1 digest, deaths, removal, temp collector | acknowledged admissions are served; calls end; abandoned temps are reclaimed | 37 k |
| `layout_trees` | 2 projectors, a client that deletes and scrubs; 1 id rooted twice | trees with a lease are whole, scrub spares live trees, reaps spare live scratch | 684 k |
| `layout_reap` | a projector and swapper that may die, a client that deletes and scrubs | ownerless scratch, rootless trees and rootless refs go | 64 k |
| `sync_push` | 2 calls, 3 objects (two packs, one blob of two parts), every fault | progress is true, nothing is sent twice, success means promoted or adopted, every call ends, a push to a healthy remote succeeds | 38 k |
| `fill` | 12 records, 7 shapes, 29 tensors, two destinations, two staging sizes | host and device hold the tensor in the arrangement's order; the verifier ratifies exactly the one-to-one records | 836 |
| `ingest` | 3 imported contents and 4 that replace them, 2 workers, 1 change, 1 fault; 11 bodies, 2 compositions | an import answers for one content; admission answers as a serial run would; cuts follow tensors; composed bodies read back and are cut as ingesting them would | 62 k |
| `ingest_permute` | the same | **violation**: fusing permuted parts does not undo their permutes | |
| `workspace_tree` | 2 workspaces, paths of two segments over 3 names, 23 batches, 4 calls | no inode stranded or shared, heads can be sealed and decoded, truncation is that of bytes, seals settle and keep contents, clones reseal | 44 k |
| `local_cas` | 2 processes, 1 content put, 2 resident, 1 ref, 1 tree, 2 calls beside the sweeps, 1 death, 1 mishap | objects are sound, no ref update is lost, live temps and scratch are kept, abandoned ones go | 79 k |

### Bounds, and why they are enough

* *Clients.* Every property above is broken, when it can be, by two actors and
  a collector or scrubber; the runs have those. Where a property is proved
  (section 4) the number does not matter.
* *Epochs* 3: two passes are the rule, so the third is the first that deletes
  and the one that must not leave anything behind.
* *Generations* 2: one step moves the head under a seal, and retries stop at
  three attempts anyway.
* *Incarnations* 2: one deletion and creation under a seal in progress.
* *Scenes.* All of the above at once is beyond TLC, so a behaviour of `roots`
  plays one of three scenes, and each pairs what can disturb each other.
  `collect` has every operation with one manifest and one incarnation; `share`
  has two manifests over the same data, with adoptions, pushes and deletions but
  no passes (nothing `usage` counts depends on them); `again` has two
  incarnations, with seals at the first attempt and passes. The theorems of
  section 4 are about all of them together.
* *Temps* 2, *digests* 1 or 2: two writers of one digest, or one that claims a
  digest its bytes do not have.
* *Tokens* 2, *entries* 1, *root rows* 2 in `layout_trees`: two projections, a
  tree that is empty or whole, an id deleted and adopted again.
* *Sync.* One byte per pack and a two-byte blob give two packs and two parts,
  so that a lane can be left half done; budgets of 2 are the least with a retry
  that is not the last; two calls, so that the second meets what the first left.
* *Cells.* Objects of at most 3 cells, seams of at least 2 and an alignment of 2
  are the least at which a tensor is cut inside, at and across each of them.
* *Paths* of two segments, of which two names fold together, are the least with
  a rename under itself and a collision by case.
* *LocalCas.* A second call is the least that races; the safety properties are
  proved for any number.

Deadlock is not checked: with bounded counters every system ends in a state
where nobody has anything left to do. Symmetry permutes writers, projectors,
workspaces and holders that are alike, in runs without liveness properties.

### Fairness

* `ObjectStore` and `Layout`: a call in progress goes on (its thread is
  scheduled and no step of it blocks: locks are only tried), and the consumer
  calls the temp collector, or `scrub`, again and again; that a listing of the
  temp collector visits every temp there is makes its fairness per temp strong.
* `Sync`: the running call goes on. Nothing in the engine waits for anything
  but the carrier, whose calls end.
* `LocalCas`: a process that is not blocked on a flock runs. That collections
  and reaps happen is a hypothesis of `LeftoversReclaimed`, not of the
  specification: a waiting exclusive lock may be overtaken by shared ones.

Starting calls, dying, decay, faults of the remote and power losses are never
fair.

## 4. What is proved

For every set of clients, objects, manifests and workspaces and every bound,
under the named assumptions on the constants (`RootsAssumption`,
`StoreAssumption`, `LayoutAssumption`, `LocalAssumption`, `SyncAssumption`,
`IngestAssumption`, `FillAssumption`: sets are disjoint where the program's are,
bounds are naturals, a closure is a finite sequence of objects that are not
empty, a pack and a batch take at least one, a plan's regions are ranges, there
is at least one worker and the hash buffer is not empty, an arranged image is a
sequence of bytes).

**RootsGc**: `TypesHold`, `HeadsStayResident`, `UntornRootsStayResident`, `LiveIsNeverDeleted`,
`QuarantineLastsTwoPasses`, `GarbageIsBounded`, `UsageTellsWhatIsFreed`.
Residency is not inductive by itself. `IndInv` adds that
(`LockInv`) a client is inside a transaction exactly when it holds the write
lock; therefore (`MarkInv`) the roots cannot outgrow the marks of a running
pass, so a pass removes nothing live; and (`CallInv`) a seal whose
generation check passed works on the very tree it read, provided the workspace
is the incarnation it read, so the objects it reuses without looking again are
named by the head and hence resident. Where the name was deleted and created
again the check passes over another tree; a seal that then names objects the
head did not is what `mistaken` and `torn` record, and nothing else is lost. The
proof has one lemma per action, first for the types and the invariants about
running calls, then for residency. The two theorems about the quarantine rest
on `QuarantineInv`, which ties a row's epoch to the number of committed passes
that saw the object without a root.
`usage` finds what is exclusive by counting roots; that a count of one means no
other root needs only that the snapshot rows are finitely many. The same count
says when the manifest itself is exclusive: when it is resident and no lease
holds the snapshot, since only its own row and a lease can root it.

**ObjectStore**: `TypesHold`, `PathsStayWhole`, `LeasedTempsAreKept`,
`FreshInstallsAreDurable` (implements `Cas` under every fault) and
`AdmissionsAreServed` (implements `Cas` for all calls when `"power"` is not
among the faults). `IndInv` consists of what the temp of a call at each program
counter is (`CallInv`), that everything linked or on disk is a complete and
synced inode (`WholeInv`), that a lease belongs to the temp's own writer or to
the collector (`LeaseInv`), and that what was acknowledged as fresh is on disk
(`SealInv`). Refinement follows step by step: `Link` is `Install`, `Installed`
and `Accept` are `Acknowledge`, `RemoveUnlink` is `Remove`, `PowerLoss` is
`PowerLoss`, everything else stutters.

**Layout**: `LayoutInvariant`, `TreesAreWhole`, `ScrubSparesLiveTrees`,
`ScratchIsKept`. That a tree in place is whole says nothing of the scratch it
comes from, so `IndInv` follows a token from its lease file to its place. A
creator's token is its own (`OwnTokens`), its lease is held from the lock to the
rename (`CallOK`), an inode has at most one name (`PlaceInv`, `HomeOK`), what a
projector has written is there (`FillOK`), a reap has listed nothing that is
still being created (`TodoOK`), and nobody is about to empty the scratch of a
live creator or a tree in place (`VictimOK`); each of them excepts the tokens
in `swept`, whose lease file the last sweep of a reap took. For scrub, `ScrubOK`
says that the comparison with the roots and the removals are one transaction.
`LayoutCallProofs` shows that a step of one call leaves the clauses of the
others alone, and treats the actions that move no inode; `LayoutProofs` has a
lemma for each of the others.

**LocalCas**: `LocalInvariant`, `StoreIsSound`, `RefsSwapAtomically`,
`SweepsSpareTheLiving`. `IndInv` has one clause per kind of thing a call relies
on. Its locks: the exclusive store lock excludes every other (`StoreInv`), a
commit owns its object's lock and a swap between its look and its write its
ref's (`LocksOK`, `RefOK`). Its temp: a creator holds the lease unless an
adopted path leads elsewhere, and only a projection has a scratch directory
(`TempOK`); nobody else has that name in hand or, for what is not scratch, in
the listing of a reap (`Apart`). Its bytes: what was verified and is still the
same inode has the bytes it was verified as (`BytesOK`), and what is reported as
stored is sound or known to be lost (`StoreOK`). A step belongs to one process:
`Frame` says what it may do to the rest, and every action has a lemma. Two of
them carry the argument: a lease the collector gets under the exclusive lock
cannot be that of a temp made but not yet leased (`ReclaimLeaseKeeps`; it may be
that of a temp its creator has closed and is about to unlink), and a
lease that is free names no projection that runs (`ReapKeeps`).

**Sync**: `SyncInvariant`, `ProgressIsTrue`, `NothingIsSentTwice`, `OkTells`.
None of the three properties is inductive: a blob is counted on the word of a
grant and of answers that came steps before, and between them a sweep may take
what the word was about. `IndInv` says what each word is worth. At the remote
(`RemoteInv`), what a session can assemble is at the store and a head of ours is
whole. What the call reported is landed or known to be swept, and landed means
that the session, not only the store, has it (`AccountInv`, `Landed`): a new
session forgets, so a push that has not declared yet has reported nobody. Of
the blobs in hand (`BlobInv`), what the grant listed is with the session, what
landed since is at the store, no other part was accepted, and a report that is
not a put-back covers all parts. No pack still to be sent has an object that was
accepted, and the one in hand is claimed (`PackInv`). A pull is owed exactly
what its store lacks (`PullInv`). The lemmas `QuietKeeps`, `EndKeeps`,
`CountKeeps`, `OnwardKeeps` and `PackingKeeps` say what a call may become while
the remote grows (`Grows`), and each action has a lemma that picks one of them
for every outcome of its route; `SweepKeeps` is the one step under which the
remote shrinks. `OkTells` needs that an accepted `complete` is one the remote
acted on (`OtherOutcomes`).

**Ingest**: `IngestInvariant`, `HashesOneSnapshot`, `PoolAdmitsAsSerial`. The
two properties speak of the file as it was when the source was captured, and a
read sees the file as it is. `IndInv` ties the two through the stamp: a change
moves the file's time past every earlier one (`FileInv`), so a source that finds
its stamp unchanged has had the captured contents all along (`SteadyInv`); what
it has parsed (`ViewInv`), planned (`PlanInv`) and hashed (`HashInv`: the
regions done, and a prefix of the one in hand) is then of those contents. A read
that was not of them is found out by the recheck, which is why these clauses
hold under `Unchanged` only. For the pool (`AdmitInv`), each region below the
shared counter is with exactly one worker or has an outcome (`WorkerOK`,
`OutcomeOK`), workers hold different regions, the counter is past the end when
all have stopped, and a single worker has no failure behind it (`SerialOK`); so
when `Join` reads the outcomes all of them are there, and the first failure it
meets is the first in region order.

**Fill**: `SinksInvariant`, and, when the arranger is exact (`ArrangesExactly`:
what `Filled` returns is what `Wanted` says, which is about one call of a pure
algorithm), `TransfersAreArranged`. A transfer may
fail and be repeated after any other calls, so `IndInv` says whose bytes the
slab holds: what is staged is the image of the tensor it was staged for, at that
destination and offset and inside its room (`StagedInv`), until the transfer
lands (`LandedInv`); a host buffer has the image at its offset and nothing else
written (`HostInv`).

Only model-checked: the liveness properties (fairness and `ENABLED` are outside
the prover's reach); what the planners, the composer, the arranger and the
verifier of morphisms compute (`PlansCutAtTensors`, `StreamsBack`,
`RekeyKeepsTensors`, `ComposedIsIngested`, `DerivedServesTarget`,
`RatifiedIsOneToOne`, `HostIsArranged`, and with them `ArrangesExactly`: recursion and induction
over sequences are outside it too), and everything about `WorkspaceTree`.

## 5. Where code and documentation disagree

Two are runs that TLC must find violated; `PROJECT.json` quotes the lines.

* `roots_torn`: `adopt_snapshot` stats the objects, admits the manifest and
  inserts the row in three steps; collection passes in between can take what
  was found resident.
* `ingest_permute`: `derived_tensor` inverts the first part's permute over the
  fusion of all parts.

Others were met while modelling. The models contain them, and the properties
are stated so as to leave them room:

* `install` acknowledges an object that another writer has linked and whose
  directories it has not fsynced yet (`store.rs:664`), so a power loss can take
  an acknowledged object. `Durable` therefore promises to the installer only.
* A quarantine row is cleared only by a pass that sees the object referenced
  (`workspace.rs:1130`): a reference made and dropped between two passes does
  not restart the count.
* The last sweep of `reap_scratch` can take the lease file of a live projection
  (`layout.rs:411`), and the next reap its scratch, half emptied when it is
  renamed; `swept` excepts it.
* `scrub` removes by name the ref it judged by content (`workspace.rs:1338`).
* An expired session that answers the re-probe, the completion or the report of
  parts fails the push (`sync.rs:785`), where `sync.rs:260` says the caller
  replans.
* A seal compares generations only (`workspace.rs:613`): a workspace deleted and
  created again under its name may show the same one over another tree. The
  jobs are then applied to that tree, and the objects they reuse without a look
  may be gone. `HeadsResident` excepts the heads in `mistaken`, and
  `SealKeepsContents` the seals whose workspace was deleted under them.
* `usage` says of a snapshot's exclusive objects "The manifest is always among
  them" (`workspace.rs:173`), and `docs/mixed-cas-layout.md:448` that
  `exclusive` is never zero. A lease on the snapshot, which a running push or
  one that died holds, is another root of the manifest and of all it names:
  `exclusive` is then empty and deleting the row frees nothing.
  `ExclusiveIsFreed` states both halves.
* `admit_file` does not look at the file's stamp after the last region.
* A cloned workspace loses the contract of files that are empty or sparse.
* A tensor file with a hole and a record larger than an object commits but
  cannot be sealed; a directory renamed deeper can push its descendants past
  the bound on paths.
* `derive` ignores the shares a target declares for a fusion and keeps the
  source's cuts below the seam floor; of a quantized GGUF it writes a header
  the planner refuses.
* A lease, an rmdir or a rename of the empty path reaches the root inode; the
  instances do not use that path.
* After a failed transfer a CUDA client refuses every other destination until
  that transfer succeeds.
* Python: `read_ref` takes no ref lock, and a ref unlinked between its two looks
  raises `FileNotFoundError` (`local.py:628`); an adoption whose path was
  exchanged is visible until it is rechecked, so a ref may be pointed at it, and
  a death in between leaves it there (`local.py:441`). A temp's lease is given
  up when it is closed and the name goes one call later (`local.py:211`), so a
  collection in between takes the file of a creator that is alive, which
  `local.py:219` and `local.py:310` say cannot happen. It does no harm: the creator unlinks with
  `missing_ok`. `LiveTempsKept` speaks of temps that have not been closed.

## 6. What is not modelled

* The Go verifier, planner and promoter (`manifest.go`, `planner.go`,
  `promoter.go`): a promotion asks an object store that is not part of the
  repository about content-addressed keys and keeps nothing between passes. The
  Go conformance engine (`engine.go`, `topology.go`, ...) is a pure matching of
  inventories against catalogues.
* Python's writer, tensor views and conversion: single-threaded and pure over
  bytes; the rules for cuts and records are those of the Rust core.
* Power losses of the Python store, which fsyncs only an object's last
  directory, and writes in place to a file after it was verified.
* In `SnapshotBuilder::resolve`, a path declared twice (what is declared is a
  function of the path, as the only caller that stages a head declares it) and
  the rules for the text of a symlink's target.
* The byte layout of manifests and packs, the text of contracts, JSON and GGUF
  value encodings, and arithmetic that the code checks for overflow.
* Windows: transient refusals and `Removal::Deferred`.
* I/O errors other than those a race causes and those of a named fault; a full
  disk.
* The database engine, the remote hub and the device driver are external,
  modelled from how the code uses them.
