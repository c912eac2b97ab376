--------------------------- MODULE WorkspaceTree ---------------------------
(***************************************************************************)
(* The workspaces of workspace.rs: their trees in the metadata database,   *)
(* the mutations of a generation, sealing a head as a TFM1 manifest        *)
(* (Tfm1), cloning a workspace from one, and leases on inodes.             *)
(*                                                                         *)
(* A transaction is one step, because it is immediate; a seal and a clone  *)
(* take two, with other calls between.  The objects that records name are  *)
(* resident: RootsGc is about that.                                        *)
(***************************************************************************)
EXTENDS Tfm1, TLC

CONSTANTS
  Names,         \* workspace names
  Holders,       \* holders of leases
  Seams,         \* the contract the store cuts against
  Starts,        \* the batches a workspace may have been built from
  Batches,       \* the batches of mutations callers commit
  Leasable,      \* the paths that are leased
  MaxAttempts,   \* how often seal_snapshot tries
  MaxCalls       \* bound on the calls that begin

(* The algorithms the calls run.  They are parameters here; an instance    *)
(* gives them the definitions of Planner, Compose and Tfm1.                *)
CONSTANTS
  Planned(_, _, _),  \* plan_once: PlanOnce
  Resolved(_),       \* SnapshotBuilder::finish_tree: ResolveTree
  Finished(_)        \* SnapshotBuilder::finish: Finish

VARIABLES
  db,         \* [workspaces, inodes, dirents, leases]
  snapshots,  \* the manifests sealed
  sealing,    \* a seal between its phases, or NoSeal
  cloning,    \* a clone between its transactions, or NoClone
  held,       \* holder |-> the lease it holds, or 0
  last,       \* the latest seal or clone, if nothing came after it
  calls       \* how many calls have begun

vars == <<db, snapshots, sealing, cloning, held, last, calls>>

NoSeal == [pc |-> "idle", ws |-> "", generation |-> 0, jobs |-> <<>>,
           attempt |-> 0, same |-> TRUE]
NoClone == [ws |-> "", entries |-> <<>>, alone |-> TRUE]
NoResult == [op |-> "none", ws |-> "", entries |-> <<>>, alone |-> TRUE]

Without(f, S) == [x \in DOMAIN f \ S |-> f[x]]
NextId(f) == 1 + Max({0} \cup DOMAIN f)

Inode(ws, kind) ==
  [ws |-> ws, kind |-> kind, executable |-> FALSE, planner |-> "blob",
   contract |-> "none", records |-> <<>>, target |-> ""]
FileInode(ws, executable, planner, records) ==
  [Inode(ws, "file") EXCEPT !.executable = executable,
                            !.planner = planner, !.records = records]

(***************************************************************************)
(* Paths.  An inode that is not found is 0.                                *)
(***************************************************************************)
Kind(d, w, i) ==
  IF i = d.workspaces[w].root THEN "directory" ELSE d.inodes[i].kind
Lookup(d, w, i, name) ==
  IF /\ i # 0 /\ Kind(d, w, i) = "directory"
     /\ <<i, name>> \in DOMAIN d.dirents
  THEN d.dirents[<<i, name>>] ELSE 0

(* resolve_path: the empty path is the root.                               *)
ResolvePath(d, w, path) ==
  LET at[k \in 0..Len(path)] ==
        IF k = 0 THEN d.workspaces[w].root
        ELSE Lookup(d, w, at[k - 1], path[k])
  IN IF path = <<>> \/ ValidPath(path) THEN at[Len(path)] ELSE 0

(* A leaf is new when no sibling has its very name.                        *)
ResolveNewLeaf_Exact(d, w, path) ==
  LET parent == ResolvePath(d, w, Front(path))
      name == Last(path)
      Leaf(err) == [err |-> err, parent |-> parent, name |-> name]
  IN IF ~ValidPath(path) THEN [err |-> "Path"]
     ELSE IF parent = 0 THEN Leaf("Missing")
     ELSE IF Kind(d, w, parent) # "directory" THEN Leaf("NotADirectory")
     ELSE IF <<parent, name>> \in DOMAIN d.dirents THEN Leaf("Exists")
     ELSE Leaf("none")

(* resolve_new_leaf: no sibling has the name or one that folds to it.      *)
ResolveNewLeaf(d, w, path) ==
  LET parent == ResolvePath(d, w, Front(path))
      name == Last(path)
      Leaf(err) == [err |-> err, parent |-> parent, name |-> name]
  IN IF ~ValidPath(path) THEN [err |-> "Path"]
     ELSE IF parent = 0 THEN Leaf("Missing")
     ELSE IF Kind(d, w, parent) # "directory" THEN Leaf("NotADirectory")
     ELSE IF <<parent, name>> \in DOMAIN d.dirents THEN Leaf("Exists")
     ELSE IF \E key \in DOMAIN d.dirents :
               key[1] = parent /\ FoldOf[key[2]] = FoldOf[name]
     THEN Leaf("CaseFoldCollision")
     ELSE Leaf("none")

(***************************************************************************)
(* Records.                                                                *)
(***************************************************************************)
(* An extension is always a hole of its own.                               *)
Extended_NewHole(kept, more) ==
  IF more = 0 THEN kept ELSE Append(kept, Hole(more))

(* An extension makes a trailing hole longer, or is a hole of its own.     *)
Extended(kept, more) ==
  IF more = 0 THEN kept
  ELSE IF kept # <<>> /\ Last(kept).hole
  THEN Append(Front(kept), Hole(RecordLength(Last(kept)) + more))
  ELSE Append(kept, Hole(more))

(* truncate_records: whole records, then a hole cut short or an extension. *)
TruncateRecords(records, length) ==
  LET Keep(acc, record) ==
        LET end == acc.position + RecordLength(record)
        IN IF ~acc.ok \/ acc.position >= length THEN acc
           ELSE IF end <= length
           THEN [acc EXCEPT !.kept = Append(@, record), !.position = end]
           ELSE IF record.hole
           THEN [acc EXCEPT !.kept = Append(@, Hole(length - acc.position)),
                            !.position = length]
           ELSE [acc EXCEPT !.ok = FALSE]
      cut == FoldLeft(Keep, [ok |-> TRUE, kept |-> <<>>, position |-> 0],
                      records)
  IN IF ~cut.ok THEN None
     ELSE [ok |-> TRUE,
           records |-> Extended(cut.kept, length - cut.position)]

(***************************************************************************)
(* apply_mutation.  The result of each mutation is [err, db].              *)
(***************************************************************************)
Refuse(err, d) == [err |-> err, db |-> d]
Accept(d) == [err |-> "none", db |-> d]

(* An inode under a new leaf.                                              *)
Created(d, w, path, inode) ==
  LET leaf == ResolveNewLeaf(d, w, path)
      i == NextId(d.inodes)
  IN IF leaf.err # "none" THEN Refuse(leaf.err, d)
     ELSE Accept([d EXCEPT !.inodes = @ @@ (i :> inode),
                           !.dirents = @ @@ (<<leaf.parent, leaf.name>> :> i)])

Mkdir(d, w, m) == Created(d, w, m.path, Inode(w, "directory"))
CreateFile(d, w, m) ==
  Created(d, w, m.path, FileInode(w, m.executable, m.planner, m.records))
Symlink(d, w, m) ==
  Created(d, w, m.path, [Inode(w, "symlink") EXCEPT !.target = m.target])

(* Whether there is a file at a path.                                      *)
FileErr(d, w, path) ==
  LET i == ResolvePath(d, w, path)
  IN IF i = 0 THEN "Missing"
     ELSE IF Kind(d, w, i) # "file" THEN "NotAFile" ELSE "none"

(* The planner and the contract of the file stay.                          *)
SetRecords(d, w, m) ==
  LET err == FileErr(d, w, m.path)
      i == ResolvePath(d, w, m.path)
  IN IF err # "none" THEN Refuse(err, d)
     ELSE Accept([d EXCEPT !.inodes[i].records = m.records])

Truncate(d, w, m) ==
  LET err == FileErr(d, w, m.path)
      i == ResolvePath(d, w, m.path)
      cut == TruncateRecords(d.inodes[i].records, m.length)
  IN IF err # "none" THEN Refuse(err, d)
     ELSE IF ~cut.ok THEN Refuse("MidRecordTruncate", d)
     ELSE IF ~ValidRun(cut.records) THEN Refuse("Records", d)
     ELSE Accept([d EXCEPT !.inodes[i].records = cut.records])

SetExecutable(d, w, m) ==
  LET err == FileErr(d, w, m.path)
      i == ResolvePath(d, w, m.path)
  IN IF err # "none" THEN Refuse(err, d)
     ELSE Accept([d EXCEPT !.inodes[i].executable = m.executable])

Hardlink(d, w, m) ==
  LET err == FileErr(d, w, m.target)
      leaf == ResolveNewLeaf(d, w, m.path)
      i == ResolvePath(d, w, m.target)
  IN IF err # "none" THEN Refuse(err, d)
     ELSE IF leaf.err # "none" THEN Refuse(leaf.err, d)
     ELSE Accept([d EXCEPT !.dirents =
                    @ @@ (<<leaf.parent, leaf.name>> :> i)])

(* The dirent of a path: the empty path has none.                          *)
Dirent(d, w, path) ==
  IF path = <<>> THEN {} ELSE {<<ResolvePath(d, w, Front(path)), Last(path)>>}

(* A directory may be moved anywhere.                                      *)
Rename_Anywhere(d, w, m) ==
  LET i == ResolvePath(d, w, m.path)
      leaf == ResolveNewLeaf(d, w, m.to)
  IN IF i = 0 THEN Refuse("Missing", d)
     ELSE IF leaf.err # "none" THEN Refuse(leaf.err, d)
     ELSE Accept([d EXCEPT !.dirents =
            [key \in {<<leaf.parent, leaf.name>>} |-> i]
              @@ Without(@, Dirent(d, w, m.path))])

Rename(d, w, m) ==
  LET i == ResolvePath(d, w, m.path)
      leaf == ResolveNewLeaf(d, w, m.to)
      moved == {<<leaf.parent, leaf.name>> : key \in Dirent(d, w, m.path)}
  IN IF i = 0 THEN Refuse("Missing", d)
     ELSE IF /\ Kind(d, w, i) = "directory"
             /\ m.to = m.path \/ (m.path # <<>> /\ IsPrefix(m.path, m.to))
     THEN Refuse("RenameIntoSelf", d)
     ELSE IF leaf.err # "none" THEN Refuse(leaf.err, d)
     ELSE Accept([d EXCEPT !.dirents =
            [key \in moved |-> i] @@ Without(@, Dirent(d, w, m.path))])

(* drop_inode_if_orphaned: with its last link or its last lease.           *)
DropInodeIfOrphaned(d, i) ==
  IF \/ \E key \in DOMAIN d.dirents : d.dirents[key] = i
     \/ \E l \in DOMAIN d.leases : d.leases[l].inode = i
  THEN d
  ELSE [d EXCEPT !.inodes = Without(@, {i})]

Removed(d, w, path, i) ==
  Accept(DropInodeIfOrphaned(
    [d EXCEPT !.dirents = Without(@, Dirent(d, w, path))], i))

Unlink(d, w, m) ==
  LET i == ResolvePath(d, w, m.path)
  IN IF i = 0 THEN Refuse("Missing", d)
     ELSE IF Kind(d, w, i) = "directory" THEN Refuse("NotAFile", d)
     ELSE Removed(d, w, m.path, i)

Rmdir(d, w, m) ==
  LET i == ResolvePath(d, w, m.path)
  IN IF i = 0 THEN Refuse("Missing", d)
     ELSE IF Kind(d, w, i) # "directory" THEN Refuse("NotADirectory", d)
     ELSE IF \E key \in DOMAIN d.dirents : key[1] = i
     THEN Refuse("NotEmpty", d)
     ELSE Removed(d, w, m.path, i)

ApplyMutation(d, w, m) ==
  CASE m.op = "Mkdir" -> Mkdir(d, w, m)
    [] m.op = "CreateFile" -> CreateFile(d, w, m)
    [] m.op = "SetRecords" -> SetRecords(d, w, m)
    [] m.op = "Truncate" -> Truncate(d, w, m)
    [] m.op = "Rename" -> Rename(d, w, m)
    [] m.op = "Unlink" -> Unlink(d, w, m)
    [] m.op = "Rmdir" -> Rmdir(d, w, m)
    [] m.op = "Symlink" -> Symlink(d, w, m)
    [] m.op = "Hardlink" -> Hardlink(d, w, m)
    [] m.op = "SetExecutable" -> SetExecutable(d, w, m)

(* commit_generation: all of a batch, or none of it.                       *)
CommitGeneration(d, w, batch) ==
  LET applied[k \in 0..Len(batch)] ==
        IF k = 0 THEN Accept(d)
        ELSE LET r == applied[k - 1]
             IN IF r.err # "none" THEN r ELSE ApplyMutation(r.db, w, batch[k])
      r == applied[Len(batch)]
  IN IF \E k \in DOMAIN batch : /\ batch[k].op \in {"CreateFile",
                                                    "SetRecords"}
                                /\ ~ValidRun(batch[k].records)
     THEN Refuse("Records", d)
     ELSE IF w \notin DOMAIN d.workspaces THEN Refuse("NoWorkspace", d)
     ELSE IF r.err # "none" THEN Refuse(r.err, d)
     ELSE Accept([r.db EXCEPT !.workspaces[w].generation = @ + 1])

(***************************************************************************)
(* The head tree and its seal.                                             *)
(***************************************************************************)
(* The paths of a workspace: what a walk from its root finds, level by     *)
(* level.  There are no more levels than inodes.                           *)
Paths(d, w) ==
  LET Below(at) == {[path |-> Append(x[1].path, x[2][2]),
                     inode |-> d.dirents[x[2]]] :
                      x \in {y \in at \X DOMAIN d.dirents :
                              y[2][1] = y[1].inode}}
      most == Cardinality(DOMAIN d.inodes)
      level[n \in 0..most] ==
        IF n = 0 THEN {[path |-> <<>>, inode |-> d.workspaces[w].root]}
        ELSE Below(level[n - 1])
  IN UNION {level[n] : n \in 1..most}

(* The paths of each inode that was found.                                 *)
Groups(found) ==
  [i \in {x.inode : x \in found} |->
     {x.path : x \in {y \in found : y.inode = i}}]

(* stage_builder: one path of an inode, its carrier, declares it and the   *)
(* rest link to that one.                                                  *)
StageBuilder(d, found, carrier) ==
  LET InodeAt(p) == (CHOOSE x \in found : x.path = p).inode
      Declared(p, i) ==
        LET n == d.inodes[i]
        IN IF n.kind = "directory" THEN [kind |-> "directory"]
           ELSE IF n.kind = "symlink"
           THEN [kind |-> "symlink", target |-> n.target]
           ELSE IF p # carrier[i]
           THEN [kind |-> "hardlinkTo", to |-> carrier[i]]
           ELSE [kind |-> "file", executable |-> n.executable,
                 planner |-> n.planner, contract |-> n.contract,
                 records |-> n.records]
  IN [p \in {x.path : x \in found} |-> Declared(p, InodeAt(p))]

(* The tree a head stages.                                                 *)
Staged(d, w) ==
  LET found == Paths(d, w)
      groups == Groups(found)
  IN StageBuilder(d, found, [i \in DOMAIN groups |-> Least(groups[i])])

BuildTree(d, w) == Resolved(Staged(d, w))
BuildSnapshot(d, w) == Finished(Staged(d, w))

Job(path, planner, contract, records, update) ==
  <<[path |-> path, planner |-> planner, contract |-> contract,
     records |-> records, update |-> update]>>

(* blob_seal_job: the whole byte stream as one object.                     *)
BlobSealJob(path, records) ==
  Job(path, "blob", "none", <<Data(Cells(records))>>, TRUE)

HasHoles(records) == \E k \in DOMAIN records : records[k].hole

(* plan_with over the records of a head's file.                            *)
SealPlan(records) ==
  LET cells == Cells(records) IN Planned(View(cells), Len(cells), Seams)

(* plan_seal_job: what has to be done to a file before it is sealed, if    *)
(* anything.                                                               *)
PlanSealJob(path, file) ==
  LET records == file.records
      sparse == HasHoles(records)
      plan == SealPlan(records)
      fits == /\ Len(records) = Len(plan.regions)
              /\ \A k \in DOMAIN records :
                   /\ Position(records, k) = plan.regions[k].offset
                   /\ RecordLength(records[k]) = plan.regions[k].length
      known == file.planner = plan.planner /\ file.contract = plan.stamp
      whole == plan.planner = "blob" /\ Len(records) = 1
  IN IF records = <<>> \/ (sparse /\ file.planner # "blob") THEN <<>>
     ELSE IF sparse \/ (plan.planner = "blob" /\ ~whole)
     THEN BlobSealJob(path, records)
     ELSE IF (whole \/ fits) /\ known THEN <<>>
     ELSE IF whole \/ fits
     THEN Job(path, plan.planner, plan.stamp, records, FALSE)
     ELSE Job(path, plan.planner, plan.stamp,
              Adopted(records, plan.regions), TRUE)

(* A file whose plan fails fails the seal.                                 *)
SealRefused(d, w) ==
  LET entries == BuildTree(d, w).entries
  IN \E i \in DOMAIN entries :
       LET file == entries[i].entry
       IN /\ file.kind = "file" /\ file.records # <<>>
          /\ ~HasHoles(file.records) /\ SealPlan(file.records).err # "none"

SealJobs(d, w) ==
  LET entries == BuildTree(d, w).entries
      Jobs(x) == IF x.entry.kind = "file" THEN PlanSealJob(x.path, x.entry)
                 ELSE <<>>
  IN FlattenSeq([i \in DOMAIN entries |-> Jobs(entries[i])])

(* Only the records of a file are updated.                                 *)
ApplyJob_RecordsOnly(r, w, job) ==
  IF r.err # "none" \/ ~job.update THEN r ELSE SetRecords(r.db, w, job)

(* One job in the sealing transaction.                                     *)
ApplyJob(r, w, job) ==
  LET set == IF job.update THEN SetRecords(r.db, w, job) ELSE r
      i == ResolvePath(set.db, w, job.path)
  IN IF r.err # "none" THEN r
     ELSE IF set.err # "none" THEN set
     ELSE IF i = 0 THEN Refuse("Missing", r.db)
     ELSE Accept([set.db EXCEPT !.inodes[i].planner = job.planner,
                                !.inodes[i].contract = job.contract])

(* Every path of a hardlink group becomes a file of its own.               *)
Mutations_Copies(entries) ==
  LET BodyOf(e) ==
        IF e.kind = "file" THEN e
        ELSE FilesBefore(entries, Len(entries) + 1)[e.ordinal + 1].entry
      Of(x) ==
        IF x.entry.kind = "directory" THEN [op |-> "Mkdir", path |-> x.path]
        ELSE IF x.entry.kind = "symlink"
        THEN [op |-> "Symlink", path |-> x.path, target |-> x.entry.target]
        ELSE LET e == BodyOf(x.entry)
             IN [op |-> "CreateFile", path |-> x.path,
                 executable |-> e.executable, planner |-> e.body.format,
                 records |-> e.body.records]
  IN [i \in DOMAIN entries |-> Of(entries[i])]

ApplyJobs(d, w, jobs) ==
  LET applied[k \in 0..Len(jobs)] ==
        IF k = 0 THEN Accept(d) ELSE ApplyJob(applied[k - 1], w, jobs[k])
  IN applied[Len(jobs)]

(* The mutations that rebuild the tree of a manifest.                      *)
Mutations(entries) ==
  LET Of(x) ==
        LET e == x.entry
        IN CASE e.kind = "directory" -> [op |-> "Mkdir", path |-> x.path]
             [] e.kind = "file" ->
                  [op |-> "CreateFile", path |-> x.path,
                   executable |-> e.executable, planner |-> e.body.format,
                   records |-> e.body.records]
             [] e.kind = "symlink" ->
                  [op |-> "Symlink", path |-> x.path, target |-> e.target]
             [] e.kind = "hardlink" ->
                  [op |-> "Hardlink", path |-> x.path,
                   target |-> OrdinalPath(entries, e.ordinal)]
  IN [i \in DOMAIN entries |-> Of(entries[i])]

(***************************************************************************)
(* The calls.  A call that is refused changes nothing.                     *)
(***************************************************************************)
Empty == [x \in {} |-> x]

WithRoot(d, w) ==
  LET root == NextId(d.inodes)
  IN [d EXCEPT !.inodes = @ @@ (root :> Inode(w, "directory")),
               !.workspaces = @ @@ (w :> [root |-> root, generation |-> 0])]

NoRows == [workspaces |-> Empty, inodes |-> Empty, dirents |-> Empty,
           leases |-> Empty]

(* A store with one workspace, of one generation.                          *)
Init ==
  /\ \E w \in Names, batch \in Starts :
       db = CommitGeneration(WithRoot(NoRows, w), w, batch).db
  /\ snapshots = {} /\ sealing = NoSeal /\ cloning = NoClone
  /\ held = [h \in Holders |-> 0] /\ last = NoResult /\ calls = 0

Call == calls < MaxCalls /\ calls' = calls + 1

(* What other callers have done to a workspace that is being cloned.       *)
Disturb(w) == cloning' = [cloning EXCEPT !.alone = @ /\ cloning.ws # w]

CreateWorkspace(w) ==
  /\ Call /\ w \notin DOMAIN db.workspaces
  /\ db' = WithRoot(db, w) /\ last' = NoResult
  /\ UNCHANGED <<snapshots, sealing, cloning, held>>

(* The rows of the workspace go with it, its leases among them.            *)
DeleteWorkspace(w) ==
  /\ Call /\ w \in DOMAIN db.workspaces
  /\ LET mine == {i \in DOMAIN db.inodes : db.inodes[i].ws = w}
     IN db' = [workspaces |-> Without(db.workspaces, {w}),
               inodes |-> Without(db.inodes, mine),
               dirents |-> Without(db.dirents,
                 {key \in DOMAIN db.dirents : key[1] \in mine}),
               leases |-> Without(db.leases,
                 {l \in DOMAIN db.leases : db.leases[l].ws = w})]
  /\ sealing' = [sealing EXCEPT !.same = @ /\ sealing.ws # w]
  /\ Disturb(w) /\ last' = NoResult
  /\ UNCHANGED <<snapshots, held>>

Commit(w, batch) ==
  /\ Call
  /\ LET r == CommitGeneration(db, w, batch)
     IN r.err = "none" /\ db' = r.db
  /\ Disturb(w) /\ last' = NoResult
  /\ UNCHANGED <<snapshots, sealing, held>>

(* seal_snapshot.                                                          *)
SealBegin(w) ==
  /\ Call /\ sealing = NoSeal /\ w \in DOMAIN db.workspaces
  /\ sealing' = [NoSeal EXCEPT !.pc = "capture", !.ws = w, !.attempt = 1]
  /\ UNCHANGED <<db, snapshots, cloning, held, last>>

(* Phases A and B: the tree is captured and its files are planned.         *)
SealCapture ==
  /\ sealing.pc = "capture"
  /\ LET w == sealing.ws
     IN sealing' =
          IF \/ w \notin DOMAIN db.workspaces
             \/ BuildTree(db, w).err # "none" \/ SealRefused(db, w)
          THEN NoSeal
          ELSE [sealing EXCEPT !.pc = "commit", !.jobs = SealJobs(db, w),
                  !.generation = db.workspaces[w].generation, !.same = TRUE]
  /\ UNCHANGED <<db, snapshots, cloning, held, last, calls>>

(* The jobs are applied to whatever the head has become.                   *)
SealCommit_Unchecked ==
  /\ sealing.pc = "commit" /\ sealing.ws \in DOMAIN db.workspaces
  /\ LET w == sealing.ws
         r == ApplyJobs(db, w, sealing.jobs)
     IN r.err = "none" /\ db' = r.db
  /\ sealing' = NoSeal
  /\ UNCHANGED <<snapshots, cloning, held, last, calls>>

(* Phase C: one transaction, if the generation is still the one captured.  *)
SealCommit ==
  /\ sealing.pc = "commit"
  /\ LET w == sealing.ws
         here == w \in DOMAIN db.workspaces
         moved == db.workspaces[w].generation # sealing.generation
         r == ApplyJobs(db, w, sealing.jobs)
         next == IF sealing.jobs = <<>> THEN r.db
                 ELSE [r.db EXCEPT !.workspaces[w].generation = @ + 1]
         made == BuildSnapshot(next, w)
     IN IF here /\ moved
        THEN /\ sealing' = IF sealing.attempt = MaxAttempts THEN NoSeal
                           ELSE [sealing EXCEPT !.pc = "capture",
                                                !.attempt = @ + 1]
             /\ UNCHANGED <<db, snapshots, last>>
        ELSE /\ sealing' = NoSeal
             /\ IF ~here \/ r.err # "none" \/ made.err # "none"
                THEN UNCHANGED <<db, snapshots, last>>
                ELSE /\ db' = next
                     /\ snapshots' = snapshots \cup {made.entries}
                     /\ last' = [op |-> "seal", ws |-> w, alone |-> TRUE,
                                 entries |-> made.entries]
  /\ UNCHANGED <<cloning, held, calls>>

(* create_workspace_from_snapshot: a workspace, and then its generation.   *)
CloneBegin(w) ==
  /\ Call /\ cloning = NoClone /\ w \notin DOMAIN db.workspaces
  /\ \E entries \in snapshots :
       /\ Decodes(entries)
       /\ cloning' = [ws |-> w, entries |-> entries, alone |-> TRUE]
  /\ db' = WithRoot(db, w) /\ last' = NoResult
  /\ UNCHANGED <<snapshots, sealing, held>>

CloneCommit ==
  /\ cloning # NoClone
  /\ LET r == CommitGeneration(db, cloning.ws, Mutations(cloning.entries))
     IN /\ db' = r.db
        /\ last' = IF r.err # "none" THEN last
                   ELSE [op |-> "clone", ws |-> cloning.ws,
                         alone |-> cloning.alone,
                         entries |-> cloning.entries]
  /\ cloning' = NoClone
  /\ UNCHANGED <<snapshots, sealing, held, calls>>

AcquireUnlinkedLease(h, w, path) ==
  /\ Call /\ held[h] = 0 /\ w \in DOMAIN db.workspaces
  /\ LET i == ResolvePath(db, w, path)
         l == NextId(db.leases)
     IN /\ i # 0
        /\ db' = [db EXCEPT !.leases = @ @@ (l :> [inode |-> i, ws |-> w])]
        /\ held' = [held EXCEPT ![h] = l]
  /\ UNCHANGED <<snapshots, sealing, cloning, last>>

ReleaseLease(h) ==
  /\ held[h] # 0
  /\ held' = [held EXCEPT ![h] = 0]
  /\ db' = IF held[h] \notin DOMAIN db.leases THEN db
           ELSE DropInodeIfOrphaned(
                  [db EXCEPT !.leases = Without(@, {held[h]})],
                  db.leases[held[h]].inode)
  /\ UNCHANGED <<snapshots, sealing, cloning, last, calls>>

Next ==
  \/ \E w \in Names :
       \/ CreateWorkspace(w) \/ DeleteWorkspace(w)
       \/ \E batch \in Batches : Commit(w, batch)
       \/ SealBegin(w) \/ CloneBegin(w)
       \/ \E h \in Holders, path \in Leasable :
            AcquireUnlinkedLease(h, w, path)
  \/ SealCapture \/ SealCommit \/ CloneCommit
  \/ \E h \in Holders : ReleaseLease(h)

Spec == Init /\ [][Next]_vars

(***************************************************************************)
(* The properties.                                                         *)
(***************************************************************************)
(* The rows refer to rows: the root of a workspace and both ends of a      *)
(* directory entry are inodes of one workspace, and a lease pins an inode  *)
(* that is there, so a file unlinked while open keeps its records.         *)
TypeOK ==
  /\ DOMAIN db.workspaces \subseteq Names
  /\ \A w \in DOMAIN db.workspaces :
       LET root == db.workspaces[w].root
       IN root \in DOMAIN db.inodes /\ db.inodes[root].ws = w
  /\ \A i \in DOMAIN db.inodes :
       /\ db.inodes[i].ws \in DOMAIN db.workspaces
       /\ ValidRun(db.inodes[i].records)
  /\ \A key \in DOMAIN db.dirents :
       /\ {key[1], db.dirents[key]} \subseteq DOMAIN db.inodes
       /\ db.inodes[key[1]].kind = "directory"
       /\ db.inodes[db.dirents[key]].ws = db.inodes[key[1]].ws
  /\ \A l \in DOMAIN db.leases : db.leases[l].inode \in DOMAIN db.inodes

(* No mutation of apply_mutation leaves a row that refers to nothing, or   *)
(* strands or shares a subtree: an inode is a root, or found by a walk     *)
(* from its root, or kept by a lease alone; and a directory is found at    *)
(* one path.                                                               *)
InodesAccounted ==
  /\ TypeOK
  /\ \A w \in DOMAIN db.workspaces :
      LET found == Paths(db, w)
          Linked(i) == \E key \in DOMAIN db.dirents : db.dirents[key] = i
          Leased(i) == \E l \in DOMAIN db.leases : db.leases[l].inode = i
      IN \A i \in DOMAIN db.inodes :
           db.inodes[i].ws = w =>
             LET paths == {x \in found : x.inode = i}
             IN IF i = db.workspaces[w].root THEN paths = {}
                ELSE IF db.inodes[i].kind = "directory" /\ Linked(i)
                THEN Cardinality(paths) = 1
                ELSE paths # {} \/ (Leased(i) /\ ~Linked(i))

(* What the mutations accept, head_tree can build: the checks of           *)
(* resolve_new_leaf, one leaf at a time, imply those SnapshotBuilder makes *)
(* of the whole tree.  Its bound on paths is apart: renaming a directory   *)
(* checks the new path of the directory and not those below it.            *)
HeadBuilds ==
  \A w \in DOMAIN db.workspaces :
    (\A x \in Paths(db, w) : ValidPath(x.path))
      => BuildTree(db, w).err = "none"

(* truncate_records cuts or pads the bytes of a file, and refuses only to  *)
(* cut a data record in two; what it returns is a run of records again.    *)
TruncateCutsBytes ==
  \A i \in DOMAIN db.inodes :
    LET records == db.inodes[i].records
        cells == Cells(records)
        Mid(n) == \E k \in DOMAIN records :
                    /\ ~records[k].hole /\ Position(records, k) < n
                    /\ n < Position(records, k) + RecordLength(records[k])
        Padded(n) == [j \in 1..n |-> IF j <= Len(cells) THEN cells[j]
                                     ELSE Byte(0)]
    IN \A n \in 0..(Len(cells) + 2) :
         LET cut == TruncateRecords(records, n)
         IN /\ cut.ok = ~Mid(n)
            /\ cut.ok => /\ Cells(cut.records) = Padded(n)
                         /\ \/ ValidRun(cut.records)
                            \/ Len(cut.records) > MaxRecords

(* What a tree shows at each of its paths.                                 *)
Contents(d, w) ==
  LET found == Paths(d, w)
      Shown(p) == LET n == d.inodes[(CHOOSE x \in found : x.path = p).inode]
                  IN <<n.kind, n.executable, n.target, Cells(n.records)>>
  IN [p \in {x.path : x \in found} |-> Shown(p)]

(* Phase C of seal_snapshot: jobs planned from one tree never change what  *)
(* another shows, while the workspace is the one that was captured.        *)
SealKeepsContents ==
  [][/\ sealing.pc = "commit" /\ sealing' = NoSeal /\ sealing.same
     /\ sealing.ws \in DOMAIN db.workspaces
     => Contents(db', sealing.ws) = Contents(db, sealing.ws)]_vars

(* After seal_snapshot the head and the snapshot agree: the head has       *)
(* nothing left to seal, and the manifest is one that decode accepts.      *)
SealSettles ==
  last.op = "seal" =>
    /\ SealJobs(db, last.ws) = <<>>
    /\ BuildSnapshot(db, last.ws).entries = last.entries
    /\ Decodes(last.entries)

Resealed(d, w) ==
  BuildSnapshot(ApplyJobs(d, w, SealJobs(d, w)).db, w).entries

(* A workspace cloned from a manifest seals as that manifest again, unless *)
(* a file is stamped and sparse or empty: rebuilding forgets its contract, *)
(* and the seal does not plan it.                                          *)
CloneReseals ==
  last.op = "clone" /\ last.alone =>
    \/ Resealed(db, last.ws) = last.entries
    \/ \E i \in DOMAIN last.entries :
         LET e == last.entries[i].entry
         IN /\ e.kind = "file" /\ e.body.stamp # "none"
            /\ \/ e.body.records = <<>>
               \/ \E k \in DOMAIN e.body.records : e.body.records[k].hole
=============================================================================
