------------------------------- MODULE RootsGc -------------------------------
(***************************************************************************)
(* The metadata roots and the two-epoch collector of workspace.rs.         *)
(*                                                                         *)
(* An object is live when a workspace head, a snapshot row or a lease      *)
(* names it.  Admission writes files outside any transaction; commit, seal *)
(* and collect serialise on the database's one write transaction           *)
(* (BEGIN IMMEDIATE), modelled by `writer'.  Clients are threads of        *)
(* possibly different processes on one store root.                         *)
(*                                                                         *)
(* A workspace head is the set of data objects its linked files name, a    *)
(* snapshot is its manifest object, and Refs gives the data objects a      *)
(* manifest names.                                                         *)
(*                                                                         *)
(* An operator Name_Variant holds the mistake a mutant run puts in place   *)
(* of Name.                                                                *)
(***************************************************************************)
EXTENDS Naturals, FiniteSets

CONSTANTS
  Clients,         \* threads that call into the store
  Roles,           \* Roles[c]: the operations client c may start
  Data,            \* data objects: tensor chunks and whole blobs
  Manifests,       \* manifest objects, which are also the snapshot ids
  Refs,            \* Refs[m]: the data objects manifest m names
  Remote,          \* manifests a pull may adopt
  Workspaces,      \* workspace names
  MaxEpoch,        \* bound on collection passes
  MaxGen,          \* bound on a workspace's generation
  MaxIncarnations, \* how often one workspace name may be created
  None

Operations == {"commit", "seal", "adopt", "push", "collect"}
MaxAttempts == 3
Objects == Data \cup Manifests

ASSUME RootsAssumption ==
  /\ Roles \in [Clients -> SUBSET Operations]
  /\ Data \cap Manifests = {}
  /\ Refs \in [Manifests -> SUBSET Data]
  /\ Remote \subseteq Manifests
  /\ MaxEpoch \in Nat /\ MaxGen \in Nat /\ MaxIncarnations \in Nat
  /\ None \notin Clients \cup Manifests \cup Workspaces

VARIABLES
  resident,    \* objects whose file is installed under objects/
  row,         \* row[w]: the workspaces table holds w
  gen,         \* gen[w]: its head_generation
  head,        \* head[w]: objects named by its linked files
  orphan,      \* orphan[w]: objects of unlinked inodes a lease keeps
  created,     \* created[w]: how often the name was created
  snapshots,   \* the snapshots table
  pins,        \* pins[c]: the snapshot c's pending-sync lease pins
  leaked,      \* snapshots pinned by leases whose pusher died
  epoch,       \* gc_state.epoch
  quarantine,  \* gc_quarantine: the epoch of each row, 0 for no row
  unrooted,    \* history: unrooted[o]: consecutive committed passes that found
               \* o resident and without a root
  writer,      \* the client inside the write transaction
  torn,        \* history: roots whose row may have landed over missing bytes
  mistaken,    \* history: workspaces whose head took a seal of an earlier
               \* incarnation of the name
  seenInc,     \* history: the incarnation whose generation a seal read
  pc, argW, argM, seenGen, seenTree, todo, refs, keep, drop, changed, attempt,
  marks, listed

dbVars == <<row, gen, head, orphan, created, snapshots, leaked, epoch,
            quarantine, unrooted, torn, mistaken>>
callVars == <<argW, argM, seenInc, seenGen, seenTree, refs, keep, drop,
              changed, attempt>>
gcVars == <<marks, listed>>
vars == <<resident, dbVars, pins, writer, pc, callVars, todo, gcVars>>

SealPcs == {"sealTree", "sealPlan", "sealAdmit", "sealPut", "sealCommit"}
GcPcs == {"gcList", "gcSweep"}
TxPcs == {"sealPut", "sealCommit"} \cup GcPcs
Pcs == {"idle", "verify", "adoptStat", "adoptRow", "push"} \cup SealPcs
         \cup GcPcs

Closure(m) == {m} \cup Refs[m]

\* The reachability walk: the object maps as one root, the leases as one,
\* and each snapshot row.
HeadObjects == UNION {head[w] \cup orphan[w] : w \in Workspaces}
Leased == leaked \cup ({pins[c] : c \in Clients} \ {None})
LeasedObjects == UNION {Closure(m) : m \in Leased}
Rooted ==
  HeadObjects \cup LeasedObjects \cup UNION {Closure(m) : m \in snapshots}

\* usage: how many roots reach o, and the resident objects only m reaches.
ReachedBy_NoLeases(o) ==
  Cardinality({m \in snapshots : o \in Closure(m)})
    + (IF o \in HeadObjects THEN 1 ELSE 0)
ReachedBy(o) ==
  Cardinality({m \in snapshots : o \in Closure(m)})
    + (IF o \in HeadObjects THEN 1 ELSE 0)
    + (IF o \in LeasedObjects THEN 1 ELSE 0)
Exclusive(m) == {o \in Closure(m) \cap resident : ReachedBy(o) = 1}

Init ==
  /\ resident = {}
  /\ row = [w \in Workspaces |-> FALSE]
  /\ gen = [w \in Workspaces |-> 0]
  /\ head = [w \in Workspaces |-> {}]
  /\ orphan = [w \in Workspaces |-> {}]
  /\ created = [w \in Workspaces |-> 0]
  /\ snapshots = {} /\ leaked = {} /\ torn = {} /\ mistaken = {}
  /\ pins = [c \in Clients |-> None]
  /\ epoch = 0
  /\ quarantine = [o \in Objects |-> 0]
  /\ unrooted = [o \in Objects |-> 0]
  /\ writer = None
  /\ pc = [c \in Clients |-> "idle"]
  /\ argW = [c \in Clients |-> None]
  /\ argM = [c \in Clients |-> None]
  /\ seenInc = [c \in Clients |-> 0]
  /\ seenGen = [c \in Clients |-> 0]
  /\ seenTree = [c \in Clients |-> {}]
  /\ todo = [c \in Clients |-> {}]
  /\ refs = [c \in Clients |-> {}]
  /\ keep = [c \in Clients |-> {}]
  /\ drop = [c \in Clients |-> {}]
  /\ changed = [c \in Clients |-> FALSE]
  /\ attempt = [c \in Clients |-> 0]
  /\ marks = [c \in Clients |-> {}]
  /\ listed = [c \in Clients |-> {}]

-----------------------------------------------------------------------------
\* A call is over: its locals die with it.
Return(c) ==
  /\ pc' = [pc EXCEPT ![c] = "idle"]
  /\ argW' = [argW EXCEPT ![c] = None]
  /\ argM' = [argM EXCEPT ![c] = None]
  /\ seenInc' = [seenInc EXCEPT ![c] = 0]
  /\ seenGen' = [seenGen EXCEPT ![c] = 0]
  /\ seenTree' = [seenTree EXCEPT ![c] = {}]
  /\ todo' = [todo EXCEPT ![c] = {}]
  /\ refs' = [refs EXCEPT ![c] = {}]
  /\ keep' = [keep EXCEPT ![c] = {}]
  /\ drop' = [drop EXCEPT ![c] = {}]
  /\ changed' = [changed EXCEPT ![c] = FALSE]
  /\ attempt' = [attempt EXCEPT ![c] = 0]
  /\ marks' = [marks EXCEPT ![c] = {}]
  /\ listed' = [listed EXCEPT ![c] = {}]

Start(c, op, next) ==
  /\ pc[c] = "idle"
  /\ op \in Roles[c]
  /\ pc' = [pc EXCEPT ![c] = next]

Goto(c, from, to) ==
  /\ pc[c] = from
  /\ pc' = [pc EXCEPT ![c] = to]

\* BEGIN IMMEDIATE, whole transaction in one step.
Transact == writer = None

-----------------------------------------------------------------------------
(* Object admission: put_bytes, an ingest, or a pull's download.           *)
Admit(d) ==
  /\ d \notin resident
  /\ resident' = resident \cup {d}
  /\ UNCHANGED <<dbVars, pins, writer, pc, callVars, todo, gcVars>>

(* create_workspace *)
CreateWorkspace(w) ==
  /\ Transact /\ ~row[w]
  /\ created[w] < MaxIncarnations
  /\ row' = [row EXCEPT ![w] = TRUE]
  /\ gen' = [gen EXCEPT ![w] = 0]
  /\ created' = [created EXCEPT ![w] = @ + 1]
  /\ UNCHANGED <<resident, head, orphan, snapshots, leaked, epoch, quarantine,
                 unrooted, torn, mistaken, pins, writer, pc, callVars, todo,
                 gcVars>>

(* delete_workspace: the inodes, object maps and leases cascade.           *)
DeleteWorkspace(w) ==
  /\ Transact /\ row[w]
  /\ row' = [row EXCEPT ![w] = FALSE]
  /\ gen' = [gen EXCEPT ![w] = 0]
  /\ head' = [head EXCEPT ![w] = {}]
  /\ orphan' = [orphan EXCEPT ![w] = {}]
  /\ mistaken' = mistaken \ {w}
  /\ UNCHANGED <<resident, created, snapshots, leaked, epoch, quarantine,
                 unrooted, torn, pins, writer, pc, callVars, todo, gcVars>>

(* release_lease of an unlinked-file lease: orphaned inodes go with their  *)
(* object maps.                                                            *)
ReleaseUnlinked(w, left) ==
  /\ Transact /\ row[w]
  /\ left \subseteq orphan[w] /\ left # orphan[w]
  /\ orphan' = [orphan EXCEPT ![w] = left]
  /\ UNCHANGED <<resident, row, gen, head, created, snapshots, leaked, epoch,
                 quarantine, unrooted, torn, mistaken, pins, writer, pc,
                 callVars, todo, gcVars>>

-----------------------------------------------------------------------------
(* commit_generation: verify every referenced digest, then one transaction *)
(* that looks again before it moves the head.                              *)
CommitBegin(c, w, digests) ==
  /\ Start(c, "commit", "verify")
  /\ argW' = [argW EXCEPT ![c] = w]
  /\ refs' = [refs EXCEPT ![c] = digests]
  /\ todo' = [todo EXCEPT ![c] = digests]
  /\ UNCHANGED <<resident, dbVars, pins, writer, argM, seenInc, seenGen,
                 seenTree, keep, drop, changed, attempt, gcVars>>

CommitVerify(c, d) ==
  /\ pc[c] = "verify"
  /\ d \in todo[c] \cap resident
  /\ todo' = [todo EXCEPT ![c] = @ \ {d}]
  /\ UNCHANGED <<resident, dbVars, pins, writer, pc, callVars, gcVars>>

\* The presence re-check commit_generation makes inside the transaction.
StillResident(c) == refs[c] \subseteq resident

\* kept: what the batch leaves of the old tree; held: what it unlinks while
\* a lease still holds the inode.
CommitTx(c, kept, held) ==
  /\ pc[c] = "verify" /\ todo[c] = {}
  /\ Transact
  /\ StillResident(c)
  /\ row[argW[c]] /\ gen[argW[c]] < MaxGen
  /\ kept \subseteq head[argW[c]] /\ held \subseteq head[argW[c]] \ kept
  /\ head' = [head EXCEPT ![argW[c]] = kept \cup refs[c]]
  /\ orphan' = [orphan EXCEPT ![argW[c]] = @ \cup held]
  /\ gen' = [gen EXCEPT ![argW[c]] = @ + 1]
  /\ Return(c)
  /\ UNCHANGED <<resident, row, created, snapshots, leaked, epoch, quarantine,
                 unrooted, torn, mistaken, pins, writer>>

-----------------------------------------------------------------------------
(* seal_snapshot *)

\* Phase A reads the generation ...
SealBegin(c, w) ==
  /\ Start(c, "seal", "sealTree")
  /\ row[w]
  /\ argW' = [argW EXCEPT ![c] = w]
  /\ seenGen' = [seenGen EXCEPT ![c] = gen[w]]
  /\ seenInc' = [seenInc EXCEPT ![c] = created[w]]
  /\ attempt' = [attempt EXCEPT ![c] = 1]
  /\ UNCHANGED <<resident, dbVars, pins, writer, argM, seenTree, todo, refs,
                 keep, drop, changed, gcVars>>

\* ... and then, in a second read, the tree.
SealTree(c) ==
  /\ Goto(c, "sealTree", "sealPlan")
  /\ seenTree' = [seenTree EXCEPT ![c] = head[argW[c]]]
  /\ UNCHANGED <<resident, dbVars, pins, writer, argW, argM, seenInc, seenGen,
                 todo, refs, keep, drop, changed, attempt, gcVars>>

\* Phase B plans outside any transaction: records that already sit on the
\* planned boundaries are reused, the other regions are read and admitted.
\* stale: objects of the seen tree the jobs' new records no longer name, all
\* of them read to cut the fresh regions.  A job may also change a file's
\* planner and contract alone.
SealPlan(c, stale, reuse, fresh, jobs) ==
  /\ Goto(c, "sealPlan", "sealAdmit")
  /\ stale \subseteq seenTree[c] \cap resident
  /\ reuse \subseteq seenTree[c] \ stale
  /\ ~jobs => (stale = {} /\ reuse = {} /\ fresh = {})
  /\ drop' = [drop EXCEPT ![c] = stale]
  /\ keep' = [keep EXCEPT ![c] = reuse]
  /\ refs' = [refs EXCEPT ![c] = fresh]
  /\ todo' = [todo EXCEPT ![c] = fresh]
  /\ changed' = [changed EXCEPT ![c] = jobs]
  /\ UNCHANGED <<resident, dbVars, pins, writer, argW, argM, seenInc, seenGen,
                 seenTree, attempt, gcVars>>

SealAdmit(c, d) ==
  /\ pc[c] = "sealAdmit" /\ d \in todo[c]
  /\ resident' = resident \cup {d}
  /\ todo' = [todo EXCEPT ![c] = @ \ {d}]
  /\ UNCHANGED <<dbVars, pins, writer, pc, callVars, gcVars>>

\* Phase C opens the transaction; a head that moved sends the call back to
\* phase A while attempts are left.
HeadUnmoved(c) == gen[argW[c]] = seenGen[c]

SealRetry(c) ==
  /\ Goto(c, "sealAdmit", "sealTree") /\ todo[c] = {}
  /\ Transact
  /\ row[argW[c]] /\ ~HeadUnmoved(c) /\ attempt[c] < MaxAttempts
  /\ seenGen' = [seenGen EXCEPT ![c] = gen[argW[c]]]
  /\ seenInc' = [seenInc EXCEPT ![c] = created[argW[c]]]
  /\ seenTree' = [seenTree EXCEPT ![c] = {}]
  /\ refs' = [refs EXCEPT ![c] = {}]
  /\ keep' = [keep EXCEPT ![c] = {}]
  /\ drop' = [drop EXCEPT ![c] = {}]
  /\ changed' = [changed EXCEPT ![c] = FALSE]
  /\ attempt' = [attempt EXCEPT ![c] = @ + 1]
  /\ UNCHANGED <<resident, dbVars, pins, writer, argW, argM, todo, gcVars>>

\* lost: what the jobs' files name no more.  It is what was planned, unless
\* the generation is that of a later incarnation with another tree.
SealTx(c, lost) ==
  /\ Goto(c, "sealAdmit", "sealPut") /\ todo[c] = {}
  /\ Transact
  /\ row[argW[c]] /\ HeadUnmoved(c) /\ StillResident(c)
  /\ changed[c] => gen[argW[c]] < MaxGen
  /\ lost \subseteq head[argW[c]]
  /\ ~changed[c] \/ head[argW[c]] = seenTree[c] => lost = drop[c]
  /\ drop' = [drop EXCEPT ![c] = lost]
  /\ writer' = c
  /\ UNCHANGED <<resident, dbVars, pins, argW, argM, seenInc, seenGen,
                 seenTree, refs, keep, changed, attempt, todo, gcVars>>

\* The head once the jobs' SetRecords are applied to the current tree.
SealedHead(c) == (head[argW[c]] \ drop[c]) \cup keep[c] \cup refs[c]

\* The manifest is admitted before its row can land.
SealPut(c, m) ==
  /\ Goto(c, "sealPut", "sealCommit")
  /\ Refs[m] = SealedHead(c)
  /\ resident' = resident \cup {m}
  /\ argM' = [argM EXCEPT ![c] = m]
  /\ UNCHANGED <<dbVars, pins, writer, argW, seenInc, seenGen, seenTree, todo,
                 refs, keep, drop, changed, attempt, gcVars>>

\* Phase C knows the workspace by its name and generation: after a delete, a
\* create and as many commits, records reused from the first incarnation's
\* tree go to the second, and nobody looked whether they are still resident.
Mistakes(c) ==
  seenInc[c] # created[argW[c]] /\ ~(keep[c] \subseteq head[argW[c]])

SealCommit(c) ==
  /\ pc[c] = "sealCommit"
  /\ head' = [head EXCEPT ![argW[c]] = SealedHead(c)]
  /\ gen' = [gen EXCEPT ![argW[c]] = IF changed[c] THEN @ + 1 ELSE @]
  /\ snapshots' = snapshots \cup {argM[c]}
  /\ mistaken' = IF Mistakes(c) THEN mistaken \cup {argW[c]} ELSE mistaken
  /\ torn' = IF argW[c] \in mistaken'
             THEN torn \cup {argM[c]} ELSE torn \ {argM[c]}
  /\ writer' = None
  /\ Return(c)
  /\ UNCHANGED <<resident, row, orphan, created, leaked, epoch, quarantine,
                 unrooted, pins>>

-----------------------------------------------------------------------------
(* adopt_snapshot, the tail of a pull: stat every data object, admit the   *)
(* manifest, insert the row.  No step looks again.                         *)
AdoptBegin(c, m) ==
  /\ Start(c, "adopt", "adoptStat")
  /\ argM' = [argM EXCEPT ![c] = m]
  /\ todo' = [todo EXCEPT ![c] = Refs[m]]
  /\ UNCHANGED <<resident, dbVars, pins, writer, argW, seenInc, seenGen,
                 seenTree, refs, keep, drop, changed, attempt, gcVars>>

AdoptStat(c, d) ==
  /\ pc[c] = "adoptStat"
  /\ d \in todo[c] \cap resident
  /\ todo' = [todo EXCEPT ![c] = @ \ {d}]
  /\ UNCHANGED <<resident, dbVars, pins, writer, pc, callVars, gcVars>>

AdoptPut(c) ==
  /\ Goto(c, "adoptStat", "adoptRow") /\ todo[c] = {}
  /\ resident' = resident \cup {argM[c]}
  /\ UNCHANGED <<dbVars, pins, writer, callVars, todo, gcVars>>

AdoptRow(c) ==
  /\ pc[c] = "adoptRow"
  /\ Transact
  /\ snapshots' = snapshots \cup {argM[c]}
  /\ torn' = IF Closure(argM[c]) \subseteq resident
             THEN torn \ {argM[c]} ELSE torn \cup {argM[c]}
  /\ Return(c)
  /\ UNCHANGED <<resident, row, gen, head, orphan, created, leaked, epoch,
                 quarantine, unrooted, mistaken, pins, writer>>

(* delete_snapshot's root row *)
DeleteSnapshot(m) ==
  /\ Transact /\ m \in snapshots
  /\ snapshots' = snapshots \ {m}
  /\ UNCHANGED <<resident, row, gen, head, orphan, created, leaked, epoch,
                 quarantine, unrooted, torn, mistaken, pins, writer, pc,
                 callVars, todo, gcVars>>

(* acquire_pending_sync_lease at the start of a push, release at its end.  *)
PushBegin(c, m) ==
  /\ Start(c, "push", "push")
  /\ Transact
  /\ m \in snapshots \cap resident
  /\ pins' = [pins EXCEPT ![c] = m]
  /\ UNCHANGED <<resident, dbVars, writer, callVars, todo, gcVars>>

PushEnd(c) ==
  /\ Goto(c, "push", "idle")
  /\ Transact
  /\ pins' = [pins EXCEPT ![c] = None]
  /\ UNCHANGED <<resident, dbVars, writer, callVars, todo, gcVars>>

-----------------------------------------------------------------------------
(* collect: one pass inside one write transaction.  File removals cannot   *)
(* be rolled back, the rows can.                                           *)
CollectBegin_Unlocked(c) ==
  /\ Start(c, "collect", "gcList")
  /\ Transact /\ epoch < MaxEpoch
  /\ snapshots \subseteq resident
  /\ marks' = [marks EXCEPT ![c] = Rooted]
  /\ listed' = [listed EXCEPT ![c] = resident]
  /\ UNCHANGED <<resident, dbVars, pins, writer, callVars, todo>>
CollectBegin_NoLeases(c) ==
  /\ Start(c, "collect", "gcList")
  /\ Transact /\ epoch < MaxEpoch
  /\ snapshots \subseteq resident
  /\ writer' = c
  /\ marks' = [marks EXCEPT ![c] = Rooted \ LeasedObjects]
  /\ listed' = [listed EXCEPT ![c] = resident]
  /\ UNCHANGED <<resident, dbVars, pins, callVars, todo>>
CollectBegin(c) ==
  /\ Start(c, "collect", "gcList")
  /\ Transact /\ epoch < MaxEpoch
  /\ snapshots \subseteq resident
  /\ writer' = c
  /\ marks' = [marks EXCEPT ![c] = Rooted]
  /\ listed' = [listed EXCEPT ![c] = resident]
  /\ UNCHANGED <<resident, dbVars, pins, callVars, todo>>

\* each_object walks while others admit: a late arrival may be missed.
CollectList(c, late) ==
  /\ Goto(c, "gcList", "gcSweep")
  /\ late \subseteq resident \ listed[c]
  /\ listed' = [listed EXCEPT ![c] = @ \cup late]
  /\ UNCHANGED <<resident, dbVars, pins, writer, callVars, todo, marks>>

\* Quarantined rows this pass (number epoch + 1) deletes.
Doomed_Early(c) ==
  {o \in listed[c] \ marks[c] :
     quarantine[o] # 0 /\ quarantine[o] + 1 <= epoch + 1}
Doomed(c) ==
  {o \in listed[c] \ marks[c] :
     quarantine[o] # 0 /\ quarantine[o] + 2 <= epoch + 1}

CollectDelete(c, o) ==
  /\ pc[c] = "gcSweep"
  /\ o \in Doomed(c)
  /\ resident' = resident \ {o}
  /\ listed' = [listed EXCEPT ![c] = @ \ {o}]
  /\ UNCHANGED <<dbVars, pins, writer, pc, callVars, todo, marks>>

NextQuarantine_Restamp(c) ==
  [o \in Objects |->
     IF o \notin listed[c] \/ o \in marks[c] THEN 0 ELSE epoch + 1]
\* Rescued, vanished and deleted rows go; the rest keep their epoch and a
\* newly unreferenced object gets this pass's.
NextQuarantine(c) ==
  [o \in Objects |->
     IF o \notin listed[c] \/ o \in marks[c] THEN 0
     ELSE IF quarantine[o] # 0 THEN quarantine[o] ELSE epoch + 1]

CollectCommit(c) ==
  /\ pc[c] = "gcSweep" /\ Doomed(c) = {}
  /\ quarantine' = NextQuarantine(c)
  /\ unrooted' = [o \in Objects |->
                    IF o \in listed[c] \ marks[c] THEN unrooted[o] + 1 ELSE 0]
  /\ epoch' = epoch + 1
  /\ writer' = None
  /\ Return(c)
  /\ UNCHANGED <<resident, row, gen, head, orphan, created, snapshots, leaked,
                 torn, mistaken, pins>>

-----------------------------------------------------------------------------
\* An error return or the death of the calling process: the transaction
\* rolls back, files stay as they are, and a dead pusher's lease stays.
Abandon(c) ==
  /\ pc[c] # "idle"
  /\ writer' = IF writer = c THEN None ELSE writer
  /\ leaked' = IF pins[c] = None THEN leaked ELSE leaked \cup {pins[c]}
  /\ pins' = [pins EXCEPT ![c] = None]
  /\ Return(c)
  /\ UNCHANGED <<resident, row, gen, head, orphan, created, snapshots, epoch,
                 quarantine, unrooted, torn, mistaken>>

Commit(c) ==
  \/ \E w \in Workspaces, digests \in SUBSET Data : CommitBegin(c, w, digests)
  \/ \E d \in Data : CommitVerify(c, d)
  \/ \E kept, held \in SUBSET Data : CommitTx(c, kept, held)

Seal(c) ==
  \/ \E w \in Workspaces : SealBegin(c, w)
  \/ SealTree(c)
  \/ \E stale, reuse, fresh \in SUBSET Data, jobs \in BOOLEAN :
       SealPlan(c, stale, reuse, fresh, jobs)
  \/ \E d \in Data : SealAdmit(c, d)
  \/ SealRetry(c)
  \/ \E lost \in SUBSET Data : SealTx(c, lost)
  \/ \E m \in Manifests : SealPut(c, m)
  \/ SealCommit(c)

Adopt(c) ==
  \/ \E m \in Remote : AdoptBegin(c, m)
  \/ \E d \in Data : AdoptStat(c, d)
  \/ AdoptPut(c)
  \/ AdoptRow(c)

Push(c) == (\E m \in Manifests : PushBegin(c, m)) \/ PushEnd(c)

Collect(c) ==
  \/ CollectBegin(c)
  \/ \E late \in SUBSET Objects : CollectList(c, late)
  \/ \E o \in Objects : CollectDelete(c, o)
  \/ CollectCommit(c)

Next ==
  \/ \E d \in Data : Admit(d)
  \/ \E w \in Workspaces : CreateWorkspace(w) \/ DeleteWorkspace(w)
  \/ \E w \in Workspaces, left \in SUBSET Data : ReleaseUnlinked(w, left)
  \/ \E m \in Manifests : DeleteSnapshot(m)
  \/ \E c \in Clients : Commit(c) \/ Seal(c) \/ Adopt(c) \/ Push(c)
                          \/ Collect(c) \/ Abandon(c)

Spec == Init /\ [][Next]_vars

-----------------------------------------------------------------------------
TableTypes ==
  /\ row \in [Workspaces -> BOOLEAN]
  /\ gen \in [Workspaces -> 0..MaxGen]
  /\ created \in [Workspaces -> 0..MaxIncarnations]
  /\ head \in [Workspaces -> SUBSET Data]
  /\ orphan \in [Workspaces -> SUBSET Data]
  /\ snapshots \subseteq Manifests
  /\ leaked \subseteq Manifests
  /\ torn \subseteq Manifests
  /\ mistaken \subseteq Workspaces
  /\ epoch \in 0..MaxEpoch
  /\ quarantine \in [Objects -> 0..MaxEpoch]
  /\ unrooted \in [Objects -> Nat]
CallTypes ==
  /\ pc \in [Clients -> Pcs]
  /\ argW \in [Clients -> Workspaces \cup {None}]
  /\ argM \in [Clients -> Manifests \cup {None}]
  /\ seenInc \in [Clients -> 0..MaxIncarnations]
  /\ seenGen \in [Clients -> 0..MaxGen]
  /\ seenTree \in [Clients -> SUBSET Data]
  /\ todo \in [Clients -> SUBSET Data]
  /\ refs \in [Clients -> SUBSET Data]
  /\ keep \in [Clients -> SUBSET Data]
  /\ drop \in [Clients -> SUBSET Data]
  /\ changed \in [Clients -> BOOLEAN]
  /\ attempt \in [Clients -> 0..MaxAttempts]
  /\ marks \in [Clients -> SUBSET Objects]
  /\ listed \in [Clients -> SUBSET Objects]

(* Types of the tables, the lock and every call's locals.                  *)
TypeOK ==
  /\ resident \subseteq Objects
  /\ pins \in [Clients -> Manifests \cup {None}]
  /\ writer \in Clients \cup {None}
  /\ TableTypes /\ CallTypes

(* Every object a workspace head or a leased unlinked file names is        *)
(* resident, whatever the collector, adopters and crashes do               *)
(* (commit_generation's and seal_snapshot's re-checks).  The exception is  *)
(* a workspace that took a seal of an earlier incarnation of its name, for *)
(* as long as it exists.                                                   *)
HeadsResident ==
  \A w \in Workspaces \ mistaken : head[w] \cup orphan[w] \subseteq resident

(* A manifest and all the data it names are resident while its snapshot    *)
(* row or any push's lease stands, unless adopt_snapshot or the seal of    *)
(* such a workspace tore that root.                                        *)
UntornRootsResident ==
  \A m \in (snapshots \cup Leased) \ torn : Closure(m) \subseteq resident

(* The inductive invariant behind the two properties above.  A client is   *)
(* inside a transaction exactly when it holds the write lock; ...          *)
LockInv == \A c \in Clients : pc[c] \in TxPcs <=> writer = c

\* ... so the root set cannot outgrow a running pass's marks; ...
MarkInv ==
  \A c \in Clients :
    pc[c] \in GcPcs => Rooted \subseteq marks[c] /\ epoch < MaxEpoch

\* ... and a seal whose generation check passed works on the tree it read,
\* when that tree is of the workspace's present incarnation.
ArgOK(c) ==
  /\ pc[c] = "verify" => argW[c] \in Workspaces
  /\ pc[c] \in {"adoptStat", "adoptRow"} => argM[c] \in Manifests
  /\ pc[c] \in SealPcs => argW[c] \in Workspaces /\ seenInc[c] <= created[argW[c]]
  /\ pc[c] = "sealCommit" => argM[c] \in Manifests
SeenOK(c) ==
  pc[c] \in SealPcs /\ row[argW[c]] /\ seenInc[c] = created[argW[c]] =>
    /\ seenGen[c] <= gen[argW[c]]
    /\ pc[c] # "sealTree" /\ HeadUnmoved(c) => seenTree[c] = head[argW[c]]
SealOK(c) ==
  /\ pc[c] \in SealPcs \ {"sealTree", "sealPlan"} =>
       /\ keep[c] \subseteq seenTree[c]
       /\ ~changed[c] => drop[c] = {} /\ keep[c] = {} /\ refs[c] = {}
  /\ pc[c] \in {"sealPut", "sealCommit"} =>
       /\ row[argW[c]] /\ HeadUnmoved(c) /\ StillResident(c)
       /\ changed[c] => gen[argW[c]] < MaxGen
  /\ pc[c] = "sealCommit" =>
       argM[c] \in resident /\ Refs[argM[c]] = SealedHead(c)
CallInv == \A c \in Clients : ArgOK(c) /\ SeenOK(c) /\ SealOK(c)

IndInv ==
  /\ TypeOK /\ LockInv /\ MarkInv /\ CallInv
  /\ HeadsResident /\ UntornRootsResident

(* The invariant behind the quarantine: a row's epoch and the passes since  *)
(* count the same thing, how long the object has been without a root.      *)
QuarantineInv ==
  /\ epoch \in Nat
  /\ quarantine \in [Objects -> Nat]
  /\ unrooted \in [Objects -> 0..2]
  /\ \A o \in Objects :
       IF quarantine[o] = 0 THEN unrooted[o] = 0
       ELSE unrooted[o] + quarantine[o] = epoch + 1

(* usage's exclusive objects of a snapshot are exactly the resident ones   *)
(* that deleting its row would leave without any root.  The manifest is    *)
(* one of them unless it is gone or a lease pins the snapshot; then        *)
(* nothing is exclusive, whatever SnapshotUsage says of the manifest.      *)
ExclusiveIsFreed ==
  \A m \in snapshots :
    /\ Exclusive(m) =
         (resident \cap Closure(m))
           \ (HeadObjects \cup LeasedObjects
                \cup UNION {Closure(n) : n \in snapshots \ {m}})
    /\ m \in Exclusive(m) <=> m \in resident \ Leased
    /\ m \in Leased => Exclusive(m) = {}

(* adopt_snapshot: "every referenced data object must already be resident" *)
(* - a root row never names bytes that are not there.                      *)
RootsResident == \A m \in snapshots : Closure(m) \subseteq resident

(* No pass removes an object that some root names at that moment           *)
(* (collect: "a live object can never enter the delete set").              *)
LiveNeverDeleted ==
  [][\A o \in Rooted \cap resident : o \in resident']_vars

(* The quarantine: a pass removes only what the two passes before it both  *)
(* found without a root.                                                   *)
TwoPassesBeforeDelete ==
  [][\A o \in resident \ resident' : unrooted[o] >= 2]_vars

(* And it keeps nothing longer: an object that was resident and without a  *)
(* root in three consecutive passes is gone, so garbage is bounded even    *)
(* when passes are killed between their removals and their commit.         *)
NoGarbageOutlivesThreePasses == \A o \in Objects : unrooted[o] <= 2
=============================================================================
