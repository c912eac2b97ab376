------------------------------- MODULE Layout -------------------------------
(***************************************************************************)
(* The projected trees and refs of layout.rs, and scrub and                *)
(* delete_snapshot of workspace.rs, which remove them.                     *)
(*                                                                         *)
(* Every scratch artifact has a token: the lease file tmp/building-<t>,    *)
(* and the directory .building-<t> or the staged ref .swap-<t>.  A token   *)
(* is never used twice, so it also names the inode that project or set_ref *)
(* made, wherever it was renamed to: into place, or to a .removed- name.   *)
(* A tree's content is the number of manifest entries; a ref file has      *)
(* none.  Clients are threads of possibly different processes.             *)
(*                                                                         *)
(* An operator Name_Variant holds the mistake a mutant run puts in place   *)
(* of Name.                                                                *)
(***************************************************************************)
EXTENDS Naturals

CONSTANTS
  Clients,    \* threads that call into the layout
  Roles,      \* Roles[c]: the operations client c may start
  Mortal,     \* clients whose process may die
  Ids,        \* snapshot ids
  Names,      \* ref names
  Size,       \* entries in a manifest
  MaxTokens,  \* bound on projections and ref swaps
  MaxRoots,   \* bound on root rows inserted
  None

Operations == {"project", "swap", "delete", "scrub"}

ASSUME LayoutAssumption ==
  /\ Roles \in [Clients -> SUBSET Operations]
  /\ Mortal \subseteq Clients
  /\ Size \in Nat \ {0} /\ MaxTokens \in Nat /\ MaxRoots \in Nat
  /\ None \notin Clients \cup Ids \cup Names

Tokens == 1..MaxTokens
Entries == 1..Size

VARIABLES
  rooted,     \* the snapshots table
  inserted,   \* root rows inserted so far
  writer,     \* the client inside the write transaction
  issued,     \* tokens used so far
  leaseFile,  \* tokens whose lease file exists
  holder,     \* holder[t]: who holds the lock on that file's inode
  building,   \* tokens whose .building- name exists
  staged,     \* tokens whose .swap- name exists
  removed,    \* inodes with a .removed- name
  content,    \* content[t]: the entries in directory t
  idOf,       \* idOf[t]: the snapshot t projects or names
  tree,       \* tree[i]: the inode at snapshots/<i>, 0 for none
  ref,        \* ref[n]: the inode at refs/<n>, 0 for none
  swept,      \* history: leases whose file was removed under a live creator
  pc, back, id, name, tok, victim, written, todo, seen, hits

diskVars == <<leaseFile, holder, building, staged, removed, content, tree,
              ref, swept>>
rootVars == <<rooted, inserted, writer>>
tokenVars == <<issued, idOf>>
argVars == <<id, name, tok, written>>
loopVars == <<todo, seen, hits>>
wipeVars == <<back, victim>>
vars == <<diskVars, rootVars, tokenVars, pc, argVars, loopVars, wipeVars>>

WipePcs == {"open", "wiping"}

Init ==
  /\ rooted = {} /\ inserted = 0 /\ writer = None /\ issued = 0
  /\ leaseFile = {} /\ building = {} /\ staged = {} /\ removed = {}
  /\ swept = {}
  /\ holder = [t \in Tokens |-> None]
  /\ content = [t \in Tokens |-> {}]
  /\ idOf = [t \in Tokens |-> None]
  /\ tree = [i \in Ids |-> 0]
  /\ ref = [n \in Names |-> 0]
  /\ pc = [c \in Clients |-> "idle"]
  /\ back = [c \in Clients |-> "idle"]
  /\ id = [c \in Clients |-> None]
  /\ name = [c \in Clients |-> None]
  /\ tok = [c \in Clients |-> 0]
  /\ victim = [c \in Clients |-> 0]
  /\ written = [c \in Clients |-> 0]
  /\ todo = [c \in Clients |-> {}]
  /\ seen = [c \in Clients |-> {}]
  /\ hits = [c \in Clients |-> {}]

Goto(c, from, to) ==
  /\ pc[c] = from
  /\ pc' = [pc EXCEPT ![c] = to]

Start(c, op, next) == op \in Roles[c] /\ Goto(c, "idle", next)

\* The call is over and its locals are gone.
Return(c) ==
  /\ pc' = [pc EXCEPT ![c] = "idle"]
  /\ back' = [back EXCEPT ![c] = "idle"]
  /\ id' = [id EXCEPT ![c] = None]
  /\ name' = [name EXCEPT ![c] = None]
  /\ tok' = [tok EXCEPT ![c] = 0]
  /\ victim' = [victim EXCEPT ![c] = 0]
  /\ written' = [written EXCEPT ![c] = 0]
  /\ todo' = [todo EXCEPT ![c] = {}]
  /\ seen' = [seen EXCEPT ![c] = {}]
  /\ hits' = [hits EXCEPT ![c] = {}]

Transact == writer = None

Unlock(c) ==
  holder' = [t \in Tokens |-> IF holder[t] = c THEN None ELSE holder[t]]

-----------------------------------------------------------------------------
(* remove_dir_all of inode t under its scratch name, and then on to `next'.*)
(* The directory is opened by name, emptied through the open descriptor    *)
(* entry by entry, and its name removed last.                              *)
Named(t) == t \in building \cup removed

Wipe(c, t, next) ==
  /\ pc' = [pc EXCEPT ![c] = "open"]
  /\ victim' = [victim EXCEPT ![c] = t]
  /\ back' = [back EXCEPT ![c] = next]

WipeOpen(c) ==
  /\ Goto(c, "open", "wiping")
  /\ Named(victim[c])
  /\ UNCHANGED <<diskVars, rootVars, tokenVars, argVars, loopVars, wipeVars>>

WipeEntry(c, e) ==
  /\ pc[c] = "wiping" /\ e \in content[victim[c]]
  /\ content' = [content EXCEPT ![victim[c]] = @ \ {e}]
  /\ UNCHANGED <<leaseFile, holder, building, staged, removed, tree, ref,
                 swept, rootVars, tokenVars, pc, argVars, loopVars, wipeVars>>

WipeDone(c) ==
  /\ pc' = [pc EXCEPT ![c] = back[c]]
  /\ victim' = [victim EXCEPT ![c] = 0]
  /\ back' = [back EXCEPT ![c] = "idle"]

WipeRoot(c) ==
  /\ pc[c] = "wiping" /\ content[victim[c]] = {}
  /\ building' = building \ {victim[c]}
  /\ removed' = removed \ {victim[c]}
  /\ WipeDone(c)
  /\ UNCHANGED <<leaseFile, holder, staged, content, tree, ref, swept,
                 rootVars, tokenVars, argVars, loopVars>>

\* Another call works on the same directory, or has finished with it.
Shared(c) ==
  \E b \in Clients \ {c} : victim[c] \in {victim[b], tok[b]}

WipeFail(c) ==
  /\ \/ pc[c] \in WipePcs /\ ~Named(victim[c])
     \/ pc[c] = "wiping" /\ Shared(c)
  /\ WipeDone(c)
  /\ UNCHANGED <<diskVars, rootVars, tokenVars, argVars, loopVars>>

-----------------------------------------------------------------------------
(* take_scratch_lease: create_new, then the lock in a second call.         *)
LeaseCreate(c, i) ==
  /\ issued < MaxTokens
  /\ issued' = issued + 1
  /\ idOf' = [idOf EXCEPT ![issued'] = i]
  /\ leaseFile' = leaseFile \cup {issued'}
  /\ tok' = [tok EXCEPT ![c] = issued']
  /\ UNCHANGED <<holder, building, staged, removed, content, tree, ref, swept>>

LeaseLock(c) ==
  /\ Goto(c, "created", "leased")
  /\ holder[tok[c]] = None
  /\ holder' = [holder EXCEPT ![tok[c]] = c]
  /\ UNCHANGED <<leaseFile, building, staged, removed, content, tree, ref,
                 swept, rootVars, tokenVars, argVars, loopVars, wipeVars>>

\* A reaper is sampling the fresh lease: an error, and the file stays.
LeaseRefused(c) ==
  /\ pc[c] = "created" /\ holder[tok[c]] # None
  /\ Return(c)
  /\ UNCHANGED <<diskVars, rootVars, tokenVars>>

DropLease(c) ==
  /\ Goto(c, "unlease", "unleased")
  /\ Unlock(c)
  /\ UNCHANGED <<leaseFile, building, staged, removed, content, tree, ref,
                 swept, rootVars, tokenVars, argVars, loopVars, wipeVars>>

RemoveLease(c) ==
  /\ pc[c] = "unleased"
  /\ leaseFile' = leaseFile \ {tok[c]}
  /\ Return(c)
  /\ UNCHANGED <<holder, building, staged, removed, content, tree, ref, swept,
                 rootVars, tokenVars>>

-----------------------------------------------------------------------------
(* project_snapshot: load the rooted manifest, then project it.            *)
ProjectBegin(c, i) ==
  /\ Start(c, "project", "stat")
  /\ i \in rooted
  /\ id' = [id EXCEPT ![c] = i]
  /\ UNCHANGED <<diskVars, rootVars, tokenVars, name, tok, written, loopVars,
                 wipeVars>>

ProjectExists(c) ==
  /\ pc[c] = "stat" /\ tree[id[c]] # 0
  /\ Return(c)
  /\ UNCHANGED <<diskVars, rootVars, tokenVars>>

ProjectLease(c) ==
  /\ Goto(c, "stat", "created")
  /\ tree[id[c]] = 0
  /\ LeaseCreate(c, id[c])
  /\ UNCHANGED <<rootVars, id, name, written, loopVars, wipeVars>>

MakeDirectory(c) ==
  /\ Goto(c, "leased", "fill") /\ name[c] = None
  /\ building' = building \cup {tok[c]}
  /\ UNCHANGED <<leaseFile, holder, staged, removed, content, tree, ref, swept,
                 rootVars, tokenVars, argVars, loopVars, wipeVars>>

Fill(c) ==
  /\ pc[c] = "fill" /\ written[c] < Size
  /\ tok[c] \in building
  /\ written' = [written EXCEPT ![c] = @ + 1]
  /\ content' = [content EXCEPT ![tok[c]] = @ \cup {written[c] + 1}]
  /\ UNCHANGED <<leaseFile, holder, building, staged, removed, tree, ref,
                 swept, rootVars, tokenVars, pc, id, name, tok, loopVars,
                 wipeVars>>

\* The scratch, or a directory inside it, was taken away.
FillFail(c) ==
  /\ Goto(c, "fill", "cleanup") /\ written[c] < Size
  /\ tok[c] \notin building \/ content[tok[c]] # 1..written[c]
  /\ UNCHANGED <<diskVars, rootVars, tokenVars, argVars, loopVars, wipeVars>>

\* rename replaces nothing, or an empty directory.
Vacant(i) == tree[i] # 0 => content[tree[i]] = {}

Rename(c) ==
  /\ Goto(c, "fill", "cleanup") /\ written[c] = Size
  /\ tok[c] \in building /\ Vacant(id[c])
  /\ tree' = [tree EXCEPT ![id[c]] = tok[c]]
  /\ building' = building \ {tok[c]}
  /\ UNCHANGED <<leaseFile, holder, staged, removed, content, ref, swept,
                 rootVars, tokenVars, argVars, loopVars, wipeVars>>

\* Another projector's tree is there, or the scratch is gone.
RenameLost(c) ==
  /\ Goto(c, "fill", "cleanup") /\ written[c] = Size
  /\ tok[c] \notin building \/ ~Vacant(id[c])
  /\ UNCHANGED <<diskVars, rootVars, tokenVars, argVars, loopVars, wipeVars>>

Cleanup(c) ==
  /\ pc[c] = "cleanup"
  /\ Wipe(c, tok[c], "unlease")
  /\ UNCHANGED <<diskVars, rootVars, tokenVars, argVars, loopVars>>

-----------------------------------------------------------------------------
(* set_ref: stage the whole file, then rename it over the ref.             *)
SwapBegin(c, n, i) ==
  /\ Start(c, "swap", "created")
  /\ name' = [name EXCEPT ![c] = n]
  /\ id' = [id EXCEPT ![c] = i]
  /\ LeaseCreate(c, i)
  /\ UNCHANGED <<rootVars, written, loopVars, wipeVars>>

Stage(c) ==
  /\ Goto(c, "leased", "swap") /\ name[c] # None
  /\ staged' = staged \cup {tok[c]}
  /\ UNCHANGED <<leaseFile, holder, building, removed, content, tree, ref,
                 swept, rootVars, tokenVars, argVars, loopVars, wipeVars>>

SwapRename(c) ==
  /\ Goto(c, "swap", "unlease")
  /\ tok[c] \in staged
  /\ ref' = [ref EXCEPT ![name[c]] = tok[c]]
  /\ staged' = staged \ {tok[c]}
  /\ UNCHANGED <<leaseFile, holder, building, removed, content, tree, swept,
                 rootVars, tokenVars, argVars, loopVars, wipeVars>>

SwapLost(c) ==
  /\ Goto(c, "swap", "unlease")
  /\ tok[c] \notin staged
  /\ UNCHANGED <<diskVars, rootVars, tokenVars, argVars, loopVars, wipeVars>>

-----------------------------------------------------------------------------
(* unlink_scratch: the live name goes by one rename to a .removed- name,   *)
(* which is then deleted.  A name that is not there is no failure.         *)
RemoveTree_InPlace(c, i, next) ==
  \/ /\ tree[i] # 0
     /\ content' = [content EXCEPT ![tree[i]] = @ \ {Size}]
     /\ removed' = removed \cup {tree[i]}
     /\ Wipe(c, tree[i], next)
     /\ UNCHANGED tree
  \/ /\ tree[i] = 0
     /\ pc' = [pc EXCEPT ![c] = next]
     /\ UNCHANGED <<content, tree, removed, wipeVars>>
RemoveTree(c, i, next) ==
  \/ /\ tree[i] # 0
     /\ tree' = [tree EXCEPT ![i] = 0]
     /\ removed' = removed \cup {tree[i]}
     /\ Wipe(c, tree[i], next)
     /\ UNCHANGED content
  \/ /\ tree[i] = 0
     /\ pc' = [pc EXCEPT ![c] = next]
     /\ UNCHANGED <<content, tree, removed, wipeVars>>

RemoveRef(c, n, next) ==
  \/ /\ ref[n] # 0
     /\ ref' = [ref EXCEPT ![n] = 0]
     /\ removed' = removed \cup {ref[n]}
     /\ Wipe(c, ref[n], next)
  \/ /\ ref[n] = 0
     /\ pc' = [pc EXCEPT ![c] = next]
     /\ UNCHANGED <<ref, removed, wipeVars>>

Reads(n, i) == ref[n] # 0 /\ idOf[ref[n]] = i

(* delete_snapshot: the row, then the tree, then every ref read to name it.*)
DeleteRow(c, i) ==
  /\ Start(c, "delete", "delTree")
  /\ Transact /\ i \in rooted
  /\ rooted' = rooted \ {i}
  /\ id' = [id EXCEPT ![c] = i]
  /\ UNCHANGED <<diskVars, inserted, writer, tokenVars, name, tok, written,
                 loopVars, wipeVars>>

DeleteTree(c) ==
  /\ pc[c] = "delTree"
  /\ RemoveTree(c, id[c], "delList")
  /\ UNCHANGED <<leaseFile, holder, building, staged, ref, swept, rootVars,
                 tokenVars, argVars, loopVars>>

DeleteList(c) ==
  /\ Goto(c, "delList", "delRead")
  /\ todo' = [todo EXCEPT ![c] = {n \in Names : ref[n] # 0}]
  /\ UNCHANGED <<diskVars, rootVars, tokenVars, argVars, seen, hits, wipeVars>>

DeleteRead(c, n) ==
  /\ pc[c] = "delRead" /\ n \in todo[c]
  /\ todo' = [todo EXCEPT ![c] = @ \ {n}]
  /\ hits' = [hits EXCEPT ![c] = IF Reads(n, id[c]) THEN @ \cup {n} ELSE @]
  /\ UNCHANGED <<diskVars, rootVars, tokenVars, pc, argVars, seen, wipeVars>>

DeleteRefs(c) ==
  /\ Goto(c, "delRead", "delRefs") /\ todo[c] = {}
  /\ UNCHANGED <<diskVars, rootVars, tokenVars, argVars, loopVars, wipeVars>>

DeleteRef(c, n) ==
  /\ pc[c] = "delRefs" /\ n \in hits[c]
  /\ hits' = [hits EXCEPT ![c] = @ \ {n}]
  /\ RemoveRef(c, n, "delRefs")
  /\ UNCHANGED <<leaseFile, holder, building, staged, content, tree, swept,
                 rootVars, tokenVars, argVars, todo, seen>>

DeleteEnd(c) ==
  /\ pc[c] = "delRefs" /\ hits[c] = {}
  /\ Return(c)
  /\ UNCHANGED <<diskVars, rootVars, tokenVars>>

-----------------------------------------------------------------------------
(* scrub: trees and refs against the root set, in one write transaction.   *)
ScrubBegin_Unlocked(c) ==
  /\ Start(c, "scrub", "scrubTrees")
  /\ Transact
  /\ seen' = [seen EXCEPT ![c] = rooted]
  /\ todo' = [todo EXCEPT ![c] = {i \in Ids \ rooted : tree[i] # 0}]
  /\ UNCHANGED <<diskVars, rootVars, tokenVars, argVars, hits,
                 wipeVars>>
ScrubBegin(c) ==
  /\ Start(c, "scrub", "scrubTrees")
  /\ Transact
  /\ writer' = c
  /\ seen' = [seen EXCEPT ![c] = rooted]
  /\ todo' = [todo EXCEPT ![c] = {i \in Ids \ rooted : tree[i] # 0}]
  /\ UNCHANGED <<diskVars, rooted, inserted, tokenVars, argVars, hits,
                 wipeVars>>

ScrubTree(c, i) ==
  /\ pc[c] = "scrubTrees" /\ i \in todo[c]
  /\ todo' = [todo EXCEPT ![c] = @ \ {i}]
  /\ RemoveTree(c, i, "scrubTrees")
  /\ UNCHANGED <<leaseFile, holder, building, staged, ref, swept, rootVars,
                 tokenVars, argVars, seen, hits>>

ScrubRefs(c) ==
  /\ Goto(c, "scrubTrees", "scrubRefs") /\ todo[c] = {}
  /\ todo' = [todo EXCEPT ![c] = {n \in Names : ref[n] # 0}]
  /\ UNCHANGED <<diskVars, rootVars, tokenVars, argVars, seen, hits, wipeVars>>

Dangling(c, n) == ref[n] # 0 /\ idOf[ref[n]] \notin seen[c]

ScrubRead(c, n) ==
  /\ pc[c] = "scrubRefs" /\ n \in todo[c]
  /\ todo' = [todo EXCEPT ![c] = @ \ {n}]
  /\ hits' = [hits EXCEPT ![c] = IF Dangling(c, n) THEN {n} ELSE {}]
  /\ pc' = [pc EXCEPT ![c] =
               IF Dangling(c, n) THEN "dangling" ELSE "scrubRefs"]
  /\ UNCHANGED <<diskVars, rootVars, tokenVars, argVars, seen, wipeVars>>

ScrubRef(c, n) ==
  /\ pc[c] = "dangling" /\ n \in hits[c]
  /\ hits' = [hits EXCEPT ![c] = {}]
  /\ RemoveRef(c, n, "scrubRefs")
  /\ UNCHANGED <<leaseFile, holder, building, staged, content, tree, swept,
                 rootVars, tokenVars, argVars, todo, seen>>

ScrubCommit(c) ==
  /\ Goto(c, "scrubRefs", "reap") /\ todo[c] = {}
  /\ writer' = None
  /\ UNCHANGED <<diskVars, rooted, inserted, tokenVars, argVars, loopVars,
                 wipeVars>>

-----------------------------------------------------------------------------
(* reap_scratch, after the commit: .building- trees, .swap- files,         *)
(* .removed- names and, last, lease files.                                 *)
ReapList(c, from, to, found) ==
  /\ Goto(c, from, to) /\ todo[c] = {}
  /\ todo' = [todo EXCEPT ![c] = found]
  /\ UNCHANGED <<diskVars, rootVars, tokenVars, argVars, seen, hits, wipeVars>>

ReapTrees(c) == ReapList(c, "reap", "reapTrees", building)
ReapSwaps(c) == ReapList(c, "reapTrees", "reapSwaps", staged)
ReapRemoved(c) == ReapList(c, "reapSwaps", "reapRemoved", removed)
ReapLeases_Skipped(c) == ReapList(c, "reapRemoved", "reapLeases", {})
ReapLeases(c) == ReapList(c, "reapRemoved", "reapLeases", leaseFile)

\* lease_state opens the file and tries the lock ...
SampleFree(c, t) ==
  /\ pc[c] \in {"reapTrees", "reapSwaps", "reapLeases"} /\ t \in todo[c]
  /\ t \in leaseFile /\ holder[t] = None
  /\ holder' = [holder EXCEPT ![t] = c]
  /\ todo' = [todo EXCEPT ![c] = @ \ {t}]
  /\ victim' = [victim EXCEPT ![c] = t]
  /\ back' = [back EXCEPT ![c] = pc[c]]
  /\ pc' = [pc EXCEPT ![c] = "sampled"]
  /\ UNCHANGED <<leaseFile, building, staged, removed, content, tree, ref,
                 swept, rootVars, tokenVars, argVars, seen, hits>>

\* ... and lets go of it before the caller acts on the answer.
SampleDrop(c) ==
  /\ Goto(c, "sampled", "doomed")
  /\ Unlock(c)
  /\ UNCHANGED <<leaseFile, building, staged, removed, content, tree, ref,
                 swept, rootVars, tokenVars, argVars, loopVars, wipeVars>>

SampleAbsent(c, t) ==
  /\ pc[c] \in {"reapTrees", "reapSwaps", "reapLeases"} /\ t \in todo[c]
  /\ t \notin leaseFile
  /\ todo' = [todo EXCEPT ![c] = @ \ {t}]
  /\ victim' = [victim EXCEPT ![c] = t]
  /\ back' = [back EXCEPT ![c] = pc[c]]
  /\ pc' = [pc EXCEPT ![c] = "doomed"]
  /\ UNCHANGED <<diskVars, rootVars, tokenVars, argVars, seen, hits>>

SampleHeld_Ignored(c, t) ==
  /\ pc[c] \in {"reapTrees", "reapSwaps", "reapLeases"} /\ t \in todo[c]
  /\ t \in leaseFile /\ holder[t] # None
  /\ todo' = [todo EXCEPT ![c] = @ \ {t}]
  /\ victim' = [victim EXCEPT ![c] = t]
  /\ back' = [back EXCEPT ![c] = pc[c]]
  /\ pc' = [pc EXCEPT ![c] = "doomed"]
  /\ UNCHANGED <<diskVars, rootVars, tokenVars, argVars, seen, hits>>
SampleHeld(c, t) ==
  /\ pc[c] \in {"reapTrees", "reapSwaps", "reapLeases"} /\ t \in todo[c]
  /\ t \in leaseFile /\ holder[t] # None
  /\ todo' = [todo EXCEPT ![c] = @ \ {t}]
  /\ UNCHANGED <<diskVars, rootVars, tokenVars, pc, argVars, seen, hits,
                 wipeVars>>

ReapTree(c) ==
  /\ pc[c] = "doomed" /\ back[c] = "reapTrees"
  /\ Wipe(c, victim[c], "reapTrees")
  /\ UNCHANGED <<diskVars, rootVars, tokenVars, argVars, loopVars>>

ReapSwap(c) ==
  /\ pc[c] = "doomed" /\ back[c] = "reapSwaps"
  /\ staged' = staged \ {victim[c]}
  /\ WipeDone(c)
  /\ UNCHANGED <<leaseFile, holder, building, removed, content, tree, ref,
                 swept, rootVars, tokenVars, argVars, loopVars>>

ReapUnlinked(c, t) ==
  /\ pc[c] = "reapRemoved" /\ t \in todo[c]
  /\ todo' = [todo EXCEPT ![c] = @ \ {t}]
  /\ Wipe(c, t, "reapRemoved")
  /\ UNCHANGED <<diskVars, rootVars, tokenVars, argVars, seen, hits>>

\* Whose lease it was: a call that has yet to give it up.
Owned(t) ==
  \E c \in Clients : tok[c] = t /\ pc[c] # "unleased"

ReapLease(c) ==
  /\ pc[c] = "doomed" /\ back[c] = "reapLeases"
  /\ leaseFile' = leaseFile \ {victim[c]}
  /\ swept' = IF Owned(victim[c]) THEN swept \cup {victim[c]} ELSE swept
  /\ WipeDone(c)
  /\ UNCHANGED <<holder, building, staged, removed, content, tree, ref,
                 rootVars, tokenVars, argVars, loopVars>>

ReapEnd(c) ==
  /\ pc[c] = "reapLeases" /\ todo[c] = {}
  /\ Return(c)
  /\ UNCHANGED <<diskVars, rootVars, tokenVars>>

-----------------------------------------------------------------------------
(* A seal or an adoption inserts a root row (see RootsGc).                 *)
Root(i) ==
  /\ Transact /\ i \notin rooted /\ inserted < MaxRoots
  /\ rooted' = rooted \cup {i}
  /\ inserted' = inserted + 1
  /\ UNCHANGED <<diskVars, writer, tokenVars, pc, argVars, loopVars, wipeVars>>

\* The process dies: its locks and its transaction go, its files stay.
Die(c) ==
  /\ c \in Mortal /\ pc[c] # "idle"
  /\ Unlock(c)
  /\ writer' = IF writer = c THEN None ELSE writer
  /\ Return(c)
  /\ UNCHANGED <<leaseFile, building, staged, removed, content, tree, ref,
                 swept, rooted, inserted, tokenVars>>

WipeStep(c) ==
  WipeOpen(c) \/ (\E e \in Entries : WipeEntry(c, e)) \/ WipeRoot(c)
    \/ WipeFail(c)

Project(c) ==
  \/ \E i \in Ids : ProjectBegin(c, i)
  \/ ProjectExists(c) \/ ProjectLease(c) \/ MakeDirectory(c) \/ Fill(c)
  \/ FillFail(c) \/ Rename(c) \/ RenameLost(c) \/ Cleanup(c)

Swap(c) ==
  \/ \E n \in Names, i \in Ids : SwapBegin(c, n, i)
  \/ Stage(c) \/ SwapRename(c) \/ SwapLost(c)

Lease(c) ==
  LeaseLock(c) \/ LeaseRefused(c) \/ DropLease(c) \/ RemoveLease(c)

Delete(c) ==
  \/ \E i \in Ids : DeleteRow(c, i)
  \/ DeleteTree(c) \/ DeleteList(c) \/ DeleteRefs(c) \/ DeleteEnd(c)
  \/ \E n \in Names : DeleteRead(c, n) \/ DeleteRef(c, n)

Scrub(c) ==
  \/ ScrubBegin(c) \/ ScrubRefs(c) \/ ScrubCommit(c)
  \/ \E i \in Ids : ScrubTree(c, i)
  \/ \E n \in Names : ScrubRead(c, n) \/ ScrubRef(c, n)

Reap(c) ==
  \/ ReapTrees(c) \/ ReapSwaps(c) \/ ReapRemoved(c) \/ ReapLeases(c)
  \/ \E t \in Tokens :
       \/ SampleFree(c, t) \/ SampleAbsent(c, t) \/ SampleHeld(c, t)
       \/ ReapUnlinked(c, t)
  \/ SampleDrop(c) \/ ReapTree(c) \/ ReapSwap(c) \/ ReapLease(c) \/ ReapEnd(c)

Step(c) ==
  Project(c) \/ Swap(c) \/ Lease(c) \/ Delete(c) \/ Scrub(c) \/ Reap(c)
    \/ WipeStep(c)

Next ==
  \/ \E i \in Ids : Root(i)
  \/ \E c \in Clients : Step(c) \/ Die(c)

Spec == Init /\ [][Next]_vars

\* A running call goes on, and the consumer calls scrub again and again.
FairSpec ==
  /\ Spec
  /\ \A c \in Clients : WF_vars(pc[c] # "idle" /\ Step(c))
  /\ \A c \in Clients : WF_vars(ScrubBegin(c))

-----------------------------------------------------------------------------

Whole(t) == content[t] = Entries

(* A tree under its live name holds every entry of the manifest it is      *)
(* named after, however projections, removals, reaps and deaths interleave *)
(* - unless a reaper had swept the projector's own lease file              *)
(* (project's rename, unlink_scratch's claim).                             *)
LeasedTreesWhole ==
  \A i \in Ids : tree[i] # 0 /\ tree[i] \notin swept =>
    Whole(tree[i]) /\ idOf[tree[i]] = i

(* scrub: "what it must not do is remove a LIVE root's tree, and it        *)
(* cannot" - only a delete_snapshot of that very id still can.             *)
ScrubKeepsLiveTrees ==
  [][\A i \in rooted : tree[i] # 0 /\ tree'[i] = 0 =>
       \E c \in Clients : pc[c] = "delTree" /\ id[c] = i]_vars

(* reap_scratch never touches the scratch of a projection or a ref swap    *)
(* whose creator is alive, unless its lease file had been swept.           *)
LiveScratchKept ==
  [][\A c \in Clients :
       /\ pc[c] \in {"fill", "swap"} /\ pc'[c] = pc[c] /\ tok[c] \notin swept
       => /\ tok[c] \in building => tok[c] \in building'
          /\ tok[c] \in staged => tok[c] \in staged'
          /\ content[tok[c]] \subseteq content'[tok[c]]]_vars

(* What nobody stands for does not stay: what a dead or refused creator    *)
(* leaves behind, what a removal has unlinked, and a tree or a ref without *)
(* a root are taken by a later scrub.                                      *)
Ownerless(t) == \A c \in Clients : tok[c] # t
LeftoversGo ==
  /\ \A t \in Tokens :
       t \in building \cup staged \cup removed \cup leaseFile /\ Ownerless(t)
         ~> t \notin building \cup staged \cup removed \cup leaseFile
  /\ \A i \in Ids :
       tree[i] # 0 /\ i \notin rooted ~> tree[i] = 0 \/ i \in rooted
  /\ \A n \in Names : \A i \in Ids :
       Reads(n, i) /\ i \notin rooted ~> ~Reads(n, i) \/ i \in rooted

-----------------------------------------------------------------------------
(* The inductive invariant behind the safety properties (LayoutProofs).    *)

\* Where a call is in its loops, seen through a removal or a sample.
Sampling == {"sampled", "doomed"}
Loop(c) == IF pc[c] \in WipePcs \cup Sampling THEN back[c] ELSE pc[c]

\* A creator from its lease file to its rename.
Fresh(c) == pc[c] \in {"created", "leased"}
Working(c) == pc[c] \in {"created", "leased", "fill", "swap"}

(* Types of the directories and leases, and of the calls' locals.          *)
DiskTypes ==
  /\ issued \in 0..MaxTokens
  /\ leaseFile \subseteq 1..issued /\ building \subseteq 1..issued
  /\ staged \subseteq 1..issued /\ removed \subseteq 1..issued
  /\ holder \in [Tokens -> Clients \cup {None}]
  /\ content \in [Tokens -> SUBSET Entries]
  /\ idOf \in [Tokens -> Ids \cup {None}]
  /\ tree \in [Ids -> 0..issued] /\ ref \in [Names -> 0..issued]

LocalTypes ==
  /\ pc = [c \in Clients |-> pc[c]] /\ back = [c \in Clients |-> back[c]]
  /\ id \in [Clients -> Ids \cup {None}]
  /\ tok \in [Clients -> Nat] /\ victim \in [Clients -> Nat]
  /\ written \in [Clients -> Nat]
  /\ todo \in [Clients -> SUBSET (Ids \cup Names \cup Tokens)]

\* The write transaction belongs to the scrub that compares trees and refs
\* with the roots, so no row is inserted while it removes what had none.
ScrubOK(c) ==
  /\ Loop(c) \in {"scrubTrees", "scrubRefs", "dangling"} => writer = c
  /\ Loop(c) = "scrubTrees" => todo[c] \cap rooted = {}

\* A creator has a token of its own, and holds its lease from the lock to
\* the rename.
OwnTokens == \A b, c \in Clients : tok[b] = tok[c] /\ tok[b] # 0 => b = c
CallOK(c) ==
  /\ tok[c] \in 0..issued
  /\ Working(c) => tok[c] # 0 /\ idOf[tok[c]] = id[c]
  /\ Working(c) /\ tok[c] \notin swept => tok[c] \in leaseFile
  /\ Working(c) /\ pc[c] # "created" => holder[tok[c]] = c
  /\ Fresh(c) \/ pc[c] \in {"idle", "stat"} => written[c] = 0
  /\ pc[c] = "delTree" => id[c] \in Ids

\* An inode has at most one name: in scratch, staged, in place or removed.
Placed(t) == (\E i \in Ids : tree[i] = t) \/ (\E n \in Names : ref[n] = t)
PlaceInv ==
  /\ building \cap staged = {} /\ building \cap removed = {}
  /\ staged \cap removed = {}
  /\ \A t \in building \cup staged \cup removed : ~Placed(t)
  /\ \A i, j \in Ids : tree[i] = tree[j] /\ tree[i] # 0 => i = j
  /\ \A m, n \in Names : ref[m] = ref[n] /\ ref[m] # 0 => m = n
  /\ \A i \in Ids, n \in Names : tree[i] = ref[n] => tree[i] = 0
HomeOK(c) ==
  /\ Working(c) => tok[c] \notin removed /\ ~Placed(tok[c])
  /\ Fresh(c) \/ pc[c] = "swap" => tok[c] \notin building
  /\ Fresh(c) \/ pc[c] = "fill" => tok[c] \notin staged

\* What a reap has listed is past its creation; what it found removed is
\* past its creator.
TodoOK(b) ==
  /\ Loop(b) \in {"reapTrees", "reapSwaps", "reapRemoved", "reapLeases"}
       => todo[b] \subseteq 1..issued
  /\ Loop(b) \in {"reapTrees", "reapSwaps"} =>
       \A c \in Clients : Fresh(c) => tok[c] \notin todo[b]
  /\ Loop(b) = "reapRemoved" =>
       \A c \in Clients : Working(c) => tok[c] \notin todo[b]

\* Nobody removes the scratch of a live creator whose lease file is there;
\* nobody empties a tree in place.
VictimOK(b) ==
  /\ victim[b] \in 0..issued
  /\ pc[b] \notin WipePcs \cup Sampling => victim[b] = 0
  /\ pc[b] \in WipePcs => back[b] \in
       {"unlease", "delList", "delRefs", "scrubTrees", "scrubRefs",
        "reapTrees", "reapRemoved"}
  /\ pc[b] \in Sampling =>
       back[b] \in {"reapTrees", "reapSwaps", "reapLeases"}
  /\ \A c \in Clients :
       Working(c) /\ tok[c] \notin swept /\ victim[b] = tok[c] =>
         pc[b] \in Sampling /\ back[b] = "reapLeases"
  /\ pc[b] = "wiping" /\ victim[b] \notin swept =>
       \A i \in Ids : tree[i] # 0 => tree[i] # victim[b]

\* What a projector has written is there.
FillOK(c) ==
  /\ Fresh(c) => content[tok[c]] = {}
  /\ pc[c] = "fill" /\ tok[c] \notin swept =>
       tok[c] \in building /\ content[tok[c]] = 1..written[c]
Blank == \A t \in Tokens : t > issued => content[t] = {}

Calls(c) ==
  /\ ScrubOK(c) /\ CallOK(c) /\ HomeOK(c) /\ TodoOK(c) /\ VictimOK(c)
  /\ FillOK(c)

IndInv ==
  /\ DiskTypes /\ LocalTypes /\ rooted \subseteq Ids
  /\ OwnTokens /\ PlaceInv /\ Blank /\ LeasedTreesWhole
  /\ \A c \in Clients : Calls(c)
=============================================================================
