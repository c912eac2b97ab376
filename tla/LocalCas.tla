------------------------------ MODULE LocalCas ------------------------------
(***************************************************************************)
(* LocalCAS, the content store of the Python client, and project_snapshot, *)
(* which builds trees beside it.  Several processes share one root; they   *)
(* meet only in the file system and in flock: the store lock (shared by    *)
(* operations, exclusive for a collection), one lock per object, one per   *)
(* ref, and the lease a temporary's creator holds on it.                   *)
(*                                                                         *)
(* A content stands for its bytes, its size and its digest.  Torn is any   *)
(* file that is no declared content.  A flock is released by the end of    *)
(* its process, which Die models.                                          *)
(***************************************************************************)
EXTENDS Naturals

CONSTANTS Clients, Contents, Names, Trees, Entries,
          None, Torn,
          Resident,       \* the objects earlier processes installed
          Puttable,       \* the contents that callers put
          Menu,           \* the operations each client calls
          MaxCalls,       \* calls other than sweeps; each makes one temp
          MaxDeaths,
          MaxMishaps      \* objects gone bad and paths exchanged

ASSUME LocalAssumption ==
  /\ Resident \subseteq Contents /\ Puttable \subseteq Contents
  /\ None \notin Contents \cup Clients \cup {Torn}
  /\ MaxCalls \in Nat

VARIABLES tmp,       \* the names in tmp/, and of the file at each of them:
          bytes, lease, inode,  \* its bytes, its lease's holder, its identity
          objects,   \* what the file at a digest's path holds
          decayed,   \* history: digests whose object went bad on the medium
          retracted, \* history: digests at which an adoption put a file that
                     \* was not the one it verified, and unlinked it or died
          refs,      \* the target each logical ref's record names
          trees, building,  \* the entries of a tree; of a scratch directory
          storeLock, objectLock, refLock,
          pc, op,    \* where each client's call is, and what it is
          arg,       \* what it was called with
          temp,      \* the temp it works on
          seen,      \* the file it found at that name
          ok,        \* a put has its object installed
          filled,    \* the entries a projection has written
          listed,    \* the names a sweep has listed and not looked at
          budget     \* calls, deaths and mishaps so far

files == <<tmp, bytes, lease, inode>>
store == <<objects, decayed, retracted>>
dirs == <<trees, building>>
locks == <<storeLock, objectLock, refLock>>
called == <<op, arg>>
work == <<seen, ok, filled, listed>>
calls == <<pc, called, temp, work>>
vars == <<files, store, refs, dirs, locks, calls, budget>>

Temps == 1..MaxCalls
Bytes == Puttable \cup {Torn}
Absent == None

\* The operations that admit an object: put_bytes; open_writer and put_file;
\* adopt_file of a path open_temp gave.
Puts == {"bytes", "stream", "adopt"}

Init ==
  /\ tmp = {}
  /\ bytes = [t \in Temps |-> Torn] /\ lease = [t \in Temps |-> None]
  /\ inode = [t \in Temps |-> 0]
  /\ objects = [d \in Contents |-> IF d \in Resident THEN d ELSE Absent]
  /\ decayed = {} /\ retracted = {}
  /\ refs = [n \in Names |-> None]
  /\ trees = [r \in Trees |-> None] /\ building = [t \in Temps |-> None]
  /\ storeLock = [c \in Clients |-> "no"]
  /\ objectLock = [d \in Contents |-> None]
  /\ refLock = [n \in Names |-> None]
  /\ pc = [c \in Clients |-> "idle"] /\ op = [c \in Clients |-> "none"]
  /\ arg = [c \in Clients |-> None] /\ temp = [c \in Clients |-> 0]
  /\ seen = [c \in Clients |-> 0] /\ ok = [c \in Clients |-> FALSE]
  /\ filled = [c \in Clients |-> {}] /\ listed = [c \in Clients |-> {}]
  /\ budget = [calls |-> 0, deaths |-> 0, mishaps |-> 0]

-----------------------------------------------------------------------------
(* Moving a call on, the files in tmp/, and the locks.                     *)
At(c, p) == pc[c] = p
Move(c, p) == pc' = [pc EXCEPT ![c] = p]
Goto(c, p) == Move(c, p) /\ UNCHANGED <<called, temp, work>>
Finish(c) ==
  /\ Move(c, "idle")
  /\ op' = [op EXCEPT ![c] = "none"] /\ arg' = [arg EXCEPT ![c] = None]
  /\ temp' = [temp EXCEPT ![c] = 0] /\ seen' = [seen EXCEPT ![c] = 0]
  /\ ok' = [ok EXCEPT ![c] = FALSE]
  /\ filled' = [filled EXCEPT ![c] = {}]
  /\ listed' = [listed EXCEPT ![c] = {}]

\* A name removed, if it is there.
Remove(t) ==
  /\ tmp' = tmp \ {t}
  /\ bytes' = [bytes EXCEPT ![t] = Torn] /\ lease' = [lease EXCEPT ![t] = None]
  /\ inode' = [inode EXCEPT ![t] = 0]
Lease(t, c) ==
  /\ lease' = IF t \in tmp THEN [lease EXCEPT ![t] = c] ELSE lease
  /\ UNCHANGED <<tmp, bytes, inode>>

\* What a client held is free.
Without(held, c) ==
  [k \in DOMAIN held |-> IF held[k] = c THEN None ELSE held[k]]
Unlease(c) == lease' = Without(lease, c) /\ UNCHANGED <<tmp, bytes, inode>>

CanShare(c) == \A p \in Clients \ {c} : storeLock[p] # "exclusive"
CanExclude_Shared(c) == CanShare(c)
CanExclude(c) == \A p \in Clients \ {c} : storeLock[p] = "no"

Share(c) == /\ CanShare(c)
            /\ storeLock' = [storeLock EXCEPT ![c] = "shared"]
            /\ UNCHANGED <<objectLock, refLock>>
LockObject(c, d) == /\ objectLock[d] = None
                    /\ objectLock' = [objectLock EXCEPT ![d] = c]
                    /\ UNCHANGED <<storeLock, refLock>>
\* What a client's end, or the exits of its with-blocks, release.
Release(c) == /\ storeLock' = [storeLock EXCEPT ![c] = "no"]
              /\ objectLock' = Without(objectLock, c)
              /\ refLock' = Without(refLock, c)

\* A call's operation, first step and arguments.
Enter(c, name, first, args) ==
  /\ At(c, "idle") /\ name \in Menu[c]
  /\ Move(c, first)
  /\ op' = [op EXCEPT ![c] = name] /\ arg' = [arg EXCEPT ![c] = args]
  /\ UNCHANGED <<files, store, refs, dirs, locks, temp, seen, ok, filled>>
Begin(c, name, first, args) ==
  /\ Enter(c, name, first, args)
  /\ budget.calls < MaxCalls
  /\ budget' = [budget EXCEPT !.calls = @ + 1]
  /\ UNCHANGED listed

-----------------------------------------------------------------------------
(* verify_object and load_manifest, and the look put_bytes takes before it *)
(* writes anything.                                                        *)
VerifyBegin(c, d) == Begin(c, "verify", "peekStore", [digest |-> d])

PeekStore(c) ==
  /\ At(c, "peekStore") /\ Share(c)
  /\ Goto(c, "peekObject")
  /\ UNCHANGED <<files, store, refs, dirs, budget>>

PeekObject(c) ==
  /\ At(c, "peekObject") /\ LockObject(c, arg[c].digest)
  /\ Goto(c, "peek")
  /\ UNCHANGED <<files, store, refs, dirs, budget>>

\* _verify_object_unlocked: the object is there and hashes to its name.
Sound(d) == objects[d] = d

Peek(c) ==
  /\ At(c, "peek") /\ Release(c)
  /\ IF op[c] = "bytes" /\ ~Sound(arg[c].digest)
     THEN Goto(c, "makeTemp") ELSE Finish(c)
  /\ UNCHANGED <<files, store, refs, dirs, budget>>

-----------------------------------------------------------------------------
(* _leased_temp: created and leased while the store lock is shared; at the *)
(* end closed, which gives up the lease, and then unlinked, without it.    *)
\* mkstemp gives a name that nothing knows: no file, no scratch directory,
\* no call, no listing of a sweep; the least such name, for definiteness.
Known(t) == \/ t \in tmp \/ building[t] # None
            \/ \E c \in Clients : temp[c] = t \/ t \in listed[c]
Fresh(t) == ~Known(t) /\ \A u \in 1..(t - 1) : Known(u)

MakeTemp(c) ==
  /\ At(c, "makeTemp") /\ Share(c)
  /\ \E t \in Temps :
       /\ Fresh(t)
       /\ tmp' = tmp \cup {t}
       /\ temp' = [temp EXCEPT ![c] = t]
  /\ Move(c, "leaseTemp")
  /\ UNCHANGED <<bytes, lease, inode, store, refs, dirs, called, work,
                 budget>>

AfterLease(c) == IF op[c] \in Puts THEN "fill"
                 ELSE IF op[c] = "cas" THEN "replaceRef" ELSE "mkdir"

\* compare_and_swap_ref makes its temp inside its own store lock.
LeaseTemp(c) ==
  /\ At(c, "leaseTemp")
  /\ Lease(temp[c], c)
  /\ IF op[c] = "cas" THEN UNCHANGED locks ELSE Release(c)
  /\ Goto(c, AfterLease(c))
  /\ UNCHANGED <<store, refs, dirs, budget>>

CloseTemp(c) ==
  /\ At(c, "closeTemp")
  /\ Unlease(c) /\ Goto(c, "unlinkTemp")
  /\ UNCHANGED <<store, refs, dirs, locks, budget>>

\* A sweep may have been faster.  compare_and_swap_ref is still inside its
\* own locks here and leaves them with the call.
UnlinkTemp(c) ==
  /\ At(c, "unlinkTemp")
  /\ Remove(temp[c]) /\ Release(c) /\ Finish(c)
  /\ UNCHANGED <<store, refs, dirs, budget>>

-----------------------------------------------------------------------------
(* Admissions.  The bytes come from the caller and may be any.             *)
PutBegin(c, put, d) ==
  Begin(c, put, IF put = "bytes" THEN "peekStore" ELSE "makeTemp",
        [digest |-> d])

Fill(c) ==
  /\ At(c, "fill")
  /\ \E b \in IF op[c] = "bytes" THEN {arg[c].digest} ELSE Bytes :
       bytes' = IF temp[c] \in tmp THEN [bytes EXCEPT ![temp[c]] = b]
                                   ELSE bytes
  /\ Goto(c, "check")
  /\ UNCHANGED <<tmp, lease, inode, store, refs, dirs, locks, budget>>

\* What each of them compares before it commits.  adopt_file opens the path
\* it was given, so it hashes, and remembers, the file it finds there; a
\* caller's exception or a source that changed ends a stream whatever it was.
\* A file that is not what it should be is removed by adopt_file itself.
Matches(c) == temp[c] \in tmp /\ bytes[temp[c]] = arg[c].digest

Check(c) ==
  /\ At(c, "check")
  /\ \/ /\ Matches(c)
        /\ Move(c, "commitStore")
        /\ seen' = [seen EXCEPT ![c] = inode[temp[c]]]
        /\ UNCHANGED <<files, called, temp, ok, filled, listed>>
     \/ /\ (Matches(c) => op[c] = "stream") /\ Goto(c, "closeTemp")
        /\ IF op[c] = "adopt" THEN Remove(temp[c]) ELSE UNCHANGED files
  /\ UNCHANGED <<store, refs, dirs, locks, budget>>

(* _commit_temp, under the shared store lock and the object's lock.        *)
CommitStore(c) ==
  /\ At(c, "commitStore") /\ Share(c)
  /\ Goto(c, "commitObject")
  /\ UNCHANGED <<files, store, refs, dirs, budget>>

CommitObject(c) ==
  /\ At(c, "commitObject") /\ LockObject(c, arg[c].digest)
  /\ Goto(c, "identify")
  /\ UNCHANGED <<files, store, refs, dirs, budget>>

\* _require_identity of the temporary; only adopt_file passes one.
Same(c) == temp[c] \in tmp /\ inode[temp[c]] = seen[c]
Identified(c) == op[c] = "adopt" => Same(c)

Identify(c) ==
  /\ At(c, "identify")
  /\ Goto(c, IF Identified(c) THEN "link" ELSE "unlink")
  /\ UNCHANGED <<files, store, refs, dirs, locks, budget>>

\* The file the name leads to, installed; whether it is the verified one is
\* what adopt_file looks at next.
Install(c) ==
  /\ objects' = [objects EXCEPT ![arg[c].digest] = bytes[temp[c]]]
  /\ Move(c, IF op[c] = "adopt" THEN "recheck" ELSE "unlink")
  /\ ok' = [ok EXCEPT ![c] = Identified(c)]
  /\ UNCHANGED <<called, temp, seen, filled, listed>>

\* os.link finds the temp gone, or the destination taken, or installs.
Link(c) ==
  /\ At(c, "link")
  /\ IF temp[c] \notin tmp THEN Goto(c, "unlink") /\ UNCHANGED objects
     ELSE IF objects[arg[c].digest] # Absent
     THEN Goto(c, "rehash") /\ UNCHANGED objects
     ELSE Install(c)
  /\ UNCHANGED <<files, decayed, retracted, refs, dirs, locks, budget>>

\* The resident object is rehashed; only an unsound one is replaced.
Rehash(c) ==
  /\ At(c, "rehash")
  /\ IF Sound(arg[c].digest)
     THEN /\ Move(c, "unlink") /\ ok' = [ok EXCEPT ![c] = TRUE]
          /\ UNCHANGED <<called, temp, seen, filled, listed>>
     ELSE Goto(c, IF Identified(c) THEN "replace" ELSE "unlink")
  /\ UNCHANGED <<files, store, refs, dirs, locks, budget>>

Replace(c) ==
  /\ At(c, "replace")
  /\ IF temp[c] \in tmp THEN Install(c) /\ Remove(temp[c])
     ELSE Goto(c, "unlink") /\ UNCHANGED <<objects, files>>
  /\ UNCHANGED <<decayed, retracted, refs, dirs, locks, budget>>

Recheck_Trusting(c) ==
  /\ At(c, "recheck")
  /\ Goto(c, "unlink")
  /\ UNCHANGED <<files, store, refs, dirs, locks, budget>>
\* The destination is identified again: ok says it is the verified file.
Recheck(c) ==
  /\ At(c, "recheck")
  /\ IF ok[c]
     THEN UNCHANGED <<objects, retracted>>
     ELSE /\ objects' = [objects EXCEPT ![arg[c].digest] = Absent]
          /\ retracted' = retracted \cup {arg[c].digest}
  /\ Goto(c, "unlink")
  /\ UNCHANGED <<files, decayed, refs, dirs, locks, budget>>

\* The temp goes in every case, and with it the locks.
Unlink(c) ==
  /\ At(c, "unlink")
  /\ Remove(temp[c]) /\ Release(c)
  /\ Goto(c, "closeTemp")
  /\ UNCHANGED <<store, refs, dirs, budget>>

-----------------------------------------------------------------------------
(* compare_and_swap_ref and read_ref.                                      *)
CasBegin(c, n, target, expected) ==
  Begin(c, "cas", "casStore",
        [name |-> n, target |-> target, expected |-> expected])

\* contains looks without the object's lock; nothing is said of the bytes.
Contains(d) == objects[d] # Absent

CasStore(c) ==
  /\ At(c, "casStore") /\ CanShare(c)
  /\ IF arg[c].target = None \/ Contains(arg[c].target)
     THEN Share(c) /\ Goto(c, "casRef")
     ELSE UNCHANGED locks /\ Finish(c)
  /\ UNCHANGED <<files, store, refs, dirs, budget>>

CasRef_Unlocked(c) ==
  /\ At(c, "casRef")
  /\ Goto(c, "casRead")
  /\ UNCHANGED <<files, store, refs, dirs, locks, budget>>
CasRef(c) ==
  /\ At(c, "casRef") /\ refLock[arg[c].name] = None
  /\ refLock' = [refLock EXCEPT ![arg[c].name] = c]
  /\ Goto(c, "casRead")
  /\ UNCHANGED <<files, store, refs, dirs, storeLock, objectLock, budget>>

\* A ref that already is the target needs nothing; one that is not what the
\* caller observed is a conflict.
CasRead(c) ==
  LET current == refs[arg[c].name] IN
  /\ At(c, "casRead")
  /\ IF current = arg[c].target \/ current # arg[c].expected
     THEN Release(c) /\ Finish(c)
     ELSE /\ Goto(c, IF arg[c].target = None THEN "unlinkRef"
                                             ELSE "makeTemp")
          /\ UNCHANGED locks
  /\ UNCHANGED <<files, store, refs, dirs, budget>>

UnlinkRef(c) ==
  /\ At(c, "unlinkRef")
  /\ refs' = [refs EXCEPT ![arg[c].name] = None]
  /\ Release(c) /\ Finish(c)
  /\ UNCHANGED <<files, store, dirs, budget>>

\* The record is written to the leased temp and renamed over the old one.
ReplaceRef(c) ==
  /\ At(c, "replaceRef")
  /\ IF temp[c] \in tmp
     THEN /\ refs' = [refs EXCEPT ![arg[c].name] = arg[c].target]
          /\ Remove(temp[c])
     ELSE UNCHANGED <<refs, files>>
  /\ Goto(c, "closeTemp")
  /\ UNCHANGED <<store, dirs, locks, budget>>

\* read_ref takes no ref lock: exists and read_bytes are two looks, and a
\* ref unlinked between them makes the second one raise.
ReadBegin(c, n) == Begin(c, "read", "readStore", [name |-> n])

ReadStore(c) ==
  /\ At(c, "readStore") /\ Share(c)
  /\ Goto(c, "readExists")
  /\ UNCHANGED <<files, store, refs, dirs, budget>>

ReadExists(c) ==
  /\ At(c, "readExists")
  /\ IF refs[arg[c].name] = None
     THEN Release(c) /\ Finish(c)
     ELSE UNCHANGED locks /\ Goto(c, "readBytes")
  /\ UNCHANGED <<files, store, refs, dirs, budget>>

ReadBytes(c) ==
  /\ At(c, "readBytes")
  /\ Release(c) /\ Finish(c)
  /\ UNCHANGED <<files, store, refs, dirs, budget>>

-----------------------------------------------------------------------------
(* project_snapshot: a scratch directory named by a leased token, filled   *)
(* and renamed; the loser of a race removes its own.                       *)
ProjectBegin(c, r) == Begin(c, "project", "exists", [tree |-> r])

Exists(c) ==
  /\ At(c, "exists")
  /\ IF trees[arg[c].tree] # None THEN Finish(c) ELSE Goto(c, "makeTemp")
  /\ UNCHANGED <<files, store, refs, dirs, locks, budget>>

Mkdir(c) ==
  /\ At(c, "mkdir")
  /\ building' = [building EXCEPT ![temp[c]] = {}]
  /\ Goto(c, "fillTree")
  /\ UNCHANGED <<files, store, refs, trees, locks, budget>>

\* An entry is written, or fails: its object is absent, the directory gone.
FillEntry(c) ==
  /\ building[temp[c]] # None
  /\ \E e \in Entries \ filled[c] :
       /\ building' = [building EXCEPT ![temp[c]] = @ \cup {e}]
       /\ filled' = [filled EXCEPT ![c] = @ \cup {e}]
  /\ UNCHANGED <<pc, called, temp, seen, ok, listed>>
FillTree(c) ==
  /\ At(c, "fillTree")
  /\ \/ FillEntry(c)
     \/ /\ Goto(c, IF filled[c] = Entries THEN "rename" ELSE "rmtree")
        /\ UNCHANGED building
  /\ UNCHANGED <<files, store, refs, trees, locks, budget>>

\* A directory is not renamed over a tree.
Rename(c) ==
  LET t == temp[c]  r == arg[c].tree IN
  /\ At(c, "rename")
  /\ IF building[t] # None /\ trees[r] = None
     THEN /\ trees' = [trees EXCEPT ![r] = building[t]]
          /\ building' = [building EXCEPT ![t] = None]
          /\ Goto(c, "closeTemp")
     ELSE Goto(c, "rmtree") /\ UNCHANGED dirs
  /\ UNCHANGED <<files, store, refs, locks, budget>>

Rmtree(c) ==
  /\ At(c, "rmtree")
  /\ building' = [building EXCEPT ![temp[c]] = None]
  /\ Goto(c, "closeTemp")
  /\ UNCHANGED <<files, store, refs, trees, locks, budget>>

-----------------------------------------------------------------------------
(* collect_abandoned_temps: a listing under the exclusive store lock, each *)
(* file identified, leased and unlinked.                                   *)
CollectBegin(c) ==
  /\ Enter(c, "collect", "collectStore", None)
  /\ UNCHANGED <<listed, budget>>

CollectStore(c) ==
  /\ At(c, "collectStore") /\ CanExclude(c)
  /\ storeLock' = [storeLock EXCEPT ![c] = "exclusive"]
  /\ Move(c, "collect")
  /\ listed' = [listed EXCEPT ![c] = tmp]
  /\ UNCHANGED <<files, store, refs, dirs, objectLock, refLock, called, temp,
                 seen, ok, filled, budget>>

\* An entry's stat; one that is gone is passed over.
Collect(c) ==
  /\ At(c, "collect")
  /\ \E t \in listed[c] :
       /\ listed' = [listed EXCEPT ![c] = @ \ {t}]
       /\ IF t \in tmp
          THEN /\ Move(c, "reclaimLease")
               /\ temp' = [temp EXCEPT ![c] = t]
               /\ seen' = [seen EXCEPT ![c] = inode[t]]
          ELSE UNCHANGED <<pc, temp, seen>>
  /\ UNCHANGED <<files, store, refs, dirs, locks, called, ok, filled, budget>>

\* _reclaim_temp: the file is identified, and its lease is tried once and
\* never waited for.
NextTemp(c, p) ==
  /\ Move(c, p)
  /\ temp' = [temp EXCEPT ![c] = 0] /\ seen' = [seen EXCEPT ![c] = 0]
  /\ UNCHANGED <<called, ok, filled, listed>>
ReclaimLease(c) ==
  /\ At(c, "reclaimLease")
  /\ IF Same(c) /\ lease[temp[c]] = None
     THEN Lease(temp[c], c) /\ Goto(c, "reclaim")
     ELSE UNCHANGED files /\ NextTemp(c, "collect")
  /\ UNCHANGED <<store, refs, dirs, locks, budget>>

Reclaim(c) ==
  /\ At(c, "reclaim")
  /\ Remove(temp[c]) /\ NextTemp(c, "collect")
  /\ UNCHANGED <<store, refs, dirs, locks, budget>>

CollectEnd(c) ==
  /\ At(c, "collect") /\ listed[c] = {}
  /\ Release(c) /\ Finish(c)
  /\ UNCHANGED <<files, store, refs, dirs, budget>>

(* reap_projection_scratch: no store lock; a scratch goes when the lease   *)
(* that names it is free or no longer there.                               *)
ReapBegin(c) ==
  /\ Enter(c, "reap", "reap", None)
  /\ listed' = [listed EXCEPT ![c] = {t \in Temps : building[t] # None}]
  /\ UNCHANGED budget

LeaseIsFree_There(t) == t \in tmp /\ lease[t] = None
\* _lease_is_free, its lock taken and dropped.
LeaseIsFree(t) == t \in tmp => lease[t] = None

Reap(c) ==
  /\ At(c, "reap")
  /\ \E t \in listed[c] :
       /\ listed' = [listed EXCEPT ![c] = @ \ {t}]
       /\ IF LeaseIsFree(t)
          THEN /\ Lease(t, c) /\ Move(c, "reapUnlock")
               /\ temp' = [temp EXCEPT ![c] = t]
          ELSE UNCHANGED <<files, pc, temp>>
  /\ UNCHANGED <<store, refs, dirs, locks, called, seen, ok, filled, budget>>

ReapUnlock(c) ==
  /\ At(c, "reapUnlock")
  /\ Unlease(c) /\ Goto(c, "reapEmpty")
  /\ UNCHANGED <<store, refs, dirs, locks, budget>>

\* rmtree removes the entries and then the directory.
ReapEmpty(c) ==
  /\ At(c, "reapEmpty")
  /\ building' = [building EXCEPT ![temp[c]] = IF @ = None THEN None ELSE {}]
  /\ Goto(c, "reapRmdir")
  /\ UNCHANGED <<files, store, refs, trees, locks, budget>>

ReapRmdir(c) ==
  /\ At(c, "reapRmdir")
  /\ building' = [building EXCEPT ![temp[c]] = IF @ = {} THEN None ELSE @]
  /\ NextTemp(c, "reap")
  /\ UNCHANGED <<files, store, refs, trees, locks, budget>>

ReapEnd(c) ==
  /\ At(c, "reap") /\ listed[c] = {}
  /\ Finish(c)
  /\ UNCHANGED <<files, store, refs, dirs, locks, budget>>

-----------------------------------------------------------------------------
(* What happens to the processes and the files from outside.               *)
Die(c) ==
  /\ ~At(c, "idle") /\ budget.deaths < MaxDeaths
  /\ retracted' = IF At(c, "recheck") /\ ~ok[c]
                  THEN retracted \cup {arg[c].digest} ELSE retracted
  /\ Unlease(c) /\ Release(c) /\ Finish(c)
  /\ budget' = [budget EXCEPT !.deaths = @ + 1]
  /\ UNCHANGED <<objects, decayed, refs, dirs>>

\* An object's bytes go bad in place.
Decay(d) ==
  /\ objects[d] # Absent /\ budget.mishaps < MaxMishaps
  /\ objects' = [objects EXCEPT ![d] = Torn]
  /\ decayed' = decayed \cup {d}
  /\ budget' = [budget EXCEPT !.mishaps = @ + 1]
  /\ UNCHANGED <<files, retracted, refs, dirs, locks, calls>>

\* The path open_temp gave out is made to lead to another, unleased file.
Swap(c) ==
  LET t == temp[c] IN
  /\ op[c] = "adopt" /\ pc[c] \notin {"leaseTemp", "unlinkTemp"} /\ t \in tmp
  /\ budget.mishaps < MaxMishaps
  /\ \E b \in Bytes : bytes' = [bytes EXCEPT ![t] = b]
  /\ lease' = [lease EXCEPT ![t] = None]
  /\ inode' = [inode EXCEPT ![t] = @ + 1]
  /\ budget' = [budget EXCEPT !.mishaps = @ + 1]
  /\ UNCHANGED <<tmp, store, refs, dirs, locks, calls>>

\* A projected tree is thrown away by whoever it belongs to.
Discard(r) ==
  /\ trees[r] # None
  /\ trees' = [trees EXCEPT ![r] = None]
  /\ UNCHANGED <<files, store, refs, building, locks, calls, budget>>

-----------------------------------------------------------------------------
Targets == Contents \cup {None}

Call(c) ==
  \/ \E d \in Puttable : VerifyBegin(c, d)
  \/ \E put \in Puts, d \in Puttable : PutBegin(c, put, d)
  \/ \E n \in Names, target, expected \in Targets :
       CasBegin(c, n, target, expected)
  \/ \E n \in Names : ReadBegin(c, n)
  \/ \E r \in Trees : ProjectBegin(c, r)
  \/ CollectBegin(c) \/ ReapBegin(c)

Step(c) ==
  \/ PeekStore(c) \/ PeekObject(c) \/ Peek(c)
  \/ MakeTemp(c) \/ LeaseTemp(c) \/ CloseTemp(c) \/ UnlinkTemp(c)
  \/ Fill(c) \/ Check(c) \/ CommitStore(c) \/ CommitObject(c)
  \/ Identify(c) \/ Link(c) \/ Rehash(c) \/ Replace(c) \/ Recheck(c)
  \/ Unlink(c)
  \/ CasStore(c) \/ CasRef(c) \/ CasRead(c) \/ UnlinkRef(c) \/ ReplaceRef(c)
  \/ ReadStore(c) \/ ReadExists(c) \/ ReadBytes(c)
  \/ Exists(c) \/ Mkdir(c) \/ FillTree(c) \/ Rename(c) \/ Rmtree(c)
  \/ CollectStore(c) \/ Collect(c) \/ ReclaimLease(c) \/ Reclaim(c)
  \/ CollectEnd(c)
  \/ Reap(c) \/ ReapUnlock(c) \/ ReapEmpty(c) \/ ReapRmdir(c) \/ ReapEnd(c)

Next ==
  \/ \E c \in Clients : Call(c) \/ Step(c) \/ Die(c) \/ Swap(c)
  \/ \E d \in Puttable : Decay(d)
  \/ \E r \in Trees : Discard(r)

Spec == Init /\ [][Next]_vars

\* A process that is not blocked on a lock runs.
FairSpec == Spec /\ \A c \in Clients : WF_vars(Step(c))

-----------------------------------------------------------------------------
(* The properties.                                                         *)
Makers == Puts \cup {"cas", "project"}
Creators == {c \in Clients : op[c] \in Makers}

(* What a digest names hashes to it, unless the medium changed it or an    *)
(* adoption has yet to notice that the path it verified was exchanged      *)
(* ("Objects are installed without overwrite"); and a put that reports     *)
(* success has its object in the store (_commit_temp).                     *)
Unnoticed(c) == At(c, "recheck") /\ ~ok[c]
ObjectsAreSound ==
  /\ \A d \in Contents :
       \/ objects[d] \in {Absent, d} \/ d \in decayed \cup retracted
       \/ \E c \in Clients : Unnoticed(c) /\ arg[c].digest = d
  /\ \A c \in Clients :
       At(c, "unlinkTemp") /\ op[c] \in Puts /\ ok[c] =>
         Sound(arg[c].digest) \/ arg[c].digest \in decayed \cup retracted

(* compare_and_swap_ref: a ref only ever moves from the value its caller   *)
(* expected to the target they named, which is resident, however many      *)
(* processes swap the same name - no update is lost.                       *)
SwapsAreAtomic ==
  [][\A n \in Names : refs'[n] # refs[n] =>
       /\ \E c \in Clients : /\ op[c] = "cas" /\ arg[c].name = n
                             /\ arg[c].expected = refs[n]
                             /\ arg[c].target = refs'[n]
       /\ refs'[n] = None \/ Contains(refs'[n]) \/ refs'[n] \in retracted]_vars

(* collect_abandoned_temps and reap_projection_scratch never take a temp   *)
(* or a scratch directory whose creator is alive, from its making to the   *)
(* moment the creator closes it: "stays leased until it is installed or    *)
(* removed", "a projection still running is never touched".  Between the   *)
(* close and the unlink a collection may take what the creator is about to *)
(* remove itself.                                                          *)
Rests(c) == pc'[c] = pc[c] /\ filled'[c] = filled[c]
LiveTempsKept ==
  [][\A c \in Creators :
       temp[c] # 0 /\ ~At(c, "unlinkTemp") /\ Rests(c) =>
       /\ temp[c] \in tmp => temp[c] \in tmp' \/ inode[temp[c]] # 0
       /\ building'[temp[c]] = building[temp[c]]]_vars

(* Where collections and reaps go on, what a dead creator left in tmp/ or  *)
(* beside a tree is reclaimed.                                             *)
Abandoned(t) == /\ t \in tmp \/ building[t] # None
                /\ \A c \in Creators : temp[c] # t
LeftoversReclaimed ==
  /\ []<>(\E c \in Clients : storeLock[c] = "exclusive")
  /\ []<>(\E c \in Clients : At(c, "reap"))
  => \A t \in Temps : Abandoned(t) ~> t \notin tmp /\ building[t] = None

-----------------------------------------------------------------------------
(* The inductive invariant behind the safety properties (LocalCasProofs).  *)

\* Where a call has a temp of its own, where it only has the name of one (a
\* sweep's, or its own once it has closed it), where it is the one that made
\* it, and where a put has verified what it is about to install.
PutPcs == {"fill", "check", "commitStore", "commitObject", "identify", "link",
           "rehash", "replace", "recheck", "unlink"}
ProjectPcs == {"mkdir", "fillTree", "rename", "rmtree"}
Live(c) == pc[c] \in PutPcs \cup ProjectPcs
                       \cup {"leaseTemp", "replaceRef", "closeTemp"}
Taking(c) == pc[c] \in {"reclaimLease", "reclaim", "reapUnlock", "reapEmpty",
                        "reapRmdir", "unlinkTemp"}
Holds(c) == Live(c) \/ At(c, "unlinkTemp")
Verified(c) == pc[c] \in {"commitStore", "commitObject", "identify", "link",
                          "rehash", "replace"}
Committing(c) == pc[c] \in {"identify", "link", "rehash", "replace",
                            "recheck", "unlink"}

FileTypes ==
  /\ tmp \subseteq Temps /\ bytes \in [Temps -> Contents \cup {Torn}]
  /\ lease = [t \in Temps |-> lease[t]] /\ inode \in [Temps -> Nat]
  /\ building = [t \in Temps |-> building[t]]
  /\ \A t \in Temps \ tmp : lease[t] = None /\ inode[t] = 0
StoreTypes == /\ objects = [d \in Contents |-> objects[d]]
              /\ refs = [n \in Names |-> refs[n]]
LockTypes == /\ storeLock = [c \in Clients |-> storeLock[c]]
             /\ objectLock = [d \in Contents |-> objectLock[d]]
             /\ refLock = [n \in Names |-> refLock[n]]
CallTypes ==
  /\ pc = [c \in Clients |-> pc[c]] /\ op = [c \in Clients |-> op[c]]
  /\ arg = [c \in Clients |-> arg[c]] /\ temp \in [Clients -> Nat]
  /\ seen \in [Clients -> Nat] /\ ok \in [Clients -> BOOLEAN]
  /\ listed \in [Clients -> SUBSET Temps]
  /\ filled = [c \in Clients |-> filled[c]]
Types == FileTypes /\ StoreTypes /\ LockTypes /\ CallTypes

\* Which operation is where, and with which arguments.
Shape(c) ==
  /\ pc[c] \in PutPcs => op[c] \in Puts
  /\ pc[c] \in ProjectPcs \cup {"exists"} => op[c] = "project"
  /\ pc[c] \in {"casStore", "casRef", "casRead", "unlinkRef", "replaceRef"}
       => op[c] = "cas"
  /\ pc[c] \in {"makeTemp", "leaseTemp", "closeTemp", "unlinkTemp"}
       => op[c] \in Makers
  /\ pc[c] \in {"peekStore", "peekObject", "peek"}
       => op[c] \in {"verify", "bytes"}
  /\ pc[c] \in {"readStore", "readExists", "readBytes"} => op[c] = "read"
  /\ pc[c] \in {"collectStore", "collect", "reclaimLease", "reclaim"}
       => op[c] = "collect"
  /\ pc[c] \in {"reap", "reapUnlock", "reapEmpty", "reapRmdir"}
       => op[c] = "reap"
  /\ op[c] \in Puts \cup {"verify"} => arg[c].digest \in Contents
  /\ op[c] = "cas" => arg[c].name \in Names /\ arg[c].target \in Targets
  /\ IF Live(c) \/ Taking(c) THEN temp[c] \in Temps ELSE temp[c] = 0

\* The collector's lock excludes every other, and the making of a temp.
StoreInv == \A b, c \in Clients :
              storeLock[b] = "exclusive" /\ b # c => storeLock[c] = "no"
LocksOK(c) ==
  /\ pc[c] \in {"collect", "reclaimLease", "reclaim"}
       => storeLock[c] = "exclusive"
  /\ pc[c] = "leaseTemp" => storeLock[c] = "shared"
  /\ Committing(c) => objectLock[arg[c].digest] = c

\* A creator holds the lease of its temp, unless an adopted path leads
\* elsewhere; only a projection has a scratch directory.
TempOK(c) ==
  /\ pc[c] = "leaseTemp" => /\ temp[c] \in tmp /\ lease[temp[c]] = None
                            /\ inode[temp[c]] = 0
  /\ Live(c) /\ temp[c] \in tmp =>
       /\ op[c] = "adopt" \/ inode[temp[c]] = 0
       /\ pc[c] = "leaseTemp" \/ inode[temp[c]] # 0 \/ lease[temp[c]] = c
  /\ Live(c) /\ op[c] = "project" => temp[c] \in tmp
  /\ Live(c) /\ (op[c] # "project" \/ pc[c] \in {"leaseTemp", "mkdir"})
       => building[temp[c]] = None

\* Nobody else has it: not another creator, not a reap, and a collector only
\* where the path leads elsewhere.  A reap has listed only scratch.
Apart(b, c) ==
  Live(c) =>
    /\ Holds(b) /\ b # c => temp[b] # temp[c]
    /\ op[b] = "reap" =>
         /\ temp[b] # temp[c]
         /\ op[c] # "project" \/ pc[c] = "leaseTemp"
              => temp[c] \notin listed[b]
    /\ pc[b] = "reclaim" /\ temp[b] = temp[c] /\ temp[c] \in tmp
         => inode[temp[c]] # 0

\* What is verified and still the same file has the bytes it was verified as.
BytesOK(c) ==
  Verified(c) /\ temp[c] \in tmp =>
    /\ op[c] # "adopt" \/ inode[temp[c]] = seen[c]
         => bytes[temp[c]] = arg[c].digest
    /\ op[c] = "adopt" => seen[c] <= inode[temp[c]]

Lost == decayed \cup retracted
StoreOK(c) ==
  /\ ok[c] => /\ op[c] \in Puts
              /\ pc[c] \in {"recheck", "unlink", "closeTemp", "unlinkTemp"}
              /\ Sound(arg[c].digest) \/ arg[c].digest \in Lost
  /\ pc[c] = "replace" => ~Sound(arg[c].digest) \/ arg[c].digest \in Lost

\* A swap between its look and its write owns the ref it looked at.
Swapping(c) == op[c] = "cas" /\ pc[c] \in {"unlinkRef", "makeTemp",
                                           "leaseTemp", "replaceRef"}
RefOK(c) ==
  /\ Swapping(c) \/ pc[c] = "casRead" => refLock[arg[c].name] = c
  /\ Swapping(c) => refs[arg[c].name] = arg[c].expected
  /\ Swapping(c) \/ pc[c] \in {"casRef", "casRead"} =>
       \/ arg[c].target = None \/ Contains(arg[c].target)
       \/ arg[c].target \in retracted
  /\ pc[c] = "unlinkRef" => arg[c].target = None

OwnOK(c) ==
  /\ Shape(c) /\ LocksOK(c) /\ TempOK(c) /\ BytesOK(c) /\ StoreOK(c)
  /\ RefOK(c)

IndInv ==
  /\ Types /\ StoreInv /\ ObjectsAreSound
  /\ \A c \in Clients : OwnOK(c)
  /\ \A b, c \in Clients : Apart(b, c)
=============================================================================
