---------------------------- MODULE ObjectStore ----------------------------
(***************************************************************************)
(* The admission protocol of store.rs: leased temps, no-clobber install,   *)
(* rehash of a resident object, removal by the collector of objects, and   *)
(* the age-bounded collector of abandoned temps.                           *)
(*                                                                         *)
(* Every writer is a thread of its own process.  Bytes are named by their  *)
(* digest.  Temps are inodes numbered in creation order; a temp name       *)
(* (pid, sequence, clock) is never used twice, so the number is the name   *)
(* too.  `object' is what the running system sees at a digest path, `disk' *)
(* what is sure to be found there after a power loss.                      *)
(*                                                                         *)
(* An operator Name_Variant holds the mistake a mutant run puts in place   *)
(* of Name.                                                                *)
(***************************************************************************)
EXTENDS Naturals

CONSTANTS
  Writers,   \* admissions that may run at once
  Digests,   \* the byte strings admitted, named by digest
  Claims,    \* what a caller may say to expect, None for nothing
  MaxTemps,  \* bound on admissions
  Faults,    \* which of the environment's steps may happen
  None, Collector

FaultKinds ==
  {"kill", "killCollectors", "power", "decay", "remove", "reap"}

ASSUME StoreAssumption ==
  /\ Faults \subseteq FaultKinds
  /\ Claims \subseteq Digests \cup {None}
  /\ MaxTemps \in Nat
  /\ None \notin Digests /\ None \notin Writers
  /\ Collector \notin Writers /\ Collector # None

Temps == 1..MaxTemps

VARIABLES
  made,        \* temps created so far
  named,       \* temps whose name still exists under tmp/
  holder,      \* holder[t]: who holds the advisory lease on t
  old,         \* temps last modified before the collector's cutoff
  bytes,       \* bytes[t]: the digest of t's bytes, None while incomplete
  synced,      \* temps whose bytes were fsynced
  rotten,      \* inodes whose bytes decayed on the medium
  object,      \* object[d]: the inode linked at d's path, 0 for none
  disk,        \* disk[d]: the inode there on stable storage
  pc, temp, src, want, opened,  \* the writers' locals
  overlapped,  \* history: d was removed since w linked or opened it
  acked,       \* history: acknowledged and not removed since
  sealed,      \* history: acknowledged as freshly installed, likewise
  kpc, kTemp, kBytes,           \* the temp collector's locals
  gpc, gDigest                  \* remove_object's locals

tempVars == <<made, named, holder, old, bytes, synced>>
objectVars == <<object, disk, rotten>>
callVars == <<pc, temp, src, want, opened, overlapped>>
ackVars == <<acked, sealed>>
reapVars == <<kpc, kTemp, kBytes>>
gcVars == <<gpc, gDigest>>
vars == <<tempVars, objectVars, callVars, ackVars, reapVars, gcVars>>

WriterPcs == {"idle", "created", "writing", "written", "synced", "linked",
              "sealed", "exists", "hashing"}

Init ==
  /\ made = 0 /\ named = {} /\ old = {} /\ synced = {} /\ rotten = {}
  /\ holder = [t \in Temps |-> None]
  /\ bytes = [t \in Temps |-> None]
  /\ object = [d \in Digests |-> 0]
  /\ disk = [d \in Digests |-> 0]
  /\ pc = [w \in Writers |-> "idle"]
  /\ temp = [w \in Writers |-> 0]
  /\ src = [w \in Writers |-> None]
  /\ want = [w \in Writers |-> None]
  /\ opened = [w \in Writers |-> 0]
  /\ overlapped = [w \in Writers |-> FALSE]
  /\ acked = {} /\ sealed = {}
  /\ kpc = "idle" /\ kTemp = 0 /\ kBytes = None
  /\ gpc = "idle" /\ gDigest = None

Goto(w, from, to) ==
  /\ pc[w] = from
  /\ pc' = [pc EXCEPT ![w] = to]

\* The call is over and its locals are gone.
Return(w) ==
  /\ pc' = [pc EXCEPT ![w] = "idle"]
  /\ temp' = [temp EXCEPT ![w] = 0]
  /\ src' = [src EXCEPT ![w] = None]
  /\ want' = [want EXCEPT ![w] = None]
  /\ opened' = [opened EXCEPT ![w] = 0]
  /\ overlapped' = [overlapped EXCEPT ![w] = FALSE]

\* Closing the file gives up the lease, if this writer had it.
Unlock(w) ==
  holder' = [t \in Temps |-> IF holder[t] = w THEN None ELSE holder[t]]

-----------------------------------------------------------------------------
(* The writer: create_new, then the lease in a second call.  d is what the *)
(* source delivers, e what finish_expecting was told to expect.            *)
Create(w, d, e) ==
  /\ Goto(w, "idle", "created")
  /\ made < MaxTemps
  /\ made' = made + 1
  /\ named' = named \cup {made'}
  /\ temp' = [temp EXCEPT ![w] = made']
  /\ src' = [src EXCEPT ![w] = d]
  /\ want' = [want EXCEPT ![w] = e]
  /\ UNCHANGED <<holder, old, bytes, synced, objectVars, opened, overlapped,
                 ackVars, reapVars, gcVars>>

Lock(w) ==
  /\ Goto(w, "created", "writing")
  /\ holder[temp[w]] = None
  /\ holder' = [holder EXCEPT ![temp[w]] = w]
  /\ UNCHANGED <<made, named, old, bytes, synced, objectVars, temp, src, want,
                 opened, overlapped, ackVars, reapVars, gcVars>>

\* The temp collector has the lease: an error with no ObjectWriter to drop,
\* so the temp stays.
LockRefused(w) ==
  /\ pc[w] = "created"
  /\ holder[temp[w]] # None
  /\ Return(w)
  /\ UNCHANGED <<tempVars, objectVars, ackVars, reapVars, gcVars>>

Write(w) ==
  /\ Goto(w, "writing", "written")
  /\ bytes' = [bytes EXCEPT ![temp[w]] = src[w]]
  /\ old' = old \ {temp[w]}
  /\ UNCHANGED <<made, named, holder, synced, objectVars, temp, src, want,
                 opened, overlapped, ackVars, reapVars, gcVars>>

\* Every error after the lease, and a writer dropped unfinished: Drop closes
\* the file and removes the temp.
Fail(w) ==
  /\ Unlock(w)
  /\ named' = named \ {temp[w]}
  /\ Return(w)
  /\ UNCHANGED <<made, old, bytes, synced, objectVars, ackVars, reapVars,
                 gcVars>>

\* The source failed, or the caller gave the admission up.
DropUnfinished(w) == pc[w] \in {"writing", "written"} /\ Fail(w)

Expected(w) == want[w] \in {None, src[w]}

\* finish and finish_expecting up to install.
Finish_Unsynced(w) ==
  /\ Goto(w, "written", "synced")
  /\ Expected(w)
  /\ UNCHANGED <<tempVars, objectVars, temp, src, want,
                 opened, overlapped, ackVars, reapVars, gcVars>>
Finish(w) ==
  /\ Goto(w, "written", "synced")
  /\ Expected(w)
  /\ synced' = synced \cup {temp[w]}
  /\ UNCHANGED <<made, named, holder, old, bytes, objectVars, temp, src, want,
                 opened, overlapped, ackVars, reapVars, gcVars>>

Mismatch(w) == pc[w] = "written" /\ ~Expected(w) /\ Fail(w)

\* install: set_read_only and hard_link both need the temp's name.
NameLost(w) == pc[w] = "synced" /\ temp[w] \notin named /\ Fail(w)

Link_ErrorIgnored(w) ==
  /\ Goto(w, "synced", "linked")
  /\ object[src[w]] = 0
  /\ object' = IF temp[w] \in named THEN [object EXCEPT ![src[w]] = temp[w]]
               ELSE object
  /\ UNCHANGED <<tempVars, disk, rotten, temp, src, want, opened, overlapped,
                 ackVars, reapVars, gcVars>>
Link(w) ==
  /\ Goto(w, "synced", "linked")
  /\ temp[w] \in named
  /\ object[src[w]] = 0
  /\ object' = [object EXCEPT ![src[w]] = temp[w]]
  /\ UNCHANGED <<tempVars, disk, rotten, temp, src, want, opened, overlapped,
                 ackVars, reapVars, gcVars>>

\* A directory fsync makes what the directory holds now durable.
SyncDirectory(d) == disk' = [disk EXCEPT ![d] = object[d]]

SealDirectories_Skipped(w) ==
  /\ Goto(w, "linked", "sealed")
  /\ UNCHANGED <<tempVars, object, disk, rotten, temp, src, want, opened,
                 overlapped, ackVars, reapVars, gcVars>>
SealDirectories(w) ==
  /\ Goto(w, "linked", "sealed")
  /\ SyncDirectory(src[w])
  /\ UNCHANGED <<tempVars, object, rotten, temp, src, want, opened, overlapped,
                 ackVars, reapVars, gcVars>>

\* What the caller may rely on, unless a removal ran while it was served.
Acknowledge(w, fresh) ==
  /\ acked' = IF overlapped[w] THEN acked ELSE acked \cup {src[w]}
  /\ sealed' = IF overlapped[w] \/ ~fresh THEN sealed
               ELSE sealed \cup {src[w]}

Installed(w) ==
  /\ pc[w] = "sealed"
  /\ Unlock(w)
  /\ named' = named \ {temp[w]}
  /\ Acknowledge(w, TRUE)
  /\ Return(w)
  /\ UNCHANGED <<made, old, bytes, synced, objectVars, reapVars, gcVars>>

\* AlreadyExists: the lease is dropped before the resident is rehashed.
AlreadyExists(w) ==
  /\ Goto(w, "synced", "exists")
  /\ temp[w] \in named
  /\ object[src[w]] # 0
  /\ Unlock(w)
  /\ UNCHANGED <<made, named, old, bytes, synced, objectVars, temp, src, want,
                 opened, overlapped, ackVars, reapVars, gcVars>>

OpenResident(w) ==
  /\ Goto(w, "exists", "hashing")
  /\ object[src[w]] # 0
  /\ opened' = [opened EXCEPT ![w] = object[src[w]]]
  /\ UNCHANGED <<tempVars, objectVars, temp, src, want, overlapped, ackVars,
                 reapVars, gcVars>>

ResidentGone_Waits(w) == pc[w] = "exists" /\ FALSE
ResidentGone(w) == pc[w] = "exists" /\ object[src[w]] = 0 /\ Fail(w)

Intact(t, d) == bytes[t] = d /\ t \notin rotten

Accept(w) ==
  /\ pc[w] = "hashing"
  /\ Intact(opened[w], src[w])
  /\ named' = named \ {temp[w]}
  /\ Acknowledge(w, FALSE)
  /\ Return(w)
  /\ UNCHANGED <<made, holder, old, bytes, synced, objectVars, reapVars,
                 gcVars>>

CorruptResident(w) ==
  pc[w] = "hashing" /\ ~Intact(opened[w], src[w]) /\ Fail(w)

-----------------------------------------------------------------------------
(* remove_object, called by the reachability collector: unlink, then fsync *)
(* the directory.                                                          *)
RemoveUnlink(d) ==
  /\ "remove" \in Faults /\ gpc = "idle"
  /\ object[d] # 0
  /\ object' = [object EXCEPT ![d] = 0]
  /\ acked' = acked \ {d}
  /\ sealed' = sealed \ {d}
  /\ overlapped' = [w \in Writers |->
       \/ overlapped[w]
       \/ src[w] = d /\ pc[w] \in {"linked", "sealed", "hashing"}]
  /\ gpc' = "fsync" /\ gDigest' = d
  /\ UNCHANGED <<tempVars, disk, rotten, pc, temp, src, want, opened,
                 reapVars>>

RemoveSync ==
  /\ gpc = "fsync"
  /\ SyncDirectory(gDigest)
  /\ gpc' = "idle" /\ gDigest' = None
  /\ UNCHANGED <<tempVars, object, rotten, callVars, ackVars, reapVars>>

-----------------------------------------------------------------------------
(* collect_abandoned_temps: list, open and compare, lease, stat again,     *)
(* unlink.  A guard that fails retains the temp.                           *)
ReapList(t) ==
  /\ "reap" \in Faults /\ kpc = "idle"
  /\ t \in named \cap old
  /\ kpc' = "listed" /\ kTemp' = t /\ kBytes' = bytes[t]
  /\ UNCHANGED <<tempVars, objectVars, callVars, ackVars, gcVars>>

ReapOpen_SkipsEmpty ==
  /\ kpc = "listed"
  /\ kTemp \in named /\ bytes[kTemp] = kBytes /\ kBytes # None
  /\ kpc' = "opened"
  /\ UNCHANGED <<tempVars, objectVars, callVars, ackVars, kTemp, kBytes,
                 gcVars>>
ReapOpen ==
  /\ kpc = "listed"
  /\ kTemp \in named /\ bytes[kTemp] = kBytes
  /\ kpc' = "opened"
  /\ UNCHANGED <<tempVars, objectVars, callVars, ackVars, kTemp, kBytes,
                 gcVars>>

ReapLock_Ignored ==
  /\ kpc = "opened"
  /\ kpc' = "leased"
  /\ UNCHANGED <<tempVars, objectVars, callVars,
                 ackVars, kTemp, kBytes, gcVars>>
ReapLock ==
  /\ kpc = "opened"
  /\ holder[kTemp] = None
  /\ holder' = [holder EXCEPT ![kTemp] = Collector]
  /\ kpc' = "leased"
  /\ UNCHANGED <<made, named, old, bytes, synced, objectVars, callVars,
                 ackVars, kTemp, kBytes, gcVars>>

ReapRestat ==
  /\ kpc = "leased"
  /\ kTemp \in named /\ bytes[kTemp] = kBytes
  /\ kpc' = "stated"
  /\ UNCHANGED <<tempVars, objectVars, callVars, ackVars, kTemp, kBytes,
                 gcVars>>

ReapUnlink ==
  /\ kpc = "stated"
  /\ named' = named \ {kTemp}
  /\ Unlock(Collector)
  /\ kpc' = "idle" /\ kTemp' = 0 /\ kBytes' = None
  /\ UNCHANGED <<made, old, bytes, synced, objectVars, callVars, ackVars,
                 gcVars>>

ReapSkip ==
  /\ \/ kpc = "listed" /\ (kTemp \notin named \/ bytes[kTemp] # kBytes)
     \/ kpc = "opened" /\ holder[kTemp] # None
     \/ kpc = "leased" /\ (kTemp \notin named \/ bytes[kTemp] # kBytes)
  /\ Unlock(Collector)
  /\ kpc' = "idle" /\ kTemp' = 0 /\ kBytes' = None
  /\ UNCHANGED <<made, named, old, bytes, synced, objectVars, callVars,
                 ackVars, gcVars>>

-----------------------------------------------------------------------------
(* The environment. *)

\* The grace runs out for a temp nobody has written to.
Age(t) ==
  /\ "reap" \in Faults
  /\ t \in named \ old
  /\ old' = old \cup {t}
  /\ UNCHANGED <<made, named, holder, bytes, synced, objectVars, callVars,
                 ackVars, reapVars, gcVars>>

\* The writing process dies: the lease goes, the temp stays.
Kill(w) ==
  /\ "kill" \in Faults /\ pc[w] # "idle"
  /\ Unlock(w)
  /\ Return(w)
  /\ UNCHANGED <<made, named, old, bytes, synced, objectVars, ackVars,
                 reapVars, gcVars>>

\* So does one that collects temps or removes an object.
KillReaper ==
  /\ "killCollectors" \in Faults /\ kpc # "idle"
  /\ Unlock(Collector)
  /\ kpc' = "idle" /\ kTemp' = 0 /\ kBytes' = None
  /\ UNCHANGED <<made, named, old, bytes, synced, objectVars, callVars,
                 ackVars, gcVars>>

KillRemover ==
  /\ "killCollectors" \in Faults /\ gpc # "idle"
  /\ gpc' = "idle" /\ gDigest' = None
  /\ UNCHANGED <<tempVars, objectVars, callVars, ackVars, reapVars>>

\* The medium loses an object's bytes.
Decay(t) ==
  /\ "decay" \in Faults
  /\ t \in {object[d] : d \in Digests} \ (rotten \cup {0})
  /\ rotten' = rotten \cup {t}
  /\ UNCHANGED <<tempVars, object, disk, callVars, ackVars, reapVars, gcVars>>

\* After a power loss a path may hold what is on disk, what the system last
\* showed or, when the two differ, nothing; bytes never fsynced may be torn.
Survives(d, t) == t \in {disk[d], object[d]} \/ (t = 0 /\ disk[d] # object[d])

PowerLoss(left, kept, torn) ==
  /\ "power" \in Faults
  /\ \A d \in Digests : Survives(d, left[d])
  /\ kept \subseteq named /\ torn \subseteq 1..made \ synced
  /\ object' = left /\ disk' = left
  /\ named' = kept
  /\ bytes' = [t \in Temps |-> IF t \in torn THEN None ELSE bytes[t]]
  /\ holder' = [t \in Temps |-> None]
  /\ pc' = [w \in Writers |-> "idle"]
  /\ temp' = [w \in Writers |-> 0]
  /\ src' = [w \in Writers |-> None]
  /\ want' = [w \in Writers |-> None]
  /\ opened' = [w \in Writers |-> 0]
  /\ overlapped' = [w \in Writers |-> FALSE]
  /\ kpc' = "idle" /\ kTemp' = 0 /\ kBytes' = None
  /\ gpc' = "idle" /\ gDigest' = None
  /\ UNCHANGED <<made, old, synced, rotten, ackVars>>
-----------------------------------------------------------------------------
Admission(w) ==
  \/ \E d \in Digests, e \in Claims : Create(w, d, e)
  \/ Lock(w) \/ LockRefused(w) \/ Write(w) \/ DropUnfinished(w)
  \/ Finish(w) \/ Mismatch(w) \/ NameLost(w)
  \/ Link(w) \/ SealDirectories(w) \/ Installed(w)
  \/ AlreadyExists(w) \/ OpenResident(w) \/ ResidentGone(w)
  \/ Accept(w) \/ CorruptResident(w)

Removal == (\E d \in Digests : RemoveUnlink(d)) \/ RemoveSync

ReapTemp == ReapOpen \/ ReapLock \/ ReapRestat \/ ReapUnlink \/ ReapSkip

Environment ==
  \/ \E t \in Temps : Age(t) \/ Decay(t)
  \/ \E w \in Writers : Kill(w)
  \/ KillReaper \/ KillRemover
  \/ \E left \in [Digests -> 0..made], kept, torn \in SUBSET (1..made) :
       PowerLoss(left, kept, torn)

Next ==
  \/ \E w \in Writers : Admission(w)
  \/ Removal
  \/ \E t \in Temps : ReapList(t)
  \/ ReapTemp
  \/ Environment

Spec == Init /\ [][Next]_vars

\* A running call goes on, time passes, and the consumer calls
\* collect_abandoned_temps again and again; each call visits every temp.
FairSpec ==
  /\ Spec
  /\ \A w \in Writers : WF_vars(pc[w] # "idle" /\ Admission(w))
  /\ \A t \in Temps : WF_vars(Age(t)) /\ SF_vars(ReapList(t))
  /\ WF_vars(ReapTemp)

-----------------------------------------------------------------------------
TempSets ==
  /\ made \in 0..MaxTemps
  /\ named \subseteq 1..made /\ old \subseteq 1..made
  /\ synced \subseteq 1..made /\ rotten \subseteq 1..made
TempTypes ==
  /\ holder \in [Temps -> Writers \cup {None, Collector}]
  /\ bytes \in [Temps -> Digests \cup {None}]
ObjectTypes ==
  /\ object \in [Digests -> 0..made] /\ disk \in [Digests -> 0..made]
  /\ acked \subseteq Digests /\ sealed \subseteq Digests
CallTypes ==
  /\ pc \in [Writers -> WriterPcs]
  /\ temp \in [Writers -> 0..made]
  /\ src \in [Writers -> Digests \cup {None}]
  /\ want \in [Writers -> Digests \cup {None}]
  /\ opened \in [Writers -> 0..made]
  /\ overlapped \in [Writers -> BOOLEAN]
CollectorTypes ==
  /\ kpc \in {"idle", "listed", "opened", "leased", "stated"}
  /\ kTemp \in 0..made /\ kBytes \in Digests \cup {None}
  /\ gpc \in {"idle", "fsync"} /\ gDigest \in Digests \cup {None}

(* Types of the directories, the leases and every call's locals.           *)
TypeOK == TempSets /\ TempTypes /\ ObjectTypes /\ CallTypes /\ CollectorTypes

Resident == {d \in Digests : object[d] # 0}

(* A digest path never leads to partial or other bytes, in the running     *)
(* system and after a power loss: the temp is fsynced before install links *)
(* it (the medium's own decay aside).                                      *)
ResidentWhole == \A d \in Resident : bytes[object[d]] = d

(* The inductive invariant.  A call in flight has a temp of its own; its   *)
(* bytes are settled once written and stable once fsynced, ...             *)
CallInv ==
  /\ \A w \in Writers : pc[w] # "idle" =>
       /\ temp[w] \in 1..made /\ src[w] \in Digests
       /\ pc[w] \in {"created", "writing", "written"} => temp[w] \notin synced
       /\ pc[w] \in {"written", "synced"} => bytes[temp[w]] = src[w]
       /\ pc[w] = "synced" => temp[w] \in synced
  /\ \A w, v \in Writers :
       w # v /\ pc[w] # "idle" /\ pc[v] # "idle" => temp[w] # temp[v]
  /\ gpc = "fsync" => gDigest \in Digests

\* ... only such bytes are ever linked, seen or stored, ...
WholeInv ==
  \A d \in Digests :
    /\ object[d] # 0 => object[d] \in synced /\ bytes[object[d]] = d
    /\ disk[d] # 0 => disk[d] \in synced /\ bytes[disk[d]] = d

\* ... and the temp collector past its lock is the one that holds the lease.
LeaseInv ==
  /\ kpc # "idle" => kTemp \in 1..made
  /\ kpc \in {"leased", "stated"} => holder[kTemp] = Collector

\* An acknowledgement of a fresh install finds the link on stable storage.
SealInv ==
  /\ \A d \in sealed : object[d] # 0 /\ disk[d] = object[d]
  /\ \A w \in Writers : ~overlapped[w] =>
       /\ pc[w] \in {"linked", "sealed"} => object[src[w]] # 0
       /\ pc[w] = "sealed" => disk[src[w]] = object[src[w]]

IndInv == TypeOK /\ CallInv /\ WholeInv /\ LeaseInv /\ SealInv

\* Without power losses, any acknowledgement finds the link.
AckInv ==
  /\ \A d \in acked : object[d] # 0
  /\ \A w \in Writers : ~overlapped[w] =>
       (pc[w] \in {"linked", "sealed", "hashing"} => object[src[w]] # 0)

(* The temp collector never takes the name of a temp whose writer holds    *)
(* the lease: only that writer's own call, or its end, does.               *)
LeasedTempKept ==
  [][\A w \in Writers :
       temp[w] \in named \ named' /\ holder[temp[w]] = w
         => pc'[w] = "idle"]_vars

\* What a freshly installing call is promised survives power losses, ...
Durable == INSTANCE Cas WITH resident <- Resident, promised <- sealed
\* ... what any call is promised survives everything else.
Served == INSTANCE Cas WITH resident <- Resident, promised <- acked

(* Under every fault, power loss included, the store implements Cas for    *)
(* the calls that return preexisting = false.                              *)
ImplementsDurableCas == Durable!Spec

(* Without a power loss it implements Cas for every call that returns an   *)
(* object no removal overlapped.                                           *)
ImplementsCas == Served!Spec

(* Every admission returns: no racing writer, collector or removal can     *)
(* make install or verify wait.                                            *)
CallsEnd == \A w \in Writers : pc[w] # "idle" ~> pc[w] = "idle"

(* A temp left by a killed writer, or by one refused its lease, is         *)
(* reclaimed by a later collect_abandoned_temps.                           *)
LeftoversReclaimed ==
  \A t \in Temps :
    t \in named /\ (\A w \in Writers : temp[w] # t) ~> t \notin named
=============================================================================
