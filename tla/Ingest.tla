------------------------------- MODULE Ingest -------------------------------
(***************************************************************************)
(* A file becomes objects: FileByteSource (source.rs), planning and        *)
(* hashing it (planner/mod.rs, object.rs), admitting its regions with      *)
(* concurrent workers (store.rs), the calls of tensorfs-py that do so, and *)
(* the compositions made of the result.                                    *)
(*                                                                         *)
(* Other programs write and replace the file at any moment.  Every change  *)
(* of a file gives it a new time: the stamp is as fine as the changes.     *)
(* An importer's call and a composer's calls share no state, so a          *)
(* behaviour has one of the two, and of the first only one.                *)
(***************************************************************************)
EXTENDS Container, FiniteSetsExt

CONSTANTS
  Files,        \* the contents files take
  Contracts,    \* the contracts callers declare, NoContract among them
  Inodes,       \* the files there are
  Workers,      \* ingest_concurrency: the threads of admit_regions
  HashBuffer,   \* HASH_BUFFER_SIZE, in cells
  MaxChanges,   \* bound on the changes made by other programs
  MaxFaults,    \* bound on the objects the store fails to install
  Importable,   \* the contents an importer's file has at first
  Packaged,     \* the bodies a composer starts from: <<contents, contract>>
  NameMaps,     \* the renamings asked for
  Adoptions,    \* the contracts adopted
  Derivations,  \* the pairs of contracts derived
  MaxComposed   \* bound on a composer's calls

(* The algorithms the calls run.  They are parameters here; an instance    *)
(* gives them the definitions of Planner, Compose and Adapter.             *)
CONSTANTS
  Planned(_, _, _),     \* plan_once: PlanOnce
  Recomposed(_, _, _),  \* rekey and subset: Recompose
  Readopted(_, _),      \* adopt: Adopt
  Derived(_, _, _)      \* derive: Derive

NoFile == 0

(* A plan's regions are ranges, whatever file it is of.                    *)
FileContents == Files \cup Importable \cup {<<>>}
FileCells == UNION {{f[i] : i \in DOMAIN f} : f \in FileContents}
Regions == [offset : Nat, length : Nat, kind : {"Header", "Tensor", "Blob"}]

ASSUME IngestAssumption ==
  /\ FileContents \subseteq Seq(FileCells)
  /\ NoContract \in Contracts
  /\ 1 \in Inodes /\ NoFile \notin Inodes
  /\ IsFiniteSet(Workers) /\ Workers # {}
  /\ HashBuffer \in Nat \ {0} /\ MaxChanges \in Nat /\ MaxFaults \in Nat
  /\ \A cells \in FileContents, contract \in Contracts :
       Planned(View(cells), Len(cells), contract).regions \in Seq(Regions)

VARIABLES
  caller,   \* "importer" or "composer"
  disk,     \* inode |-> [cells, time]
  path,     \* the inode the path names, or NoFile
  changes,  \* how many changes other programs have made
  call,     \* the importer's call
  workers,  \* worker |-> [at, held]: its region and the bytes read
  faults,   \* installs that have failed
  store,    \* the objects admitted
  body,     \* the body a composer holds
  asked     \* its latest call: [op, names, source, target, err, was, count]

fileVars == <<disk, path, changes>>
admitVars == <<workers, faults, store>>
bodyVars == <<body, asked>>
vars == <<caller, fileVars, call, admitVars, bodyVars>>

NoStamp == [inode |-> NoFile, length |-> 0, time |-> 0]
Free == [at |-> 0, held |-> None]
Stopped == [at |-> -1, held |-> None]

Idle ==
  [pc |-> "idle", kind |-> "plan", contract |-> NoContract,
   inode |-> NoFile, before |-> NoStamp, stamp |-> NoStamp,
   view |-> NoView, plan |-> Refused("none"), snapshot |-> <<>>,
   region |-> 1, read |-> <<>>, objects |-> <<>>, next |-> 1,
   err |-> "none"]

Kinds == {"plan", "hash", "admit"}

IngestedBody(cells, contract) ==
  LET plan == Planned(View(cells), Len(cells), contract)
  IN Body(plan.planner, plan.stamp, Admitted(cells, plan.regions))
(* The same body with its zero records never written.                      *)
Punched(b) ==
  LET Zero(r) == \A i \in DOMAIN r.bytes : r.bytes[i] = Byte(0)
      Punch(r) == IF Zero(r) THEN Hole(RecordLength(r)) ELSE r
  IN [b EXCEPT !.records = [k \in DOMAIN @ |-> Punch(@[k])]]
NoBody == Body("blob", "none", <<>>)
NoNames == [n \in {} |-> n]
NotAsked == [op |-> "none", names |-> NoNames, source |-> NoContract,
             target |-> NoContract, err |-> "none", was |-> NoBody,
             count |-> 0]

Init ==
  /\ caller \in {"importer", "composer"}
  /\ path = 1 /\ changes = 0
  /\ \E cells \in IF caller = "importer" THEN Importable ELSE {<<>>} :
       disk = [i \in Inodes |-> [cells |-> cells, time |-> 0]]
  /\ call = Idle
  /\ workers = [w \in Workers |-> Stopped] /\ faults = 0
  /\ body \in IF caller = "composer"
              THEN UNION {{IngestedBody(p[1], p[2]),
                           Punched(IngestedBody(p[1], p[2]))} :
                            p \in Packaged}
              ELSE {NoBody}
  /\ store = {body.records[k].bytes : k \in DOMAIN body.records}
  /\ asked = NotAsked

(***************************************************************************)
(* Other programs.                                                         *)
(***************************************************************************)
Write ==
  /\ changes < MaxChanges /\ call.pc # "idle"
  /\ changes' = changes + 1
  /\ \E i \in Inodes, cells \in Files :
       /\ cells # disk[i].cells
       /\ disk' = [disk EXCEPT ![i] = [cells |-> cells, time |-> changes']]
  /\ UNCHANGED <<caller, path, call, admitVars, bodyVars>>

(* The path is renamed over, or removed.                                   *)
Replace ==
  /\ changes < MaxChanges /\ call.pc # "idle"
  /\ changes' = changes + 1
  /\ path' \in (Inodes \cup {NoFile}) \ {path}
  /\ UNCHANGED <<caller, disk, call, admitVars, bodyVars>>

(***************************************************************************)
(* FileByteSource.                                                         *)
(***************************************************************************)
Stamp(i) == [inode |-> i, length |-> Len(disk[i].cells),
             time |-> disk[i].time]
Unchanged == Stamp(call.inode) = call.stamp
Current == disk[call.inode].cells

(* read_exact_at within the captured length: the file may be shorter now.  *)
Readable(offset, length) == offset + length <= Len(Current)

Step(next) == call' = next /\ UNCHANGED <<caller, fileVars, bodyVars>>
Goto(pc) == Step([call EXCEPT !.pc = pc]) /\ UNCHANGED admitVars
Fail(err) == /\ Step([call EXCEPT !.pc = "done", !.err = err])
             /\ UNCHANGED admitVars

(* plan_file, plan_and_hash_file, admit_file.                              *)
Begin ==
  /\ caller = "importer" /\ call.pc = "idle"
  /\ \E kind \in Kinds, contract \in Contracts :
       Step([Idle EXCEPT !.pc = "stat", !.kind = kind,
                         !.contract = contract])
  /\ UNCHANGED admitVars

(* open: the path is examined, opened and examined again.                  *)
StatPath ==
  /\ call.pc = "stat"
  /\ IF path = NoFile THEN Fail("Io")
     ELSE /\ Step([call EXCEPT !.pc = "open", !.before = Stamp(path)])
          /\ UNCHANGED admitVars

OpenPath ==
  /\ call.pc = "open"
  /\ IF path = NoFile THEN Fail("Io")
     ELSE /\ Step([call EXCEPT !.pc = "compare", !.inode = path])
          /\ UNCHANGED admitVars

Compare ==
  /\ call.pc = "compare"
  /\ IF Stamp(call.inode) # call.before THEN Fail("Io") ELSE Goto("capture")

(* from_file: the stamp every later check is against.                      *)
Capture ==
  /\ call.pc = "capture"
  /\ Step([call EXCEPT !.pc = "precheck", !.stamp = Stamp(call.inode),
                       !.snapshot = Current])
  /\ UNCHANGED admitVars

(***************************************************************************)
(* plan_with: the header is read piece by piece between two checks.        *)
(***************************************************************************)
Precheck ==
  /\ call.pc = "precheck"
  /\ IF Unchanged THEN Goto("prefix") ELSE Fail("SourceChanged")

(* Reads cell `at` of the file into the view, or gives up.                 *)
ReadCell(field, at, pc) ==
  IF Readable(at - 1, 1)
  THEN /\ Step([call EXCEPT !.pc = pc, !.view[field] = Current[at]])
       /\ UNCHANGED admitVars
  ELSE /\ Step([call EXCEPT !.pc = "recheck", !.plan = Refused("Read")])
       /\ UNCHANGED admitVars

ReadPrefix ==
  /\ call.pc = "prefix"
  /\ IF call.stamp.length < 2 THEN Goto("planned")
     ELSE ReadCell("prefix", 1, "header")

ReadHeader ==
  /\ call.pc = "header"
  /\ ReadCell("header", 2, "directory")

ReadDirectory ==
  /\ call.pc = "directory"
  /\ LET at == DirectoryAt(call.view, call.stamp.length)
     IN IF at = 0 THEN Goto("planned")
        ELSE ReadCell("directory", at, "planned")

MakePlan ==
  /\ call.pc = "planned"
  /\ Step([call EXCEPT !.pc = "recheck",
             !.plan = Planned(call.view, call.stamp.length, call.contract)])
  /\ UNCHANGED admitVars

(* A change since the capture overrides any other error.                   *)
Recheck ==
  /\ call.pc = "recheck"
  /\ IF ~Unchanged THEN Fail("SourceChanged")
     ELSE IF call.plan.err # "none" THEN Fail(call.plan.err)
     ELSE Goto(IF call.kind = "plan" THEN "done" ELSE call.kind)

(***************************************************************************)
(* hash_plan.                                                              *)
(***************************************************************************)
HashBegin ==
  /\ call.pc = "hash"
  /\ IF ~Unchanged THEN Fail("SourceChanged") ELSE Goto("hashing")

(* One buffer of one region.                                               *)
HashBlock ==
  /\ call.pc = "hashing" /\ call.region <= Len(call.plan.regions)
  /\ LET r == call.plan.regions[call.region]
         at == r.offset + Len(call.read)
         n == Min({HashBuffer, r.length - Len(call.read)})
         read == call.read \o Slice(Current, at, n)
     IN IF ~Readable(at, n) THEN Fail("Read")
        ELSE /\ Step(IF Len(read) < r.length
                     THEN [call EXCEPT !.read = read]
                     ELSE [call EXCEPT !.read = <<>>,
                                       !.region = @ + 1,
                                       !.objects = Append(@, read)])
             /\ UNCHANGED admitVars

(* The hashes are returned whatever became of the file.                    *)
HashEnd_Unchecked ==
  /\ call.pc = "hashing" /\ call.region > Len(call.plan.regions)
  /\ Goto("done")

HashEnd ==
  /\ call.pc = "hashing" /\ call.region > Len(call.plan.regions)
  /\ IF ~Unchanged THEN Fail("SourceChanged") ELSE Goto("done")

(***************************************************************************)
(* admit_regions.  A region's outcome is [err, bytes].                     *)
(***************************************************************************)
Pending == [err |-> "pending", bytes |-> <<>>]
Serial == Min({Cardinality(Workers), Len(call.plan.regions)}) <= 1

(* As many workers as there are regions, at most.                          *)
AdmitBegin ==
  /\ call.pc = "admit"
  /\ Step([call EXCEPT !.pc = "admitting",
             !.objects = [i \in DOMAIN call.plan.regions |-> Pending]])
  /\ \E crew \in SUBSET Workers :
       /\ Cardinality(crew) =
            Min({Cardinality(Workers), Len(call.plan.regions)})
       /\ workers' = [w \in Workers |-> IF w \in crew THEN Free ELSE Stopped]
  /\ UNCHANGED <<faults, store>>

(* A worker takes the next index, and stops when there is none.            *)
Take(w) ==
  /\ call.pc = "admitting" /\ workers[w] = Free
  /\ Step([call EXCEPT !.next = @ + 1])
  /\ workers' = [workers EXCEPT ![w] =
       IF call.next \in DOMAIN call.plan.regions
       THEN [at |-> call.next, held |-> None] ELSE Stopped]
  /\ UNCHANGED <<faults, store>>

(* A single worker is a loop that ends at its first failure.               *)
Settle(w, outcome) ==
  /\ Step([call EXCEPT !.objects[workers[w].at] = outcome,
             !.next = IF Serial /\ outcome.err # "none"
                      THEN Len(call.plan.regions) + 1 ELSE @])
  /\ workers' = [workers EXCEPT ![w] = Free]

(* admit_region reads the region as the file now is.                       *)
ReadRegion(w) ==
  /\ call.pc = "admitting" /\ workers[w].at > 0 /\ ~workers[w].held.ok
  /\ LET r == call.plan.regions[workers[w].at]
     IN IF ~Readable(r.offset, r.length)
        THEN Settle(w, [Pending EXCEPT !.err = "Read"])
        ELSE /\ workers' = [workers EXCEPT ![w].held =
                  [ok |-> TRUE, bytes |-> Slice(Current, r.offset, r.length)]]
             /\ Step(call)
  /\ UNCHANGED <<faults, store>>

(* put_bytes installs the object or fails.                                 *)
PutRegion(w) ==
  /\ call.pc = "admitting" /\ workers[w].at > 0 /\ workers[w].held.ok
  /\ LET bytes == workers[w].held.bytes
     IN \/ /\ Settle(w, [err |-> "none", bytes |-> bytes])
           /\ store' = store \cup {bytes} /\ UNCHANGED faults
        \/ /\ faults < MaxFaults /\ faults' = faults + 1
           /\ Settle(w, [Pending EXCEPT !.err = "Store"])
           /\ UNCHANGED store

Failures == {i \in DOMAIN call.objects : call.objects[i].err \notin
                                           {"none", "pending"}}

(* The failure that is reported is any worker's.                           *)
Join_AnyOrder ==
  /\ call.pc = "admitting" /\ \A w \in Workers : workers[w] = Stopped
  /\ Step(IF Failures = {}
          THEN [call EXCEPT !.pc = "done",
                  !.objects = [i \in DOMAIN @ |-> @[i].bytes]]
          ELSE [call EXCEPT !.pc = "done", !.region = Max(Failures),
                  !.err = call.objects[Max(Failures)].err])
  /\ UNCHANGED admitVars

(* The workers are joined; the first failure in region order is returned.  *)
Join ==
  /\ call.pc = "admitting" /\ \A w \in Workers : workers[w] = Stopped
  /\ Step(IF Failures = {}
          THEN [call EXCEPT !.pc = "done",
                  !.objects = [i \in DOMAIN @ |-> @[i].bytes]]
          ELSE [call EXCEPT !.pc = "done", !.region = Min(Failures),
                  !.err = call.objects[Min(Failures)].err])
  /\ UNCHANGED admitVars

(***************************************************************************)
(* Compositions.                                                           *)
(***************************************************************************)
(* A refusal leaves the body as it is.                                     *)
Composes(request, result, format, stamp) ==
  /\ asked.count < MaxComposed
  /\ asked' = [request EXCEPT !.err = result.err, !.was = body,
                              !.count = asked.count + 1]
  /\ body' = IF result.err = "none"
             THEN Body(format, stamp, result.records) ELSE body
  /\ store' = store \cup {body'.records[k].bytes : k \in DOMAIN body'.records}
  /\ UNCHANGED <<caller, fileVars, call, workers, faults>>

Rekey == \E names \in NameMaps :
  Composes([NotAsked EXCEPT !.op = "rekey", !.names = names],
           Recomposed(body, names, "refuse"), body.format, body.stamp)

Subset == \E names \in NameMaps :
  Composes([NotAsked EXCEPT !.op = "subset", !.names = names],
           Recomposed(body, names, "drop"), body.format, body.stamp)

AdoptContract == \E contract \in Adoptions :
  Composes([NotAsked EXCEPT !.op = "adopt", !.target = contract],
           Readopted(body, contract), body.format, contract.stamp)

DeriveLayout == \E pair \in Derivations :
  Composes([NotAsked EXCEPT !.op = "derive", !.source = pair[1],
                            !.target = pair[2]],
           Derived(body, pair[1], pair[2]), "safetensors", pair[2].stamp)

Progress ==
  \/ StatPath \/ OpenPath \/ Compare \/ Capture \/ Precheck
  \/ ReadPrefix \/ ReadHeader \/ ReadDirectory \/ Recheck
  \/ HashBegin \/ HashBlock \/ HashEnd
  \/ AdmitBegin \/ Join
  \/ \E w \in Workers : Take(w) \/ ReadRegion(w) \/ PutRegion(w)
Composition == /\ caller = "composer"
               /\ Rekey \/ Subset \/ AdoptContract \/ DeriveLayout

Next == Write \/ Replace \/ Begin \/ Progress \/ MakePlan \/ Composition

Spec == Init /\ [][Next]_vars

Returned(kinds) ==
  call.pc = "done" /\ call.err = "none" /\ call.kind \in kinds

SnapshotPlan ==
  Planned(View(call.snapshot), Len(call.snapshot), call.contract)
SnapshotObjects ==
  [i \in DOMAIN call.plan.regions |->
     Slice(call.snapshot, call.plan.regions[i].offset,
           call.plan.regions[i].length)]

(***************************************************************************)
(* The inductive invariant of an import.                                   *)
(***************************************************************************)
Captured == {"precheck", "prefix", "header", "directory", "planned",
             "recheck", "hash", "hashing", "admit", "admitting"}
Opened == {"compare", "capture"} \cup Captured
Pcs == {"idle", "stat", "open", "done"} \cup Opened
Shape(c) == c = [f \in DOMAIN Idle |-> c[f]]

(* A file's time tells its contents: no change has a later one yet.        *)
FileInv ==
  /\ path \in Inodes \cup {NoFile} /\ changes \in Nat
  /\ disk = [i \in Inodes |-> disk[i]]
  /\ \A i \in Inodes : /\ disk[i].cells \in FileContents
                       /\ disk[i].time \in Nat /\ disk[i].time <= changes

StartInv ==
  /\ Shape(call) /\ call.pc \in Pcs
  /\ call.kind \in Kinds /\ call.contract \in Contracts
  /\ call.pc # "done" => call.err = "none"
  /\ call.pc \in Opened => call.inode \in Inodes
  /\ call.pc \notin {"hashing", "admitting", "done"} =>
       /\ call.region = 1 /\ call.read = <<>>
       /\ call.objects = <<>> /\ call.next = 1

(* A source that has not changed since its capture is as it was.           *)
Live == call.pc \in Captured \/ Returned(Kinds)
SteadyInv ==
  Live => /\ call.inode \in Inodes /\ call.snapshot \in FileContents
          /\ call.stamp = [inode |-> call.inode,
                            length |-> Len(call.snapshot),
                            time |-> call.stamp.time]
          /\ call.stamp.time \in Nat /\ call.stamp.time <= changes
          /\ Unchanged => Current = call.snapshot

(* And so is what was read of its header.                                  *)
Seen(n) ==
  LET cells == call.snapshot IN
  IF n = 1 THEN [NoView EXCEPT !.prefix = cells[1]]
  ELSE [NoView EXCEPT !.prefix = cells[1], !.header = cells[2]]
ViewInv ==
  /\ call.pc \notin (Captured \ {"precheck", "prefix"}) \cup {"done"} =>
       call.view = NoView
  /\ call.pc \in {"header", "directory"} => Len(call.snapshot) >= 2
  /\ call.pc = "header" /\ Unchanged => call.view = Seen(1)
  /\ call.pc = "directory" /\ Unchanged => call.view = Seen(2)
  /\ call.pc = "planned" /\ Unchanged => call.view = View(call.snapshot)
PlanInv ==
  /\ call.pc = "recheck" /\ Unchanged /\ call.plan.err = "none" =>
       call.plan = SnapshotPlan
  /\ call.pc \in {"hash", "hashing", "admit", "admitting"}
         \/ Returned(Kinds) =>
       call.plan = SnapshotPlan
  /\ call.pc \in {"hash", "hashing"} => call.kind = "hash"
  /\ call.pc \in {"admit", "admitting"} => call.kind = "admit"

(* hash_plan has read the regions before the one in hand, and of that one  *)
(* a prefix.                                                               *)
HashInv ==
  LET rs == call.plan.regions IN
  /\ call.pc = "hashing" =>
       /\ call.region \in Nat \ {0} /\ call.region <= Len(rs) + 1
       /\ call.objects \in Seq(Seq(FileCells))
       /\ Len(call.objects) = call.region - 1
       /\ call.read \in Seq(FileCells)
       /\ call.region <= Len(rs) =>
            /\ Len(call.read) <= rs[call.region].length
            /\ Unchanged => call.read = Slice(call.snapshot,
                              rs[call.region].offset, Len(call.read))
       /\ Unchanged =>
            \A i \in 1..(call.region - 1) :
              call.objects[i] = Slice(call.snapshot, rs[i].offset, rs[i].length)
  /\ Returned({"hash"}) => call.objects = SnapshotObjects

(* A region that was taken and is pending is some one worker's, unless a   *)
(* single worker has failed; one not taken yet is pending, and a settled   *)
(* one is in the store.                                                    *)
Holds(bytes, i) ==
  LET r == call.plan.regions[i] IN
  /\ Len(bytes) = r.length
  /\ Unchanged => bytes = Slice(call.snapshot, r.offset, r.length)
WorkerOK(w) ==
  \/ workers[w] \in {Free, Stopped}
  \/ LET at == workers[w].at
         held == workers[w].held
     IN /\ workers[w] = [at |-> at, held |-> held]
        /\ at \in DOMAIN call.plan.regions /\ at < call.next
        /\ call.objects[at].err = "pending"
        /\ held.ok => Holds(held.bytes, at)
OutcomeOK(i) ==
  LET outcome == call.objects[i] IN
  /\ outcome.err = "none" => outcome.bytes \in store /\ Holds(outcome.bytes, i)
  /\ outcome.err = "pending" /\ i < call.next =>
       (\E w \in Workers : workers[w].at = i) \/ (Serial /\ Failures # {})
  /\ i >= call.next => outcome.err = "pending"
SerialOK ==
  /\ \A w, v \in Workers :
       workers[w] # Stopped /\ workers[v] # Stopped => w = v
  /\ \A i \in Failures :
       /\ call.next > Len(call.plan.regions)
       /\ \A w \in Workers : workers[w] \in {Free, Stopped}
       /\ \A j \in 1..(i - 1) : call.objects[j].err = "none"
AdmitInv ==
  call.pc = "admitting" =>
    /\ workers = [w \in Workers |-> workers[w]]
    /\ call.next \in Nat \ {0}
    /\ call.objects = [i \in DOMAIN call.plan.regions |-> call.objects[i]]
    /\ \A w \in Workers : WorkerOK(w)
    /\ \A w, v \in Workers :
         workers[w].at > 0 /\ workers[w].at = workers[v].at => w = v
    /\ \A i \in DOMAIN call.plan.regions : OutcomeOK(i)
    /\ (\A w \in Workers : workers[w] = Stopped) =>
         call.next > Len(call.plan.regions)
    /\ Serial => SerialOK
DoneInv ==
  /\ Returned({"admit"}) =>
       /\ call.objects = [i \in DOMAIN call.plan.regions |-> call.objects[i]]
       /\ \A i \in DOMAIN call.plan.regions :
            call.objects[i] \in store /\ Holds(call.objects[i], i)
  /\ call.pc = "done" /\ call.kind = "admit" /\ call.err # "none"
         /\ call.objects # <<>> =>
       /\ call.objects[call.region].err = call.err
       /\ \A i \in 1..(call.region - 1) : /\ call.objects[i].err = "none"
                                          /\ call.objects[i].bytes \in store

IndInv ==
  FileInv /\ StartInv /\ SteadyInv /\ ViewInv /\ PlanInv /\ HashInv
    /\ AdmitInv /\ DoneInv

(***************************************************************************)
(* Properties of an import.                                                *)
(***************************************************************************)

(* plan_and_hash_file answers for one content of the file, the one it had  *)
(* when the source was opened, however the file was written or replaced    *)
(* meanwhile ("from one stable source snapshot", object.rs).               *)
HashedIsOneSnapshot ==
  Returned({"plan", "hash"}) =>
    /\ call.plan = SnapshotPlan
    /\ call.kind = "hash" => call.objects = SnapshotObjects

(* However the workers interleave, admit_file answers as a serial run      *)
(* would.  Its objects correspond positionally to the regions of its plan, *)
(* are all in the store, and are the file's bytes unless the file changed  *)
(* after it was planned (admission does not look again); the error it      *)
(* returns is the first in region order, and every region before the one   *)
(* reported was admitted.                                                  *)
AdmitsAsSerial ==
  /\ Returned({"admit"}) =>
       /\ call.plan = SnapshotPlan
       /\ Len(call.objects) = Len(call.plan.regions)
       /\ \A i \in DOMAIN call.objects :
            /\ Len(call.objects[i]) = call.plan.regions[i].length
            /\ call.objects[i] \in store
       /\ Unchanged => call.objects = SnapshotObjects
  /\ call.pc = "done" /\ call.kind = "admit" /\ call.err # "none"
         /\ call.objects # <<>> =>
       /\ call.objects[call.region].err = call.err
       /\ \A i \in 1..(call.region - 1) : /\ call.objects[i].err = "none"
                                          /\ call.objects[i].bytes \in store
=============================================================================
