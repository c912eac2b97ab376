---------------------------- MODULE IngestProofs ----------------------------
(***************************************************************************)
(* Theorems about Ingest's importer, for any number of files, changes,     *)
(* workers and regions: what plan_file, plan_and_hash_file and admit_file  *)
(* return is about one content of the file, and admit_file answers as a    *)
(* serial run would.  Both follow from IndInv.  What the planner computes  *)
(* is a parameter: only that a plan's regions are ranges is assumed.       *)
(***************************************************************************)
EXTENDS Ingest, TLAPS, WellFoundedInduction, FiniteSetTheorems

USE Zenon

-----------------------------------------------------------------------------
(* Sequences and numbers.                                                  *)

\* The least of two numbers.
LEMMA LeastOfTwo ==
  ASSUME NEW a \in Nat, NEW b \in Nat
  PROVE  /\ Min({a, b}) \in {a, b} /\ Min({a, b}) <= a /\ Min({a, b}) <= b
         /\ Min({a, b}) \in Nat
<1>1. \E x \in {a, b} : \A y \in {a, b} : x <= y
  BY SMT
<1>2. /\ Min({a, b}) \in {a, b}
      /\ \A y \in {a, b} : Min({a, b}) <= y
  BY <1>1 DEF Min
<1> QED BY <1>2

\* The first of a nonempty set of places.
LEMMA FirstPlace ==
  ASSUME NEW S \in SUBSET Nat, S # {}
  PROVE  Min(S) \in S /\ \A i \in S : Min(S) <= i
<1> DEFINE R == OpToRel(<, Nat)
<1>1. IsWellFoundedOn(R, Nat)
  BY NatLessThanWellFounded
<1>2. \A x, y \in Nat : x < y => <<x, y>> \in R
  BY DEF OpToRel
<1> HIDE DEF R
<1>3. PICK x \in S : \A y \in S : ~ (<<y, x>> \in R)
  BY <1>1, WFMin
<1>4. \A y \in S : ~(y < x)
  BY <1>2, <1>3
<1>5. \A y \in S : x <= y
  BY <1>4, SMT
<1> QED BY <1>5 DEF Min

\* A read of n cells goes on where one of m ended.
LEMMA SlicesJoin ==
  ASSUME NEW cells \in Seq(FileCells), NEW a \in Nat, NEW m \in Nat,
         NEW n \in Nat, a + m + n <= Len(cells)
  PROVE  Slice(cells, a, m) \o Slice(cells, a + m, n) = Slice(cells, a, m + n)
<1>1. SubSeq(cells, a + 1, a + m) = [i \in 1..m |-> cells[a + i]]
  BY SMT
<1>2. SubSeq(cells, a + m + 1, a + m + n) = [i \in 1..n |-> cells[a + m + i]]
  BY SMT
<1>3. SubSeq(cells, a + 1, a + (m + n)) = [i \in 1..(m + n) |-> cells[a + i]]
  BY SMT
<1> QED BY <1>1, <1>2, <1>3, SMT DEF Slice

\* A read within the file gives the cells asked for, and no cells if none
\* are asked for.
LEMMA SliceFits ==
  ASSUME NEW cells \in Seq(FileCells), NEW a \in Nat, NEW n \in Nat,
         a + n <= Len(cells)
  PROVE  Slice(cells, a, n) \in Seq(FileCells) /\ Len(Slice(cells, a, n)) = n
BY SMT DEF Slice

LEMMA EmptySlice ==
  ASSUME NEW cells \in Seq(FileCells), NEW a \in Nat
  PROVE  Slice(cells, a, Len(<<>>)) = <<>>
BY SMT DEF Slice

LEMMA Joined ==
  ASSUME NEW s \in Seq(FileCells), NEW u \in Seq(FileCells)
  PROVE  s \o u \in Seq(FileCells) /\ Len(s \o u) = Len(s) + Len(u)
BY SMT

LEMMA SequenceIs ==
  ASSUME NEW T, NEW s \in Seq(T)
  PROVE  DOMAIN s = 1..Len(s) /\ s = [i \in 1..Len(s) |-> s[i]]
BY SMT

\* The cells of files.
LEMMA FilesAreCells ==
  ASSUME NEW f \in FileContents
  PROVE  f \in Seq(FileCells) /\ Len(f) \in Nat
<1>1. f \in Seq(FileCells)
  BY IngestAssumption
<1> QED BY <1>1, SMT

\* The regions of a snapshot's plan are ranges.
LEMMA RangesOf ==
  ASSUME call.snapshot \in FileContents, call.contract \in Contracts,
         call.plan = SnapshotPlan
  PROVE  LET rs == call.plan.regions IN
         /\ rs \in Seq(Regions) /\ Len(rs) \in Nat /\ DOMAIN rs = 1..Len(rs)
         /\ \A i \in DOMAIN rs : rs[i].offset \in Nat /\ rs[i].length \in Nat
<1> DEFINE rs == call.plan.regions
<1>1. rs \in Seq(Regions)
  BY IngestAssumption DEF SnapshotPlan
<1> HIDE DEF rs
<1>2. Len(rs) \in Nat /\ DOMAIN rs = 1..Len(rs)
  BY <1>1, SMT
<1>3. \A i \in DOMAIN rs : rs[i] \in Regions
  BY <1>1, SMT
<1>4. \A r \in Regions : r.offset \in Nat /\ r.length \in Nat
  BY DEF Regions
<1> QED BY <1>1, <1>2, <1>3, <1>4 DEF rs

-----------------------------------------------------------------------------
(* The locals of a call.                                                   *)

\* The fields of a call.
LEMMA IdleFields ==
  /\ DOMAIN Idle = {"pc", "kind", "contract", "inode", "before", "stamp",
       "view", "plan", "snapshot", "region", "read", "objects", "next", "err"}
  /\ Shape(Idle)
BY DEF Idle, Shape

\* The source and its answers so far are the same.
Like(d, c) ==
  /\ Shape(d) /\ d.kind = c.kind /\ d.contract = c.contract
  /\ d.inode = c.inode /\ d.stamp = c.stamp /\ d.snapshot = c.snapshot
  /\ d.region = c.region /\ d.read = c.read /\ d.objects = c.objects
  /\ d.next = c.next /\ d.err = c.err

HeadPcs == Captured \ {"hashing", "admitting"}
FilesStill == disk' = disk /\ path' = path /\ changes' = changes

\* The stamp of an inode depends on the disk alone.
LEMMA SameSource ==
  ASSUME FilesStill, call'.inode = call.inode, call'.stamp = call.stamp,
         call'.snapshot = call.snapshot, call'.contract = call.contract
  PROVE  /\ (Unchanged' <=> Unchanged) /\ Current' = Current
         /\ SnapshotPlan' = SnapshotPlan
<1>1. Unchanged' <=> Unchanged
  BY DEF FilesStill, Unchanged, Stamp
<1>2. Current' = Current
  BY DEF FilesStill, Current
<1>3. SnapshotPlan' = SnapshotPlan
  BY DEF SnapshotPlan
<1> QED BY <1>1, <1>2, <1>3

\* Other files stay as they are.
LEMMA FilesKeep ==
  ASSUME FileInv, FilesStill
  PROVE  FileInv'
BY DEF FileInv, FilesStill

\* Before the source is captured there is little to keep.
LEMMA EarlyKeeps ==
  ASSUME FileInv', StartInv', call'.view = NoView,
         call'.pc \in {"idle", "stat", "open", "compare", "capture"}
  PROVE  IndInv'
<1>1. ~Live' /\ ~Returned({"hash"})' /\ ~Returned({"admit"})'
  BY DEF Live, Returned, Captured
<1>2. SteadyInv'
  BY <1>1 DEF SteadyInv
<1>3. ViewInv'
  BY DEF ViewInv
<1>4. PlanInv'
  BY DEF PlanInv, Returned
<1>5. HashInv' /\ AdmitInv' /\ DoneInv'
  BY <1>1 DEF HashInv, AdmitInv, DoneInv
<1> QED BY <1>2, <1>3, <1>4, <1>5 DEF IndInv

\* A call that fails has nothing to answer for but the first failure of an
\* admission.
LEMMA FailKeeps ==
  ASSUME IndInv, NEW err, err # "none", Fail(err),
         call.pc \notin {"admitting", "done"}
  PROVE  IndInv'
<1>1. /\ call' = [call EXCEPT !.pc = "done", !.err = err] /\ FilesStill
      /\ StartInv /\ Shape(call)
  BY DEF Fail, Step, IndInv, StartInv, FilesStill, fileVars
<1>2. Shape(call')
  BY <1>1 DEF Shape
<1>3. /\ call'.pc = "done" /\ call'.err = err /\ call'.kind = call.kind
      /\ call'.contract = call.contract /\ call'.objects = call.objects
  BY <1>1, IdleFields DEF Shape
<1>4. FileInv'
  BY <1>1, FilesKeep DEF IndInv
<1>5. StartInv'
  BY <1>1, <1>2, <1>3 DEF StartInv, Pcs, Opened, Captured
<1>6. ~Live' /\ \A kinds : ~Returned(kinds)'
  BY <1>3 DEF Live, Returned, Captured
<1>7. SteadyInv' /\ ViewInv' /\ PlanInv' /\ HashInv' /\ AdmitInv'
  <2>1. SteadyInv' /\ HashInv' /\ AdmitInv'
    BY <1>3, <1>6 DEF SteadyInv, HashInv, AdmitInv
  <2>2. ViewInv' /\ PlanInv'
    BY <1>3, <1>6 DEF ViewInv, PlanInv
  <2> QED BY <2>1, <2>2
<1>8. DoneInv'
  <2>1. call.objects = <<>> \/ call.kind = "hash"
    BY DEF IndInv, StartInv, PlanInv
  <2> QED BY <1>3, <1>6, <2>1 DEF DoneInv
<1> QED BY <1>4, <1>5, <1>7, <1>8 DEF IndInv

\* The header is read: view and plan move.
LEMMA HeaderKeeps ==
  ASSUME IndInv, FilesStill, Like(call', call), call.pc \in HeadPcs,
         call'.pc \in HeadPcs, ViewInv', PlanInv'
  PROVE  IndInv'
<1>1. /\ (Unchanged' <=> Unchanged) /\ Current' = Current
  BY SameSource DEF Like
<1>2. FileInv'
  BY FilesKeep DEF IndInv
<1>3. StartInv'
  <2>1. /\ call'.pc \in Pcs /\ call'.pc # "done"
        /\ call'.pc \notin {"hashing", "admitting", "done"}
        /\ call.pc \in Opened /\ call.pc # "done"
        /\ call.pc \notin {"hashing", "admitting", "done"}
    BY DEF HeadPcs, Pcs, Opened, Captured
  <2> QED BY <2>1 DEF IndInv, StartInv, Like, Shape
<1>4. SteadyInv'
  <2>1. Live
    BY DEF Live, HeadPcs
  <2> QED BY <1>1, <2>1 DEF IndInv, SteadyInv, Like, FilesStill
<1>5. HashInv' /\ AdmitInv' /\ DoneInv'
  <2>1. call'.pc \notin {"hashing", "admitting", "done"}
    BY DEF HeadPcs, Captured
  <2> QED BY <2>1 DEF HashInv, AdmitInv, DoneInv, Returned
<1> QED BY <1>2, <1>3, <1>4, <1>5 DEF IndInv

\* A step that moves the program counter alone.
LEMMA GotoIs ==
  ASSUME Shape(call), NEW pc, Goto(pc)
  PROVE  /\ FilesStill /\ Like(call', call) /\ call'.pc = pc
         /\ call'.view = call.view /\ call'.plan = call.plan
         /\ workers' = workers /\ store' = store
<1>1. /\ call' = [call EXCEPT !.pc = pc] /\ FilesStill
      /\ workers' = workers /\ store' = store
  BY DEF Goto, Step, FilesStill, fileVars, admitVars
<1>2. Shape(call')
  BY <1>1 DEF Shape
<1>3. /\ call'.pc = pc /\ call'.view = call.view /\ call'.plan = call.plan
      /\ call'.kind = call.kind /\ call'.contract = call.contract
  BY <1>1, IdleFields DEF Shape
<1>4. /\ call'.inode = call.inode /\ call'.stamp = call.stamp
      /\ call'.snapshot = call.snapshot /\ call'.region = call.region
  BY <1>1, IdleFields DEF Shape
<1>5. /\ call'.read = call.read /\ call'.objects = call.objects
      /\ call'.next = call.next /\ call'.err = call.err
  BY <1>1, IdleFields DEF Shape
<1> QED BY <1>1, <1>2, <1>3, <1>4, <1>5 DEF Like

-----------------------------------------------------------------------------
(* Other programs, and the composer.                                       *)

\* The call stands still while files change: one that still looks unchanged
\* is unchanged.
LEMMA StillKeeps ==
  ASSUME IndInv, call' = call, workers' = workers, store \subseteq store',
         FileInv', changes <= changes',
         Live => (Unchanged' => Unchanged /\ Current' = Current)
  PROVE  IndInv'
<1>1. /\ (Live' <=> Live) /\ SnapshotPlan' = SnapshotPlan
      /\ SnapshotObjects' = SnapshotObjects /\ Failures' = Failures
      /\ Serial' <=> Serial
  BY DEF Live, Returned, SnapshotPlan, SnapshotObjects, Failures, Serial
<1>2. \A kinds : Returned(kinds)' <=> Returned(kinds)
  BY DEF Returned
<1>3. Live => \A bytes, i : Holds(bytes, i) => Holds(bytes, i)'
  BY DEF Holds
<1>4. StartInv'
  BY DEF IndInv, StartInv
<1>5. SteadyInv'
  <2>1. ASSUME Live PROVE call.stamp.time <= changes'
    <3>1. call.stamp.time \in Nat /\ call.stamp.time <= changes
      BY <2>1 DEF IndInv, SteadyInv
    <3>2. changes \in Nat /\ changes' \in Nat
      BY DEF IndInv, FileInv
    <3> QED BY <3>1, <3>2, SMT
  <2> QED BY <1>1, <2>1 DEF IndInv, SteadyInv
<1>6. ViewInv'
  <2>1. call.pc \in {"header", "directory", "planned"} => Live
    BY DEF Live, Captured
  <2> QED BY <2>1 DEF IndInv, ViewInv, Seen
<1>7. PlanInv'
  <2>1. call.pc = "recheck" => Live
    BY DEF Live, Captured
  <2>2. PlanInv
    BY DEF IndInv
  <2>3. call.pc = "recheck" /\ Unchanged' /\ call.plan.err = "none" =>
          call.plan = SnapshotPlan
    BY <2>1, <2>2 DEF PlanInv
  <2> QED BY <1>1, <2>2, <2>3 DEF PlanInv, Returned
<1>8. HashInv'
  <2>1. call.pc = "hashing" => Live
    BY DEF Live, Captured
  <2> QED BY <1>1, <1>2, <2>1 DEF IndInv, HashInv
<1>9. AdmitInv'
  <2> SUFFICES ASSUME call.pc = "admitting" PROVE AdmitInv'
    BY DEF AdmitInv
  <2>1. Live
    BY DEF Live, Captured
  <2>2. ASSUME NEW w \in Workers, WorkerOK(w) PROVE WorkerOK(w)'
    BY <2>1, <2>2, <1>3 DEF WorkerOK
  <2>3. ASSUME NEW i, OutcomeOK(i) PROVE OutcomeOK(i)'
    BY <2>1, <2>3, <1>1, <1>3 DEF OutcomeOK
  <2>4. SerialOK => SerialOK'
    BY <1>1 DEF SerialOK
  <2>5. /\ workers = [w \in Workers |-> workers[w]]
        /\ call.next \in Nat \ {0}
        /\ call.objects = [i \in DOMAIN call.plan.regions |-> call.objects[i]]
        /\ \A w \in Workers : WorkerOK(w)
        /\ \A w, v \in Workers :
             workers[w].at > 0 /\ workers[w].at = workers[v].at => w = v
    BY DEF IndInv, AdmitInv
  <2>6. /\ \A i \in DOMAIN call.plan.regions : OutcomeOK(i)
        /\ (\A w \in Workers : workers[w] = Stopped) =>
             call.next > Len(call.plan.regions)
        /\ Serial => SerialOK
    BY DEF IndInv, AdmitInv
  <2>7. /\ \A w \in Workers : WorkerOK(w)'
        /\ \A i \in DOMAIN call.plan.regions : OutcomeOK(i)'
        /\ Serial' => SerialOK'
    BY <1>1, <2>2, <2>3, <2>4, <2>5, <2>6
  <2> QED BY <2>5, <2>6, <2>7 DEF AdmitInv
<1>10. DoneInv'
  <2>1. Returned({"admit"}) => Live
    BY DEF Live, Returned, Kinds
  <2> QED BY <1>2, <1>3, <2>1 DEF IndInv, DoneInv
<1> QED BY <1>4, <1>5, <1>6, <1>7, <1>8, <1>9, <1>10 DEF IndInv

\* A change gives the file it changes a time no capture has.
LEMMA WriteKeeps ==
  ASSUME IndInv, Write
  PROVE  IndInv'
<1>1. /\ changes' = changes + 1 /\ path' = path /\ call' = call
      /\ workers' = workers /\ store' = store
  BY DEF Write, admitVars
<1>2. PICK i \in Inodes, cells \in Files :
        disk' = [disk EXCEPT ![i] = [cells |-> cells, time |-> changes + 1]]
  BY <1>1 DEF Write
<1>3. /\ changes \in Nat /\ path \in Inodes \cup {NoFile}
      /\ disk = [j \in Inodes |-> disk[j]]
      /\ \A j \in Inodes : /\ disk[j].cells \in FileContents
                           /\ disk[j].time \in Nat /\ disk[j].time <= changes
  BY DEF IndInv, FileInv
<1>4. changes' \in Nat /\ changes <= changes'
  BY <1>1, <1>3, SMT
<1>5. /\ disk'[i] = [cells |-> cells, time |-> changes + 1]
      /\ \A j \in Inodes \ {i} : disk'[j] = disk[j]
      /\ disk' = [j \in Inodes |-> disk'[j]]
  BY <1>2, <1>3
<1>6. disk'[i].cells = cells /\ disk'[i].time = changes + 1
  BY <1>5, SMT
<1>7. FileInv'
  <2>1. cells \in FileContents
    BY DEF FileContents
  <2>2. \A j \in Inodes : disk'[j].cells \in FileContents
    BY <1>3, <1>5, <1>6, <2>1
  <2>3. \A j \in Inodes \ {i} :
           disk'[j].time \in Nat /\ disk'[j].time <= changes + 1
    <3>1. \A n \in Nat : n <= changes => n <= changes + 1
      BY <1>3, SMT
    <3> QED BY <1>3, <1>5, <3>1
  <2>4. disk'[i].time \in Nat /\ disk'[i].time <= changes + 1
    BY <1>3, <1>6, SMT
  <2> QED BY <1>1, <1>3, <1>4, <1>5, <2>2, <2>3, <2>4 DEF FileInv
<1>8. ASSUME Live, Unchanged' PROVE Unchanged /\ Current' = Current
  <2>1. /\ call.inode \in Inodes /\ call.stamp.time \in Nat
        /\ call.stamp.time <= changes
    BY <1>8 DEF IndInv, SteadyInv
  <2>2. call.stamp = [inode |-> call.inode,
                      length |-> Len(disk'[call.inode].cells),
                      time |-> disk'[call.inode].time]
    BY <1>1, <1>8 DEF Unchanged, Stamp
  <2>3. call.stamp.time = disk'[call.inode].time
    BY <2>2, SMT
  <2>4. call.inode # i
    <3>1. call.stamp.time # changes + 1
      BY <1>3, <2>1, SMT
    <3> QED BY <1>6, <2>3, <3>1
  <2>5. disk'[call.inode] = disk[call.inode]
    BY <1>5, <2>1, <2>4
  <2> QED BY <1>1, <2>2, <2>5 DEF Unchanged, Stamp, Current
<1> QED BY <1>1, <1>4, <1>7, <1>8, StillKeeps

\* Renaming over the path leaves the open file as it was.
LEMMA ReplaceKeeps ==
  ASSUME IndInv, Replace
  PROVE  IndInv'
<1>1. /\ changes' = changes + 1 /\ path' \in Inodes \cup {NoFile}
      /\ disk' = disk /\ call' = call /\ workers' = workers
      /\ store' = store
  BY DEF Replace, admitVars
<1>2. changes \in Nat
  BY DEF IndInv, FileInv
<1>3. changes' \in Nat /\ changes <= changes'
  BY <1>1, <1>2, SMT
<1>4. \A n \in Nat : n <= changes => n <= changes'
  BY <1>1, <1>2, SMT
<1>5. FileInv'
  BY <1>1, <1>3, <1>4 DEF IndInv, FileInv
<1>6. Unchanged' => Unchanged /\ Current' = Current
  BY <1>1 DEF Unchanged, Stamp, Current
<1> QED BY <1>1, <1>3, <1>5, <1>6, StillKeeps

\* Nothing but the store, and it only grows.
LEMMA ComposerKeeps ==
  ASSUME IndInv, UNCHANGED <<fileVars, call, workers>>,
         store \subseteq store'
  PROVE  IndInv'
<1>1. FilesStill /\ call' = call /\ workers' = workers
  BY DEF FilesStill, fileVars
<1>2. FileInv' /\ changes <= changes'
  <2>1. changes \in Nat
    BY DEF IndInv, FileInv
  <2>2. changes <= changes
    BY <2>1, SMT
  <2> QED BY <1>1, <2>2, FilesKeep DEF IndInv, FilesStill
<1>3. Unchanged' => Unchanged /\ Current' = Current
  BY <1>1 DEF Unchanged, Stamp, Current, FilesStill
<1> QED BY <1>1, <1>2, <1>3, StillKeeps

-----------------------------------------------------------------------------
(* From the path to the plan.                                              *)

\* Nothing is captured yet.
LEMMA InitKeeps ==
  ASSUME Init
  PROVE  IndInv
<1>1. /\ call = Idle /\ path = 1 /\ changes = 0
  BY DEF Init
<1>2. PICK cells \in FileContents :
        disk = [i \in Inodes |-> [cells |-> cells, time |-> 0]]
  BY DEF Init, FileContents
<1>3. FileInv
  <2>1. \A i \in Inodes : disk[i].cells = cells /\ disk[i].time = 0
    BY <1>2
  <2>2. 0 \in Nat /\ 0 <= 0
    BY SMT
  <2>3. disk = [i \in Inodes |-> disk[i]]
    BY <1>2
  <2> QED BY <1>1, <2>1, <2>2, <2>3, IngestAssumption DEF FileInv
<1>4. /\ call.pc = "idle" /\ call.kind = "plan" /\ call.contract = NoContract
      /\ call.err = "none" /\ call.view = NoView /\ call.region = 1
      /\ call.read = <<>> /\ call.objects = <<>> /\ call.next = 1
  BY <1>1 DEF Idle
<1>5. StartInv
  BY <1>1, <1>4, IdleFields, IngestAssumption
     DEF StartInv, Pcs, Kinds, Opened, Captured
<1>6. ~Live /\ \A kinds : ~Returned(kinds)
  BY <1>4 DEF Live, Returned, Captured
<1>7. SteadyInv /\ ViewInv /\ HashInv /\ AdmitInv /\ DoneInv
  BY <1>4, <1>6 DEF SteadyInv, ViewInv, HashInv, AdmitInv, DoneInv
<1>8. PlanInv
  BY <1>4, <1>6 DEF PlanInv
<1> QED BY <1>3, <1>5, <1>7, <1>8 DEF IndInv

LEMMA BeginKeeps ==
  ASSUME IndInv, Begin
  PROVE  IndInv'
<1>1. PICK kind \in Kinds, contract \in Contracts :
        /\ call' = [Idle EXCEPT !.pc = "stat", !.kind = kind,
                                !.contract = contract]
        /\ FilesStill
  BY DEF Begin, Step, FilesStill, fileVars
<1>2. /\ call'.pc = "stat" /\ call'.kind = kind /\ call'.contract = contract
      /\ call'.err = "none" /\ call'.view = NoView /\ call'.region = 1
  BY <1>1 DEF Idle
<1>3. call'.read = <<>> /\ call'.objects = <<>> /\ call'.next = 1
  BY <1>1 DEF Idle
<1>4. Shape(call')
  BY <1>1, IdleFields DEF Shape
<1>5. StartInv'
  BY <1>2, <1>3, <1>4 DEF StartInv, Pcs, Opened, Captured
<1>6. FileInv'
  BY <1>1, FilesKeep DEF IndInv
<1> QED BY <1>2, <1>5, <1>6, EarlyKeeps

\* The steps of open, when they do not fail.
LEMMA OpeningKeeps ==
  ASSUME IndInv, FilesStill, Shape(call'),
         call.pc \in {"stat", "open", "compare"},
         call'.pc \in {"open", "compare", "capture"},
         call'.pc # "open" => call'.inode \in Inodes,
         call'.kind = call.kind, call'.contract = call.contract,
         call'.view = call.view, call'.region = call.region,
         call'.read = call.read, call'.objects = call.objects,
         call'.next = call.next, call'.err = call.err
  PROVE  IndInv'
<1>1. call.view = NoView
  BY DEF IndInv, ViewInv, Captured
<1>2. StartInv'
  <2>1. /\ call'.pc \in Pcs /\ call'.pc # "done"
        /\ call.pc \notin {"hashing", "admitting", "done"}
        /\ call'.pc \in Opened => call'.pc # "open"
    BY DEF Pcs, Opened, Captured
  <2> QED BY <2>1 DEF IndInv, StartInv
<1> QED BY <1>1, <1>2, FilesKeep, EarlyKeeps DEF IndInv

LEMMA StatPathKeeps ==
  ASSUME IndInv, StatPath
  PROVE  IndInv'
<1>1. CASE Fail("Io")
  BY <1>1, FailKeeps DEF StatPath
<1>2. CASE Step([call EXCEPT !.pc = "open", !.before = Stamp(path)])
  <2>1. /\ call' = [call EXCEPT !.pc = "open", !.before = Stamp(path)]
        /\ FilesStill /\ Shape(call) /\ call.pc = "stat"
    BY <1>2 DEF StatPath, Step, FilesStill, fileVars, IndInv, StartInv
  <2>2. Shape(call')
    BY <2>1 DEF Shape
  <2>3. /\ call'.pc = "open" /\ call'.kind = call.kind
        /\ call'.contract = call.contract
        /\ call'.view = call.view /\ call'.region = call.region
    BY <2>1, IdleFields DEF Shape
  <2>4. /\ call'.read = call.read /\ call'.objects = call.objects
        /\ call'.next = call.next /\ call'.err = call.err
    BY <2>1, IdleFields DEF Shape
  <2> QED BY <2>1, <2>2, <2>3, <2>4, OpeningKeeps
<1> QED BY <1>1, <1>2 DEF StatPath

LEMMA OpenPathKeeps ==
  ASSUME IndInv, OpenPath
  PROVE  IndInv'
<1>1. CASE Fail("Io")
  BY <1>1, FailKeeps DEF OpenPath
<1>2. CASE path # NoFile
  <2>1. /\ call' = [call EXCEPT !.pc = "compare", !.inode = path]
        /\ FilesStill /\ Shape(call) /\ call.pc = "open" /\ path \in Inodes
    BY <1>2 DEF OpenPath, Step, FilesStill, fileVars, IndInv, StartInv,
                FileInv
  <2>2. Shape(call')
    BY <2>1 DEF Shape
  <2>3. /\ call'.pc = "compare" /\ call'.kind = call.kind
        /\ call'.contract = call.contract /\ call'.inode = path
        /\ call'.view = call.view /\ call'.region = call.region
    BY <2>1, IdleFields DEF Shape
  <2>4. /\ call'.read = call.read /\ call'.objects = call.objects
        /\ call'.next = call.next /\ call'.err = call.err
    BY <2>1, IdleFields DEF Shape
  <2> QED BY <2>1, <2>2, <2>3, <2>4, OpeningKeeps
<1> QED BY <1>1, <1>2 DEF OpenPath

LEMMA CompareKeeps ==
  ASSUME IndInv, Compare
  PROVE  IndInv'
<1>1. CASE Fail("Io")
  BY <1>1, FailKeeps DEF Compare
<1>2. CASE Goto("capture")
  <2>1. Shape(call) /\ call.pc = "compare" /\ call.inode \in Inodes
    BY DEF Compare, IndInv, StartInv, Opened
  <2>2. /\ FilesStill /\ Like(call', call) /\ call'.pc = "capture"
        /\ call'.view = call.view
    BY <1>2, <2>1, GotoIs
  <2> QED BY <2>1, <2>2, OpeningKeeps DEF Like
<1> QED BY <1>1, <1>2 DEF Compare

\* The stamp and the content are those of one moment.
LEMMA CaptureKeeps ==
  ASSUME IndInv, Capture
  PROVE  IndInv'
<1> DEFINE stamp == Stamp(call.inode)
<1>1. /\ call' = [call EXCEPT !.pc = "precheck", !.stamp = stamp,
                              !.snapshot = Current]
      /\ FilesStill /\ Shape(call) /\ call.pc = "capture"
      /\ call.inode \in Inodes /\ call.view = NoView
  BY DEF Capture, Step, FilesStill, fileVars, IndInv, StartInv, ViewInv,
         Opened, Captured
<1>2. Shape(call')
  BY <1>1 DEF Shape
<1> HIDE DEF stamp
<1>3. /\ call'.pc = "precheck" /\ call'.kind = call.kind
      /\ call'.contract = call.contract /\ call'.inode = call.inode
      /\ call'.stamp = stamp /\ call'.snapshot = Current
  BY <1>1, IdleFields DEF Shape
<1>4. /\ call'.read = call.read /\ call'.objects = call.objects
      /\ call'.next = call.next /\ call'.err = call.err
      /\ call'.view = call.view /\ call'.region = call.region
  BY <1>1, IdleFields DEF Shape
<1>5. StartInv'
  BY <1>1, <1>2, <1>3, <1>4 DEF IndInv, StartInv, Pcs, Opened, Captured
<1>6. SteadyInv'
  <2>1. /\ Current \in FileContents /\ disk[call.inode].time \in Nat
        /\ disk[call.inode].time <= changes
    BY <1>1 DEF IndInv, FileInv, Current
  <2>2. stamp = [inode |-> call.inode, length |-> Len(Current),
                 time |-> disk[call.inode].time]
    BY DEF stamp, Stamp, Current
  <2>3. stamp.time = disk[call.inode].time
    BY <2>2
  <2>4. Current' = call'.snapshot
    BY <1>1, <1>3 DEF Current, FilesStill
  <2> QED BY <1>1, <1>3, <2>1, <2>2, <2>3, <2>4
          DEF SteadyInv, FilesStill
<1>7. ViewInv' /\ PlanInv'
  BY <1>1, <1>3, <1>4 DEF ViewInv, PlanInv, Returned, Captured
<1>8. HashInv' /\ AdmitInv' /\ DoneInv'
  BY <1>3 DEF HashInv, AdmitInv, DoneInv, Returned
<1>9. FileInv'
  BY <1>1, FilesKeep DEF IndInv
<1> QED BY <1>5, <1>6, <1>7, <1>8, <1>9 DEF IndInv

LEMMA PrecheckKeeps ==
  ASSUME IndInv, Precheck
  PROVE  IndInv'
<1>1. CASE Fail("SourceChanged")
  BY <1>1, FailKeeps DEF Precheck
<1>2. CASE Goto("prefix")
  <2>1. Shape(call) /\ call.pc = "precheck" /\ call.view = NoView
    BY DEF Precheck, IndInv, StartInv, ViewInv, Captured
  <2>2. /\ FilesStill /\ Like(call', call) /\ call'.pc = "prefix"
        /\ call'.view = NoView
    BY <1>2, <2>1, GotoIs
  <2>3. ViewInv' /\ PlanInv'
    BY <2>2 DEF ViewInv, PlanInv, Returned, Captured
  <2> QED BY <2>1, <2>2, <2>3, HeaderKeeps DEF HeadPcs, Captured
<1> QED BY <1>1, <1>2 DEF Precheck

\* A read of the header fails, or adds one cell to the view.
LEMMA CellRead ==
  ASSUME IndInv, NEW field, NEW at, NEW pc, ReadCell(field, at, pc)
  PROVE  /\ FilesStill /\ Like(call', call)
         /\ \/ call'.pc = "recheck" /\ call'.plan = Refused("Read")
            \/ /\ call'.pc = pc
               /\ call'.view = [call.view EXCEPT ![field] = Current[at]]
<1> DEFINE v == [call.view EXCEPT ![field] = Current[at]]
           good == [call EXCEPT !.pc = pc, !.view = v]
           bad == [call EXCEPT !.pc = "recheck", !.plan = Refused("Read")]
<1>1. FilesStill /\ Shape(call)
  BY DEF ReadCell, Step, FilesStill, fileVars, IndInv, StartInv
<1>2. call' = good \/ call' = bad
  BY DEF ReadCell, Step
<1>3. Shape(good) /\ Shape(bad)
  BY <1>1 DEF Shape
<1> HIDE DEF v
<1>4. /\ good.pc = pc /\ good.view = v /\ good.kind = call.kind
      /\ good.contract = call.contract /\ good.inode = call.inode
      /\ good.stamp = call.stamp /\ good.snapshot = call.snapshot
  BY <1>1, IdleFields DEF Shape
<1>5. /\ good.region = call.region /\ good.read = call.read
      /\ good.objects = call.objects /\ good.next = call.next
      /\ good.err = call.err
  BY <1>1, IdleFields DEF Shape
<1>6. /\ bad.pc = "recheck" /\ bad.plan = Refused("Read")
      /\ bad.kind = call.kind
      /\ bad.contract = call.contract /\ bad.inode = call.inode
      /\ bad.stamp = call.stamp /\ bad.snapshot = call.snapshot
  BY <1>1, IdleFields DEF Shape
<1>7. /\ bad.region = call.region /\ bad.read = call.read
      /\ bad.objects = call.objects /\ bad.next = call.next
      /\ bad.err = call.err
  BY <1>1, IdleFields DEF Shape
<1> HIDE DEF good, bad
<1>8. CASE call' = good
  BY <1>1, <1>3, <1>4, <1>5, <1>8 DEF Like, v
<1>9. CASE call' = bad
  BY <1>1, <1>3, <1>6, <1>7, <1>9 DEF Like
<1> QED BY <1>2, <1>8, <1>9

\* A refused plan needs no view.
LEMMA RefusedKeeps ==
  ASSUME IndInv, FilesStill, Like(call', call), call.pc \in HeadPcs,
         call'.pc = "recheck", call'.plan = Refused("Read")
  PROVE  IndInv'
<1>1. call'.plan.err = "Read"
  BY SMT DEF Refused
<1>2. ViewInv' /\ PlanInv'
  BY <1>1 DEF ViewInv, PlanInv, Returned, Captured
<1> QED BY <1>2, HeaderKeeps DEF HeadPcs, Captured

LEMMA ReadPrefixKeeps ==
  ASSUME IndInv, ReadPrefix
  PROVE  IndInv'
<1>1. /\ call.pc = "prefix" /\ Shape(call) /\ call.view = NoView /\ Live
      /\ call.pc \in HeadPcs /\ "planned" \in HeadPcs /\ "header" \in HeadPcs
  BY DEF ReadPrefix, IndInv, StartInv, ViewInv, HeadPcs, Captured, Live
<1>2. /\ call.snapshot \in FileContents
      /\ call.stamp = [inode |-> call.inode, length |-> Len(call.snapshot),
                       time |-> call.stamp.time]
      /\ Unchanged => Current = call.snapshot
  BY <1>1 DEF IndInv, SteadyInv
<1>3. call.stamp.length = Len(call.snapshot) /\ Len(call.snapshot) \in Nat
  BY <1>2, FilesAreCells, SMT
<1>4. CASE call.stamp.length < 2
  <2>1. Goto("planned")
    BY <1>4 DEF ReadPrefix
  <2>2. /\ FilesStill /\ Like(call', call) /\ call'.pc = "planned"
        /\ call'.view = NoView
    BY <1>1, <2>1, GotoIs
  <2>3. View(call'.snapshot) = NoView
    BY <1>3, <1>4, <2>2 DEF View, Like
  <2>4. ViewInv' /\ PlanInv'
    BY <2>2, <2>3 DEF ViewInv, PlanInv, Returned, Captured
  <2> QED BY <1>1, <2>2, <2>4, HeaderKeeps
<1>5. CASE ~(call.stamp.length < 2)
  <2>1. ReadCell("prefix", 1, "header")
    BY <1>5 DEF ReadPrefix
  <2>2. FilesStill /\ Like(call', call)
    BY <2>1, CellRead
  <2>3. CASE call'.pc = "recheck" /\ call'.plan = Refused("Read")
    BY <1>1, <2>2, <2>3, RefusedKeeps
  <2>4. CASE /\ call'.pc = "header"
             /\ call'.view = [call.view EXCEPT !["prefix"] = Current[1]]
    <3>1. Len(call'.snapshot) >= 2
      <4>1. Len(call.snapshot) >= 2
        BY <1>3, <1>5, SMT
      <4> QED BY <2>2, <4>1 DEF Like
    <3>2. Unchanged' => call'.view = Seen(1)'
      <4>1. Unchanged' <=> Unchanged
        BY <2>2, SameSource DEF Like
      <4>2. Seen(1)' = [NoView EXCEPT !.prefix = call.snapshot[1]]
        BY <2>2 DEF Seen, Like
      <4> QED BY <1>1, <1>2, <2>4, <4>1, <4>2
    <3>3. ViewInv' /\ PlanInv'
      BY <2>4, <3>1, <3>2 DEF ViewInv, PlanInv, Returned, Captured
    <3> QED BY <1>1, <2>2, <2>4, <3>3, HeaderKeeps
  <2> QED BY <2>1, <2>3, <2>4, CellRead
<1> QED BY <1>4, <1>5

LEMMA ReadHeaderKeeps ==
  ASSUME IndInv, ReadHeader
  PROVE  IndInv'
<1>1. /\ call.pc = "header" /\ Live /\ Len(call.snapshot) >= 2
      /\ call.pc \in HeadPcs /\ "directory" \in HeadPcs
      /\ Unchanged => call.view = Seen(1)
  BY DEF ReadHeader, IndInv, ViewInv, HeadPcs, Captured, Live
<1>2. Unchanged => Current = call.snapshot
  BY <1>1 DEF IndInv, SteadyInv
<1>3. ReadCell("header", 2, "directory")
  BY DEF ReadHeader
<1>4. FilesStill /\ Like(call', call)
  BY <1>3, CellRead
<1>5. CASE call'.pc = "recheck" /\ call'.plan = Refused("Read")
  BY <1>1, <1>4, <1>5, RefusedKeeps
<1>6. CASE /\ call'.pc = "directory"
           /\ call'.view = [call.view EXCEPT !["header"] = Current[2]]
  <2>1. Unchanged' => call'.view = Seen(2)'
    <3>1. Unchanged' <=> Unchanged
      BY <1>4, SameSource DEF Like
    <3>2. Seen(2)' = [NoView EXCEPT !.prefix = call.snapshot[1],
                                    !.header = call.snapshot[2]]
      <4>1. 2 # 1
        BY SMT
      <4> QED BY <1>4, <4>1 DEF Seen, Like
    <3>3. Seen(1) = [NoView EXCEPT !.prefix = call.snapshot[1]]
      BY DEF Seen
    <3>4. [[NoView EXCEPT !.prefix = call.snapshot[1]] EXCEPT
              !["header"] = call.snapshot[2]] =
          [NoView EXCEPT !.prefix = call.snapshot[1],
                         !.header = call.snapshot[2]]
      BY DEF NoView
    <3> QED BY <1>1, <1>2, <1>6, <3>1, <3>2, <3>3, <3>4
  <2>2. ViewInv' /\ PlanInv'
    BY <1>1, <1>4, <1>6, <2>1
       DEF ViewInv, PlanInv, Returned, Captured, Like
  <2> QED BY <1>1, <1>4, <1>6, <2>2, HeaderKeeps
<1> QED BY <1>3, <1>5, <1>6, CellRead

LEMMA ReadDirectoryKeeps ==
  ASSUME IndInv, ReadDirectory
  PROVE  IndInv'
<1> DEFINE at == DirectoryAt(call.view, call.stamp.length)
<1>1. /\ call.pc = "directory" /\ Live /\ Shape(call)
      /\ Len(call.snapshot) >= 2
      /\ call.pc \in HeadPcs /\ "planned" \in HeadPcs
      /\ Unchanged => call.view = Seen(2)
  BY DEF ReadDirectory, IndInv, StartInv, ViewInv, HeadPcs, Captured, Live
<1>2. /\ call.stamp = [inode |-> call.inode, length |-> Len(call.snapshot),
                       time |-> call.stamp.time]
      /\ Unchanged => Current = call.snapshot
      /\ call.snapshot \in FileContents
  BY <1>1 DEF IndInv, SteadyInv
<1>3. call.stamp.length = Len(call.snapshot)
  BY <1>2, SMT
<1>4. ~(Len(call.snapshot) < 2)
  BY <1>1, <1>2, FilesAreCells, SMT
<1>5. Seen(2) = [NoView EXCEPT !.prefix = call.snapshot[1],
                               !.header = call.snapshot[2]]
  <2>1. 2 # 1
    BY SMT
  <2> QED BY <2>1 DEF Seen
<1>6. Unchanged =>
        View(call.snapshot) = IF at = 0 THEN call.view
                              ELSE [call.view EXCEPT !.directory = Current[at]]
  BY <1>1, <1>2, <1>3, <1>4, <1>5 DEF View
<1> HIDE DEF at
<1>7. CASE at = 0
  <2>1. Goto("planned")
    BY <1>7 DEF ReadDirectory, at
  <2>2. /\ FilesStill /\ Like(call', call) /\ call'.pc = "planned"
        /\ call'.view = call.view
    BY <1>1, <2>1, GotoIs
  <2>3. Unchanged' <=> Unchanged
    BY <2>2, SameSource DEF Like
  <2>4. ViewInv' /\ PlanInv'
    BY <1>6, <1>7, <2>2, <2>3
       DEF ViewInv, PlanInv, Returned, Captured, Like
  <2> QED BY <1>1, <2>2, <2>4, HeaderKeeps
<1>8. CASE at # 0
  <2>1. ReadCell("directory", at, "planned")
    BY <1>8 DEF ReadDirectory, at
  <2>2. FilesStill /\ Like(call', call)
    BY <2>1, CellRead
  <2>3. CASE call'.pc = "recheck" /\ call'.plan = Refused("Read")
    BY <1>1, <2>2, <2>3, RefusedKeeps
  <2>4. CASE /\ call'.pc = "planned"
             /\ call'.view = [call.view EXCEPT !["directory"] = Current[at]]
    <3>1. Unchanged' <=> Unchanged
      BY <2>2, SameSource DEF Like
    <3>2. ViewInv' /\ PlanInv'
      BY <1>6, <1>8, <2>2, <2>4, <3>1
         DEF ViewInv, PlanInv, Returned, Captured, Like
    <3> QED BY <1>1, <2>2, <2>4, <3>2, HeaderKeeps
  <2> QED BY <2>1, <2>3, <2>4, CellRead
<1> QED BY <1>7, <1>8

\* An unchanged file's plan is its snapshot's.
LEMMA MakePlanKeeps ==
  ASSUME IndInv, MakePlan
  PROVE  IndInv'
<1> DEFINE plan == Planned(call.view, call.stamp.length, call.contract)
<1>1. /\ call' = [call EXCEPT !.pc = "recheck", !.plan = plan]
      /\ FilesStill /\ Shape(call) /\ call.pc = "planned" /\ Live
      /\ Unchanged => call.view = View(call.snapshot)
  BY DEF MakePlan, Step, FilesStill, fileVars, IndInv, StartInv, ViewInv,
         Live, Captured
<1>2. call.stamp.length = Len(call.snapshot)
  <2>1. call.stamp = [inode |-> call.inode, length |-> Len(call.snapshot),
                      time |-> call.stamp.time]
    BY <1>1 DEF IndInv, SteadyInv
  <2> QED BY <2>1, SMT
<1>3. Unchanged => plan = SnapshotPlan
  BY <1>1, <1>2 DEF SnapshotPlan
<1> HIDE DEF plan
<1>4. Shape(call')
  BY <1>1 DEF Shape
<1>5. /\ call'.pc = "recheck" /\ call'.plan = plan /\ call'.kind = call.kind
      /\ call'.contract = call.contract /\ call'.inode = call.inode
      /\ call'.stamp = call.stamp
  BY <1>1, IdleFields DEF Shape
<1>6. /\ call'.snapshot = call.snapshot /\ call'.region = call.region
      /\ call'.read = call.read /\ call'.objects = call.objects
      /\ call'.next = call.next /\ call'.err = call.err
  BY <1>1, IdleFields DEF Shape
<1>7. Like(call', call)
  BY <1>4, <1>5, <1>6 DEF Like
<1>8. (Unchanged' <=> Unchanged) /\ SnapshotPlan' = SnapshotPlan
  BY <1>1, <1>5, <1>6, SameSource
<1>9. ViewInv' /\ PlanInv'
  BY <1>3, <1>5, <1>8 DEF ViewInv, PlanInv, Returned, Captured
<1> QED BY <1>1, <1>5, <1>7, <1>9, HeaderKeeps DEF HeadPcs, Captured

\* A call that returns without an error.
LEMMA ReturnKeeps ==
  ASSUME IndInv, FilesStill, call.pc \in Captured, Shape(call'),
         call'.pc = "done", call'.err = "none", call'.kind = call.kind,
         call'.contract = call.contract, call'.inode = call.inode,
         call'.stamp = call.stamp, call'.snapshot = call.snapshot,
         PlanInv', HashInv', DoneInv'
  PROVE  IndInv'
<1>1. (Unchanged' <=> Unchanged) /\ Current' = Current
  BY SameSource
<1>2. FileInv'
  BY FilesKeep DEF IndInv
<1>3. StartInv'
  BY DEF IndInv, StartInv, Pcs, Opened, Captured
<1>4. SteadyInv'
  <2>1. Live
    BY DEF Live
  <2> QED BY <1>1, <2>1 DEF IndInv, SteadyInv, FilesStill
<1>5. ViewInv' /\ AdmitInv'
  BY DEF ViewInv, AdmitInv
<1> QED BY <1>2, <1>3, <1>4, <1>5 DEF IndInv

\* The plan of a file that is still unchanged is its snapshot's.
LEMMA RecheckKeeps ==
  ASSUME IndInv, Recheck
  PROVE  IndInv'
<1>1. call.pc = "recheck" /\ Shape(call) /\ call.kind \in Kinds
  BY DEF Recheck, IndInv, StartInv
<1>2. CASE ~Unchanged
  BY <1>1, <1>2, FailKeeps DEF Recheck
<1>3. CASE Unchanged /\ call.plan.err # "none"
  BY <1>1, <1>3, FailKeeps DEF Recheck
<1>4. CASE Unchanged /\ call.plan.err = "none"
  <2> DEFINE pc == IF call.kind = "plan" THEN "done" ELSE call.kind
  <2>1. Goto(pc)
    BY <1>4 DEF Recheck
  <2>2. call.plan = SnapshotPlan /\ call.err = "none"
    BY <1>1, <1>4 DEF IndInv, PlanInv, StartInv
  <2>3. /\ FilesStill /\ Like(call', call) /\ call'.pc = pc
        /\ call'.plan = call.plan
    BY <1>1, <2>1, GotoIs
  <2>4. SnapshotPlan' = SnapshotPlan
    BY <2>3, SameSource DEF Like
  <2>5. CASE call.kind = "plan"
    <3>1. call'.pc = "done" /\ call'.kind = "plan"
      BY <2>3, <2>5 DEF Like
    <3>2. PlanInv'
      BY <2>2, <2>3, <2>4, <3>1 DEF PlanInv
    <3>3. HashInv' /\ DoneInv'
      BY <3>1 DEF HashInv, DoneInv, Returned
    <3> QED BY <1>1, <2>2, <2>3, <3>1, <3>2, <3>3, ReturnKeeps
            DEF Like, Captured
  <2>6. CASE call.kind # "plan"
    <3>1. /\ call'.pc = call.kind /\ call'.kind = call.kind
          /\ call.kind \in {"hash", "admit"}
      BY <1>1, <2>3, <2>6 DEF Like, Kinds
    <3>2. PlanInv'
      BY <2>2, <2>3, <2>4, <3>1 DEF PlanInv
    <3>3. ViewInv'
      BY <3>1 DEF ViewInv, Captured
    <3> QED BY <1>1, <2>3, <3>1, <3>2, <3>3, HeaderKeeps
            DEF HeadPcs, Captured
  <2> QED BY <2>5, <2>6
<1> QED BY <1>2, <1>3, <1>4

-----------------------------------------------------------------------------
(* hash_plan.                                                              *)

\* What a step of hash_plan leaves alone.
LEMMA HashingKeeps ==
  ASSUME IndInv, FilesStill, Shape(call'), call.pc \in {"hash", "hashing"},
         call'.pc = "hashing", call'.err = call.err, call'.kind = call.kind,
         call'.contract = call.contract, call'.inode = call.inode,
         call'.stamp = call.stamp, call'.snapshot = call.snapshot,
         call'.plan = call.plan, HashInv'
  PROVE  IndInv'
<1>1. /\ (Unchanged' <=> Unchanged) /\ Current' = Current
      /\ SnapshotPlan' = SnapshotPlan
  BY SameSource
<1>2. FileInv'
  BY FilesKeep DEF IndInv
<1>3. StartInv'
  BY DEF IndInv, StartInv, Pcs, Opened, Captured
<1>4. SteadyInv'
  <2>1. Live
    BY DEF Live, Captured
  <2> QED BY <1>1, <2>1 DEF IndInv, SteadyInv, FilesStill
<1>5. ViewInv' /\ AdmitInv' /\ DoneInv'
  BY DEF ViewInv, AdmitInv, DoneInv, Returned, Captured
<1>6. PlanInv'
  BY <1>1 DEF IndInv, PlanInv
<1> QED BY <1>2, <1>3, <1>4, <1>5, <1>6 DEF IndInv

\* The ranges of the plan, and the snapshot's cells.
LEMMA HashFacts ==
  ASSUME IndInv, call.pc \in {"hash", "hashing", "admit", "admitting"}
  PROVE  LET rs == call.plan.regions IN
         /\ call.snapshot \in Seq(FileCells) /\ Current \in Seq(FileCells)
         /\ Unchanged => Current = call.snapshot
         /\ call.plan = SnapshotPlan /\ Shape(call)
         /\ rs \in Seq(Regions) /\ Len(rs) \in Nat /\ DOMAIN rs = 1..Len(rs)
         /\ \A i \in DOMAIN rs : rs[i].offset \in Nat /\ rs[i].length \in Nat
<1>1. Live
  BY DEF Live, Captured
<1>2. /\ call.snapshot \in FileContents /\ call.inode \in Inodes
      /\ Unchanged => Current = call.snapshot
  BY <1>1 DEF IndInv, SteadyInv
<1>3. Current \in FileContents
  BY <1>2 DEF Current, IndInv, FileInv
<1>4. call.plan = SnapshotPlan /\ Shape(call) /\ call.contract \in Contracts
  BY DEF IndInv, PlanInv, StartInv
<1> QED BY <1>2, <1>3, <1>4, FilesAreCells, RangesOf

LEMMA HashBeginKeeps ==
  ASSUME IndInv, HashBegin
  PROVE  IndInv'
<1>1. CASE Fail("SourceChanged")
  BY <1>1, FailKeeps DEF HashBegin
<1>2. CASE Goto("hashing")
  <2> DEFINE rs == call.plan.regions
  <2>1. /\ call.pc = "hash" /\ Shape(call)
        /\ call.region = 1 /\ call.read = <<>> /\ call.objects = <<>>
    BY DEF HashBegin, IndInv, StartInv
  <2>2. /\ FilesStill /\ Like(call', call) /\ call'.pc = "hashing"
        /\ call'.plan = call.plan
    BY <1>2, <2>1, GotoIs
  <2>3. /\ call'.region = 1 /\ call'.read = <<>> /\ call'.objects = <<>>
        /\ call'.plan.regions = rs /\ call'.snapshot = call.snapshot
    BY <2>1, <2>2 DEF Like
  <2>4. /\ Len(rs) \in Nat /\ DOMAIN rs = 1..Len(rs)
        /\ call.snapshot \in Seq(FileCells)
        /\ \A i \in DOMAIN rs : rs[i].offset \in Nat /\ rs[i].length \in Nat
    BY <2>1, HashFacts
  <2> HIDE DEF rs
  <2>5. /\ 1 \in Nat \ {0} /\ 1 <= Len(rs) + 1 /\ <<>> \in Seq(Seq(FileCells))
        /\ Len(<<>>) = 1 - 1 /\ <<>> \in Seq(FileCells) /\ 1..(1 - 1) = {}
    BY <2>4, SMT
  <2>6. 1 <= Len(rs) => /\ Len(<<>>) <= rs[1].length
                        /\ <<>> = Slice(call.snapshot, rs[1].offset, Len(<<>>))
    <3>1. 1 <= Len(rs) => 1 \in DOMAIN rs
      BY <2>4, SMT
    <3>2. Len(<<>>) = 0 /\ \A n \in Nat : 0 <= n
      BY SMT
    <3>3. ASSUME 1 <= Len(rs)
          PROVE  Slice(call.snapshot, rs[1].offset, Len(<<>>)) = <<>>
      BY <2>4, <3>1, <3>3, EmptySlice
    <3> QED BY <2>4, <3>1, <3>2, <3>3
  <2>7. HashInv'
    BY <2>2, <2>3, <2>5, <2>6 DEF HashInv, Returned
  <2> QED BY <2>1, <2>2, <2>7, HashingKeeps DEF Like
<1> QED BY <1>1, <1>2 DEF HashBegin

\* Another buffer of the region in hand.
LEMMA HashBlockKeeps ==
  ASSUME IndInv, HashBlock
  PROVE  IndInv'
<1> DEFINE rs == call.plan.regions
           r == rs[call.region]
           at == r.offset + Len(call.read)
           n == Min({HashBuffer, r.length - Len(call.read)})
           read == call.read \o Slice(Current, at, n)
           more == [call EXCEPT !.read = read]
           over == [call EXCEPT !.read = <<>>, !.region = call.region + 1,
                                !.objects = Append(call.objects, read)]
<1>1. call.pc = "hashing" /\ call.region <= Len(rs)
  BY DEF HashBlock
<1>2. /\ call.snapshot \in Seq(FileCells) /\ Current \in Seq(FileCells)
      /\ Unchanged => Current = call.snapshot
      /\ Shape(call) /\ Len(rs) \in Nat /\ DOMAIN rs = 1..Len(rs)
      /\ \A i \in DOMAIN rs : rs[i].offset \in Nat /\ rs[i].length \in Nat
  BY <1>1, HashFacts
<1>3. /\ call.region \in Nat \ {0}
      /\ call.objects \in Seq(Seq(FileCells))
      /\ Len(call.objects) = call.region - 1
      /\ call.read \in Seq(FileCells) /\ Len(call.read) <= r.length
      /\ Unchanged => call.read = Slice(call.snapshot, r.offset,
                                        Len(call.read))
      /\ Unchanged =>
           \A i \in 1..(call.region - 1) :
             call.objects[i] = Slice(call.snapshot, rs[i].offset, rs[i].length)
  BY <1>1 DEF IndInv, HashInv
<1>4. CASE ~Readable(at, n)
  BY <1>1, <1>4, FailKeeps DEF HashBlock
<1>5. CASE Readable(at, n)
  <2>1. /\ call' = IF Len(read) < r.length THEN more ELSE over
        /\ FilesStill
    BY <1>5 DEF HashBlock, Step, FilesStill, fileVars
  <2>2. Shape(more) /\ Shape(over)
    BY <1>2 DEF Shape
  <2>3. call.region \in DOMAIN rs /\ r.offset \in Nat /\ r.length \in Nat
    <3>1. call.region \in DOMAIN rs
      BY <1>1, <1>2, <1>3, SMT
    <3> QED BY <1>2, <3>1
  <2> HIDE DEF r, rs
  <2>4. /\ Len(call.read) \in Nat /\ r.length - Len(call.read) \in Nat
        /\ HashBuffer \in Nat
    BY <1>3, <2>3, IngestAssumption, SMT
  <2>5. n \in Nat /\ n <= r.length - Len(call.read) /\ at \in Nat
    <3>1. n \in Nat /\ n <= r.length - Len(call.read)
      BY <2>4, LeastOfTwo
    <3>2. at \in Nat
      BY <2>3, <2>4, SMT
    <3> QED BY <3>1, <3>2
  <2>6. at + n <= Len(Current)
    BY <1>5 DEF Readable
  <2> HIDE DEF n
  <2>7. /\ read \in Seq(FileCells) /\ Len(read) = Len(call.read) + n
        /\ Len(read) <= r.length
    <3> DEFINE s == Slice(Current, at, n)
    <3>1. s \in Seq(FileCells) /\ Len(s) = n
      BY <1>2, <2>5, <2>6, SliceFits
    <3> HIDE DEF s
    <3>2. call.read \o s \in Seq(FileCells)
          /\ Len(call.read \o s) = Len(call.read) + n
      BY <1>3, <3>1, Joined
    <3> HIDE DEF at
    <3>3. Len(call.read) + n <= r.length
      BY <2>3, <2>4, <2>5, SMT
    <3> QED BY <3>2, <3>3 DEF s
  <2>8. Unchanged => read = Slice(call.snapshot, r.offset, Len(read))
    <3> SUFFICES ASSUME Unchanged
                 PROVE  read = Slice(call.snapshot, r.offset, Len(read))
      OBVIOUS
    <3>1. Slice(call.snapshot, r.offset, Len(call.read))
            \o Slice(call.snapshot, r.offset + Len(call.read), n) =
          Slice(call.snapshot, r.offset, Len(call.read) + n)
      <4>1. r.offset + Len(call.read) + n <= Len(call.snapshot)
        BY <1>2, <2>6
      <4>2. /\ call.snapshot \in Seq(FileCells) /\ r.offset \in Nat
            /\ Len(call.read) \in Nat /\ n \in Nat
        BY <1>2, <2>3, <2>4, <2>5
      <4> HIDE DEF at, read
      <4> QED BY ONLY <4>1, <4>2, SlicesJoin
    <3> QED BY <1>2, <1>3, <2>7, <3>1
  <2> HIDE DEF read
  <2>9. /\ (Unchanged' <=> Unchanged)
        /\ call'.pc = call.pc /\ call'.kind = call.kind
        /\ call'.contract = call.contract /\ call'.inode = call.inode
        /\ call'.stamp = call.stamp /\ call'.snapshot = call.snapshot
        /\ call'.plan = call.plan /\ call'.err = call.err
    <3>1. /\ more.pc = call.pc /\ more.kind = call.kind
          /\ more.contract = call.contract /\ more.inode = call.inode
          /\ more.stamp = call.stamp /\ more.snapshot = call.snapshot
          /\ more.plan = call.plan /\ more.err = call.err
      BY <1>2, IdleFields DEF Shape
    <3>2. /\ over.pc = call.pc /\ over.kind = call.kind
          /\ over.contract = call.contract /\ over.inode = call.inode
          /\ over.stamp = call.stamp /\ over.snapshot = call.snapshot
          /\ over.plan = call.plan /\ over.err = call.err
      BY <1>2, IdleFields DEF Shape
    <3> HIDE DEF more, over
    <3>3. call' = more \/ call' = over
      BY <2>1
    <3>4. /\ call'.pc = call.pc /\ call'.kind = call.kind
          /\ call'.contract = call.contract /\ call'.inode = call.inode
          /\ call'.stamp = call.stamp /\ call'.snapshot = call.snapshot
          /\ call'.plan = call.plan /\ call'.err = call.err
      BY <3>1, <3>2, <3>3
    <3> QED BY <2>1, <3>4, SameSource
  <2>10. HashInv'
    <3>1. CASE Len(read) < r.length
      <4>1. /\ call' = more /\ call'.read = read
            /\ call'.region = call.region /\ call'.objects = call.objects
        BY <1>2, <2>1, <3>1, IdleFields DEF Shape
      <4> HIDE DEF more, over
      <4>2. call.region <= Len(rs) + 1
        BY <1>1, <1>2, <1>3, SMT DEF rs
      <4> QED BY <1>1, <1>3, <2>7, <2>8, <2>9, <4>1, <4>2
              DEF HashInv, Returned, rs, r
    <3>2. CASE ~(Len(read) < r.length)
      <4> DEFINE objects == Append(call.objects, read)
                 next == call.region + 1
      <4>1. /\ call' = over /\ call'.read = <<>>
            /\ call'.region = next /\ call'.objects = objects
        BY <1>2, <2>1, <3>2, IdleFields DEF Shape
      <4> HIDE DEF more, over
      <4>2. Len(read) = r.length
        BY <2>3, <2>4, <2>5, <2>7, <3>2, SMT
      <4>3. /\ next \in Nat \ {0} /\ next <= Len(rs) + 1
            /\ next - 1 = call.region
            /\ next <= Len(rs) => next \in DOMAIN rs
        <5>1. /\ call.region \in Nat \ {0} /\ call.region <= Len(rs)
              /\ Len(rs) \in Nat /\ DOMAIN rs = 1..Len(rs)
          BY <1>1, <1>2, <1>3
        <5> QED BY <5>1, SMT
      <4>4. /\ objects \in Seq(Seq(FileCells)) /\ Len(objects) = next - 1
            /\ objects[call.region] = read
            /\ \A i \in 1..(call.region - 1) : objects[i] = call.objects[i]
        BY <1>3, <2>7, SMT
      <4>5. \A i \in 1..(next - 1) :
              i = call.region \/ i \in 1..(call.region - 1)
        BY <1>3, SMT
      <4> HIDE DEF objects, next
      <4>6. Unchanged =>
              \A i \in 1..(next - 1) :
                objects[i] = Slice(call.snapshot, rs[i].offset, rs[i].length)
        BY <1>3, <2>8, <4>2, <4>4, <4>5 DEF r
      <4>7. <<>> \in Seq(FileCells) /\ Len(<<>>) = 0 /\ \A k \in Nat : 0 <= k
            /\ 0 \in Nat
        BY SMT
      <4>8. next <= Len(rs) =>
              /\ Len(<<>>) <= rs[next].length
              /\ <<>> = Slice(call.snapshot, rs[next].offset, Len(<<>>))
        <5> SUFFICES ASSUME next <= Len(rs)
                     PROVE  /\ 0 <= rs[next].length
                            /\ Slice(call.snapshot, rs[next].offset,
                                     Len(<<>>)) = <<>>
          BY <4>7
        <5>1. rs[next].offset \in Nat /\ rs[next].length \in Nat
          BY <1>2, <4>3 DEF rs
        <5> QED BY <1>2, <4>7, <5>1, EmptySlice
      <4>9. call'.plan.regions = rs /\ call'.snapshot = call.snapshot
        BY <2>9 DEF rs
      <4>10. ~Returned({"hash"})'
        BY <1>1, <2>9 DEF Returned
      <4>11. Unchanged' => Unchanged
        BY <2>9
      <4>12. /\ call'.region \in Nat \ {0} /\ call'.region <= Len(rs) + 1
             /\ call'.objects \in Seq(Seq(FileCells))
             /\ Len(call'.objects) = call'.region - 1
             /\ call'.read \in Seq(FileCells)
        BY <4>1, <4>3, <4>4, <4>7
      <4>13. call'.region <= Len(rs) =>
               /\ Len(call'.read) <= rs[call'.region].length
               /\ Unchanged' => call'.read = Slice(call'.snapshot,
                                 rs[call'.region].offset, Len(call'.read))
        BY <4>1, <4>8, <4>9
      <4>14. Unchanged' =>
               \A i \in 1..(call'.region - 1) :
                 call'.objects[i] = Slice(call'.snapshot, rs[i].offset,
                                          rs[i].length)
        BY <4>1, <4>6, <4>9, <4>11
      <4> QED BY <4>9, <4>10, <4>12, <4>13, <4>14 DEF HashInv
    <3> QED BY <3>1, <3>2
  <2>11. Shape(call')
    <3> HIDE DEF more, over
    <3> QED BY <2>1, <2>2
  <2> QED BY <1>1, <2>1, <2>9, <2>10, <2>11, HashingKeeps
<1> QED BY <1>4, <1>5

\* The hashes of a file that is still unchanged are its snapshot's.
LEMMA HashEndKeeps ==
  ASSUME IndInv, HashEnd
  PROVE  IndInv'
<1> DEFINE rs == call.plan.regions
<1>1. call.pc = "hashing" /\ call.region > Len(rs)
  BY DEF HashEnd
<1>2. CASE ~Unchanged
  BY <1>1, <1>2, FailKeeps DEF HashEnd
<1>3. CASE Unchanged
  <2>1. Goto("done")
    BY <1>3 DEF HashEnd
  <2>2. /\ Shape(call) /\ Len(rs) \in Nat /\ DOMAIN rs = 1..Len(rs)
        /\ call.plan = SnapshotPlan
    BY <1>1, HashFacts
  <2>3. /\ FilesStill /\ Like(call', call) /\ call'.pc = "done"
        /\ call'.plan = call.plan
    BY <2>1, <2>2, GotoIs
  <2>4. /\ call.region \in Nat \ {0} /\ call.region <= Len(rs) + 1
        /\ call.objects \in Seq(Seq(FileCells))
        /\ Len(call.objects) = call.region - 1
        /\ \A i \in 1..(call.region - 1) :
             call.objects[i] = Slice(call.snapshot, rs[i].offset, rs[i].length)
    BY <1>1, <1>3 DEF IndInv, HashInv
  <2>5. call.err = "none" /\ call.kind = "hash"
    BY <1>1 DEF IndInv, StartInv, PlanInv
  <2>6. call.objects = SnapshotObjects
    <3> HIDE DEF rs
    <3>1. call.region - 1 = Len(rs)
      BY <1>1, <2>2, <2>4, SMT
    <3>2. /\ DOMAIN call.objects = DOMAIN rs
          /\ call.objects = [i \in DOMAIN rs |-> call.objects[i]]
      <4>1. /\ call.objects \in Seq(Seq(FileCells))
            /\ Len(call.objects) = Len(rs) /\ DOMAIN rs = 1..Len(rs)
        BY <2>2, <2>4, <3>1
      <4> QED BY <4>1, SequenceIs
    <3>3. \A i \in DOMAIN rs :
            call.objects[i] = Slice(call.snapshot, rs[i].offset, rs[i].length)
      BY <2>2, <2>4, <3>1
    <3> QED BY <3>2, <3>3 DEF SnapshotObjects, rs
  <2>7. SnapshotPlan' = SnapshotPlan /\ SnapshotObjects' = SnapshotObjects
    <3>1. SnapshotPlan' = SnapshotPlan
      BY <2>3, SameSource DEF Like
    <3> QED BY <2>3, <3>1 DEF SnapshotObjects, Like
  <2>8. PlanInv' /\ HashInv' /\ DoneInv'
    <3>1. call'.kind = "hash" /\ call'.objects = call.objects
      BY <2>3, <2>5 DEF Like
    <3>2. PlanInv'
      BY <2>2, <2>3, <2>7 DEF PlanInv
    <3>3. HashInv' /\ DoneInv'
      BY <2>3, <2>6, <2>7, <3>1 DEF HashInv, DoneInv, Returned
    <3> QED BY <3>2, <3>3
  <2> QED BY <1>1, <2>3, <2>5, <2>8, ReturnKeeps DEF Like, Captured
<1> QED BY <1>2, <1>3

-----------------------------------------------------------------------------
(* admit_regions.                                                          *)

\* What a step of admit_regions leaves alone.
Steady(d, c) ==
  /\ Shape(d) /\ d.err = c.err /\ d.kind = c.kind /\ d.contract = c.contract
  /\ d.inode = c.inode /\ d.stamp = c.stamp /\ d.snapshot = c.snapshot
  /\ d.plan = c.plan

LEMMA AdmittingKeeps ==
  ASSUME IndInv, FilesStill, call.pc \in {"admit", "admitting"},
         call'.pc = "admitting", Steady(call', call), AdmitInv'
  PROVE  IndInv'
<1>1. /\ (Unchanged' <=> Unchanged) /\ Current' = Current
      /\ SnapshotPlan' = SnapshotPlan
  BY SameSource DEF Steady
<1>2. FileInv'
  BY FilesKeep DEF IndInv
<1>3. StartInv'
  BY DEF IndInv, StartInv, Pcs, Opened, Captured, Steady
<1>4. SteadyInv'
  <2>1. Live
    BY DEF Live, Captured
  <2> QED BY <1>1, <2>1 DEF IndInv, SteadyInv, FilesStill, Steady
<1>5. ViewInv' /\ HashInv' /\ DoneInv'
  BY DEF ViewInv, HashInv, DoneInv, Returned, Captured
<1>6. PlanInv'
  BY <1>1 DEF IndInv, PlanInv, Steady
<1> QED BY <1>2, <1>3, <1>4, <1>5, <1>6 DEF IndInv

\* What the source says of some bytes does not change with the step.
LEMMA HoldsSame ==
  ASSUME FilesStill, Steady(call', call)
  PROVE  /\ \A bytes, i : Holds(bytes, i)' <=> Holds(bytes, i)
         /\ Serial' <=> Serial
<1>1. Unchanged' <=> Unchanged
  BY SameSource DEF Steady
<1> QED BY <1>1 DEF Holds, Serial, Steady

\* An idle worker is at no region.
LEMMA IdleWorkers ==
  /\ Free # Stopped /\ ~(Free.at > 0) /\ ~(Stopped.at > 0)
  /\ \A i \in Nat : i > 0 => Free.at # i /\ Stopped.at # i
BY SMT DEF Free, Stopped

\* The state of an admission.
LEMMA Admitting ==
  ASSUME IndInv, call.pc = "admitting"
  PROVE  LET rs == call.plan.regions IN
         /\ workers = [w \in Workers |-> workers[w]]
         /\ call.next \in Nat /\ call.next > 0
         /\ call.objects = [i \in DOMAIN rs |-> call.objects[i]]
         /\ Shape(call) /\ Len(rs) \in Nat /\ DOMAIN rs = 1..Len(rs)
         /\ DOMAIN call.objects = DOMAIN rs
         /\ \A i \in DOMAIN rs : i \in Nat /\ i > 0 /\ i <= Len(rs)
<1>1. /\ workers = [w \in Workers |-> workers[w]]
      /\ call.next \in Nat \ {0}
      /\ call.objects = [i \in DOMAIN call.plan.regions |-> call.objects[i]]
  BY DEF IndInv, AdmitInv
<1>2. /\ Shape(call) /\ Len(call.plan.regions) \in Nat
      /\ DOMAIN call.plan.regions = 1..Len(call.plan.regions)
  BY HashFacts
<1>3. call.next \in Nat /\ call.next > 0
  BY <1>1, SMT
<1>4. DOMAIN call.objects = DOMAIN call.plan.regions
  BY <1>1
<1>5. \A i \in DOMAIN call.plan.regions :
        i \in Nat /\ i > 0 /\ i <= Len(call.plan.regions)
  BY <1>2, SMT
<1> QED BY <1>1, <1>2, <1>3, <1>4, <1>5

\* A worker with a region.
LEMMA Busy ==
  ASSUME IndInv, call.pc = "admitting", NEW w \in Workers, workers[w].at > 0
  PROVE  LET at == workers[w].at
             held == workers[w].held
         IN /\ workers[w] = [at |-> at, held |-> held]
            /\ at \in DOMAIN call.plan.regions /\ at < call.next
            /\ call.objects[at].err = "pending"
            /\ held.ok => Holds(held.bytes, at)
            /\ workers[w] # Free /\ workers[w] # Stopped
<1>1. workers[w] # Free /\ workers[w] # Stopped
  BY IdleWorkers
<1>2. WorkerOK(w)
  BY DEF IndInv, AdmitInv
<1> QED BY <1>1, <1>2 DEF WorkerOK

\* While a single worker has a region, none has failed.
LEMMA BusySerial ==
  ASSUME IndInv, call.pc = "admitting", NEW w \in Workers, workers[w].at > 0,
         Serial
  PROVE  Failures = {} /\ \A v \in Workers : workers[v] # Stopped => v = w
<1>1. SerialOK
  BY DEF IndInv, AdmitInv
<1>2. workers[w] # Free /\ workers[w] # Stopped
  BY Busy
<1> QED BY <1>1, <1>2 DEF SerialOK

\* The crew is nonempty unless there is nothing to do, and a single worker
\* if it is not to be more.
LEMMA CrewOf ==
  ASSUME NEW crew \in SUBSET Workers, NEW n \in Nat,
         Cardinality(crew) = Min({Cardinality(Workers), n})
  PROVE  /\ crew = {} => n = 0
         /\ Min({Cardinality(Workers), n}) <= 1 =>
              \A w, v \in crew : w = v
<1>1. /\ IsFiniteSet(Workers) /\ IsFiniteSet(crew)
      /\ Cardinality(Workers) \in Nat /\ Cardinality(crew) \in Nat
      /\ Cardinality(Workers) # 0
  BY IngestAssumption, FS_Subset, FS_CardinalityType, FS_EmptySet
<1>2. Min({Cardinality(Workers), n}) \in {Cardinality(Workers), n}
  BY <1>1, LeastOfTwo
<1>3. crew = {} => n = 0
  <2>1. crew = {} => Cardinality(crew) = 0
    BY FS_EmptySet
  <2> QED BY <1>1, <1>2, <2>1
<1>4. ASSUME Min({Cardinality(Workers), n}) <= 1, NEW w \in crew, NEW v \in crew
      PROVE  w = v
  <2>1. Cardinality(crew) = 0 \/ Cardinality(crew) = 1
    <3>1. Cardinality(crew) <= 1
      BY <1>4
    <3> QED BY <1>1, <3>1, SMT
  <2>2. Cardinality(crew) # 0
    BY <1>1, <1>4, FS_EmptySet
  <2>3. PICK x : crew = {x}
    BY <1>1, <2>1, <2>2, FS_Singleton
  <2> QED BY <1>4, <2>3
<1> QED BY <1>3, <1>4

LEMMA AdmitBeginKeeps ==
  ASSUME IndInv, AdmitBegin
  PROVE  IndInv'
<1> DEFINE rs == call.plan.regions
           objects == [i \in DOMAIN rs |-> Pending]
<1>1. /\ call.pc = "admit" /\ FilesStill /\ call.next = 1
      /\ call' = [call EXCEPT !.pc = "admitting", !.objects = objects]
  BY DEF AdmitBegin, Step, FilesStill, fileVars, IndInv, StartInv
<1>2. /\ Shape(call) /\ Len(rs) \in Nat /\ DOMAIN rs = 1..Len(rs)
  BY <1>1, HashFacts
<1>3. PICK crew \in SUBSET Workers :
        /\ Cardinality(crew) = Min({Cardinality(Workers), Len(rs)})
        /\ workers' = [w \in Workers |-> IF w \in crew THEN Free ELSE Stopped]
  BY DEF AdmitBegin
<1>4. Shape(call')
  BY <1>1, <1>2 DEF Shape
<1> HIDE DEF objects, rs
<1>5. /\ call'.pc = "admitting" /\ call'.err = call.err
      /\ call'.kind = call.kind /\ call'.contract = call.contract
      /\ call'.inode = call.inode /\ call'.stamp = call.stamp
  BY <1>1, <1>2, IdleFields DEF Shape
<1>6. /\ call'.snapshot = call.snapshot /\ call'.plan = call.plan
      /\ call'.objects = objects /\ call'.next = 1
  BY <1>1, <1>2, IdleFields DEF Shape
<1>7. Steady(call', call) /\ call'.plan.regions = rs
  BY <1>4, <1>5, <1>6 DEF Steady, rs
<1>8. /\ \A i \in DOMAIN rs : objects[i].err = "pending" /\ ~(i < 1)
      /\ DOMAIN objects = DOMAIN rs
      /\ objects = [i \in DOMAIN rs |-> objects[i]]
  <2>1. \A i \in DOMAIN rs : ~(i < 1)
    BY <1>2, SMT
  <2> QED BY <2>1 DEF objects, Pending
<1>9. Failures' = {}
  BY <1>6, <1>8 DEF Failures
<1>10. \A w \in Workers : workers'[w] = Free \/ workers'[w] = Stopped
  BY <1>3
<1>11. AdmitInv'
  <2>1. /\ workers' = [w \in Workers |-> workers'[w]]
        /\ call'.next \in Nat \ {0}
    <3>1. 1 \in Nat \ {0}
      BY SMT
    <3> QED BY <1>3, <1>6, <3>1
  <2>2. \A w \in Workers : WorkerOK(w)'
    BY <1>10 DEF WorkerOK
  <2>3. \A w \in Workers : ~(workers'[w].at > 0)
    BY <1>10, IdleWorkers
  <2>4. \A i \in DOMAIN rs : OutcomeOK(i)'
    BY <1>6, <1>8 DEF OutcomeOK
  <2>5. (\A w \in Workers : workers'[w] = Stopped) => call'.next > Len(rs)
    <3> SUFFICES ASSUME \A w \in Workers : workers'[w] = Stopped
                 PROVE  1 > Len(rs)
      BY <1>6
    <3>1. crew = {}
      BY <1>3, IdleWorkers
    <3>2. Len(rs) = 0
      BY <1>2, <1>3, <3>1, CrewOf
    <3> QED BY <3>2, SMT
  <2>6. Serial' => SerialOK'
    <3>1. Serial' => \A w, v \in crew : w = v
      BY <1>2, <1>3, <1>7, CrewOf DEF Serial
    <3>2. \A w \in Workers : workers'[w] # Stopped => w \in crew
      BY <1>3
    <3> QED BY <1>9, <3>1, <3>2 DEF SerialOK
  <2> QED BY <1>6, <1>7, <1>8, <2>1, <2>2, <2>3, <2>4, <2>5, <2>6
          DEF AdmitInv
<1> QED BY <1>1, <1>5, <1>7, <1>11, AdmittingKeeps

\* A worker takes the next region, or stops.
LEMMA TakeKeeps ==
  ASSUME IndInv, NEW w \in Workers, Take(w)
  PROVE  IndInv'
<1> DEFINE rs == call.plan.regions
           next == call.next + 1
           taken == [at |-> call.next, held |-> None]
           new == IF call.next \in DOMAIN rs THEN taken ELSE Stopped
<1>1. /\ call.pc = "admitting" /\ workers[w] = Free /\ FilesStill
      /\ store' = store
      /\ call' = [call EXCEPT !.next = next]
      /\ workers' = [workers EXCEPT ![w] = new]
  BY DEF Take, Step, FilesStill, fileVars
<1>2. /\ workers = [v \in Workers |-> workers[v]]
      /\ call.next \in Nat /\ call.next > 0
      /\ call.objects = [i \in DOMAIN rs |-> call.objects[i]]
      /\ Shape(call) /\ Len(rs) \in Nat /\ DOMAIN rs = 1..Len(rs)
      /\ \A i \in DOMAIN rs : i \in Nat /\ i > 0 /\ i <= Len(rs)
  BY <1>1, Admitting
<1>3. Shape(call')
  BY <1>1, <1>2 DEF Shape
<1>4. taken.at = call.next /\ taken.held = None /\ ~None.ok
  BY DEF None
<1> HIDE DEF next, rs, taken
<1>5. /\ call'.pc = call.pc /\ call'.err = call.err
      /\ call'.kind = call.kind /\ call'.contract = call.contract
      /\ call'.inode = call.inode /\ call'.stamp = call.stamp
  BY <1>1, <1>2, IdleFields DEF Shape
<1>6. /\ call'.snapshot = call.snapshot /\ call'.plan = call.plan
      /\ call'.objects = call.objects /\ call'.next = next
  BY <1>1, <1>2, IdleFields DEF Shape
<1>7. Steady(call', call) /\ call'.plan.regions = rs
  BY <1>3, <1>5, <1>6 DEF Steady, rs
<1>8. /\ \A bytes, i : Holds(bytes, i)' <=> Holds(bytes, i)
      /\ Serial' <=> Serial
  BY <1>1, <1>7, HoldsSame
<1>9. Failures' = Failures
  BY <1>6 DEF Failures
<1>10. /\ workers' = [v \in Workers |-> workers'[v]]
       /\ workers'[w] = new
       /\ \A v \in Workers : v # w => workers'[v] = workers[v]
  BY <1>1, <1>2
<1>11. /\ next \in Nat \ {0} /\ call.next < next
       /\ \A i \in DOMAIN rs : i < call.next => i < next
       /\ \A i \in DOMAIN rs : i < next => i < call.next \/ i = call.next
       /\ \A i \in DOMAIN rs : i >= next => i >= call.next
       /\ \A i \in DOMAIN rs : i < call.next => i # call.next
       /\ call.next \notin DOMAIN rs => call.next > Len(rs)
       /\ call.next > Len(rs) => next > Len(rs) /\ call.next \notin DOMAIN rs
       /\ call.next >= call.next
  BY <1>2, SMT DEF next
<1>12. /\ \A v \in Workers : WorkerOK(v)
       /\ \A v, u \in Workers :
            workers[v].at > 0 /\ workers[v].at = workers[u].at => v = u
       /\ \A i \in DOMAIN rs : OutcomeOK(i)
       /\ Serial => SerialOK
  BY <1>1 DEF IndInv, AdmitInv, rs
<1> HIDE DEF new
<1>13. ASSUME NEW v \in Workers PROVE WorkerOK(v)'
  <2>1. CASE v = w
    <3>1. CASE call.next \in DOMAIN rs
      <4>1. workers'[v] = taken
        BY <1>10, <2>1, <3>1 DEF new
      <4>2. call.objects[call.next].err = "pending"
        BY <1>11, <1>12, <3>1 DEF OutcomeOK
      <4>3. /\ workers'[v].at = call.next /\ ~workers'[v].held.ok
            /\ workers'[v] = [at |-> workers'[v].at, held |-> workers'[v].held]
        BY <1>4, <4>1 DEF taken
      <4> QED BY <1>6, <1>7, <1>11, <3>1, <4>2, <4>3 DEF WorkerOK
    <3>2. CASE call.next \notin DOMAIN rs
      BY <1>10, <2>1, <3>2 DEF new, WorkerOK
    <3> QED BY <3>1, <3>2
  <2>2. CASE v # w
    <3>1. workers'[v] = workers[v] /\ WorkerOK(v)
      BY <1>10, <1>12, <2>2
    <3> QED BY <1>6, <1>7, <1>8, <1>11, <3>1 DEF WorkerOK, rs
  <2> QED BY <2>1, <2>2
<1>14. ASSUME NEW v \in Workers, workers[v].at > 0
       PROVE  workers[v].at \in DOMAIN rs /\ workers[v].at # call.next
  <2>1. workers[v].at \in DOMAIN rs /\ workers[v].at < call.next
    BY <1>1, <1>14, Busy DEF rs
  <2> QED BY <1>11, <2>1
<1>15. ASSUME NEW v \in Workers, NEW u \in Workers,
              workers'[v].at > 0, workers'[v].at = workers'[u].at
       PROVE  v = u
  <2>1. workers'[w].at > 0 => workers'[w].at = call.next
    BY <1>4, <1>10, IdleWorkers DEF new
  <2>2. CASE v # w /\ u # w
    BY <1>10, <1>12, <1>15, <2>2
  <2>3. CASE v = w /\ u # w
    BY <1>10, <1>14, <1>15, <2>1, <2>3
  <2>4. CASE v # w /\ u = w
    BY <1>10, <1>14, <1>15, <2>1, <2>4
  <2> QED BY <2>2, <2>3, <2>4
<1>16. ASSUME NEW i \in DOMAIN rs PROVE OutcomeOK(i)'
  <2>1. OutcomeOK(i)
    BY <1>12
  <2>2. /\ call.objects[i].err = "none" =>
             call.objects[i].bytes \in store' /\ Holds(call.objects[i].bytes, i)
        /\ i >= next => call.objects[i].err = "pending"
    BY <1>1, <1>11, <2>1 DEF OutcomeOK
  <2>3. ASSUME call.objects[i].err = "pending", i < next
        PROVE  (\E v \in Workers : workers'[v].at = i)
                 \/ (Serial' /\ Failures' # {})
    <3>1. CASE i = call.next
      BY <1>4, <1>10, <3>1 DEF new
    <3>2. CASE i < call.next
      <4>1. CASE Serial /\ Failures # {}
        BY <1>8, <1>9, <4>1
      <4>2. CASE \E v \in Workers : workers[v].at = i
        <5>1. PICK v \in Workers : workers[v].at = i
          BY <4>2
        <5>2. v # w
          BY <1>1, <1>2, <5>1, IdleWorkers
        <5> QED BY <1>10, <5>1, <5>2
      <4> QED BY <2>1, <2>3, <3>2, <4>1, <4>2 DEF OutcomeOK
    <3> QED BY <1>11, <2>3, <3>1, <3>2
  <2> QED BY <1>6, <1>8, <2>2, <2>3 DEF OutcomeOK
<1>17. (\A v \in Workers : workers'[v] = Stopped) => next > Len(rs)
  <2> SUFFICES ASSUME \A v \in Workers : workers'[v] = Stopped
               PROVE  next > Len(rs)
    OBVIOUS
  <2>1. new = Stopped
    BY <1>10
  <2>2. call.next \notin DOMAIN rs
    <3>1. taken.at # Stopped.at
      BY <1>2, <1>4, IdleWorkers
    <3> QED BY <2>1, <3>1 DEF new
  <2> QED BY <1>11, <2>2
<1>18. ASSUME Serial PROVE SerialOK'
  <2>1. SerialOK
    BY <1>12, <1>18
  <2>2. \A v \in Workers : workers'[v] # Stopped => workers[v] # Stopped
    BY <1>1, <1>10, IdleWorkers
  <2>3. ASSUME NEW i \in Failures
        PROVE  /\ next > Len(rs)
               /\ \A v \in Workers : workers'[v] \in {Free, Stopped}
    <3>1. /\ call.next > Len(rs)
          /\ \A v \in Workers : workers[v] \in {Free, Stopped}
      BY <2>1 DEF SerialOK, rs
    <3>2. new = Stopped /\ next > Len(rs)
      BY <1>11, <3>1 DEF new
    <3> QED BY <1>10, <3>1, <3>2
  <2> QED BY <1>6, <1>7, <1>9, <2>1, <2>2, <2>3 DEF SerialOK
<1>19. AdmitInv'
  <2>1. call.objects = [i \in DOMAIN rs |-> call.objects[i]]
    BY <1>2
  <2>2. /\ workers' = [v \in Workers |-> workers'[v]]
        /\ call'.next \in Nat \ {0}
        /\ call'.objects = [i \in DOMAIN call'.plan.regions |->
                              call'.objects[i]]
        /\ (\A v \in Workers : workers'[v] = Stopped) =>
             call'.next > Len(call'.plan.regions)
    BY <1>6, <1>7, <1>10, <1>11, <1>17, <2>1
  <2>3. /\ \A i \in DOMAIN call'.plan.regions : OutcomeOK(i)'
        /\ Serial' => SerialOK'
    BY <1>7, <1>8, <1>16, <1>18
  <2> QED BY <1>13, <1>15, <2>2, <2>3 DEF AdmitInv
<1> QED BY <1>1, <1>5, <1>7, <1>19, AdmittingKeeps

\* A worker has read its region.
LEMMA HeldKeeps ==
  ASSUME IndInv, NEW w \in Workers, NEW bytes, call.pc = "admitting",
         workers[w].at > 0, Holds(bytes, workers[w].at),
         workers' = [workers EXCEPT ![w].held = [ok |-> TRUE, bytes |-> bytes]],
         FilesStill, call' = call, store' = store
  PROVE  IndInv'
<1> DEFINE rs == call.plan.regions
           at == workers[w].at
           held == [ok |-> TRUE, bytes |-> bytes]
           new == [at |-> at, held |-> held]
<1>1. /\ workers = [v \in Workers |-> workers[v]]
      /\ Shape(call)
      /\ \A i \in DOMAIN rs : i \in Nat /\ i > 0 /\ i <= Len(rs)
  BY Admitting
<1>2. /\ workers[w] = [at |-> at, held |-> workers[w].held]
      /\ at \in DOMAIN rs /\ at < call.next
      /\ call.objects[at].err = "pending"
      /\ workers[w] # Free /\ workers[w] # Stopped
  BY Busy
<1>3. Steady(call', call)
  BY <1>1 DEF Steady
<1>4. /\ \A b, i : Holds(b, i)' <=> Holds(b, i)
      /\ Serial' <=> Serial
  BY <1>3, HoldsSame
<1>5. Failures' = Failures
  BY DEF Failures
<1>6. /\ workers' = [v \in Workers |-> workers'[v]]
      /\ workers'[w] = new
      /\ \A v \in Workers : v # w => workers'[v] = workers[v]
  <2>1. [workers[w] EXCEPT !.held = held] = new
    <3>1. \A x, y, z : [[at |-> x, held |-> y] EXCEPT !.held = z] =
                       [at |-> x, held |-> z]
      BY SMT
    <3> HIDE DEF at, held
    <3>2. PICK y : workers[w] = [at |-> at, held |-> y]
      BY <1>2
    <3>3. [[at |-> at, held |-> y] EXCEPT !.held = held] =
          [at |-> at, held |-> held]
      BY ONLY <3>1
    <3> QED BY <3>2, <3>3
  <2>2. workers' = [workers EXCEPT ![w] = new]
    BY <1>1, <2>1
  <2> QED BY <1>1, <2>2
<1>7. new.at = at /\ new.held.ok /\ new.held.bytes = bytes
  OBVIOUS
<1>8. workers'[w] # Free /\ workers'[w] # Stopped
  BY <1>6, <1>7, IdleWorkers
<1>9. \A v \in Workers : workers'[v].at = workers[v].at
  BY <1>6, <1>7
<1>10. /\ \A v \in Workers : WorkerOK(v)
       /\ \A v, u \in Workers :
            workers[v].at > 0 /\ workers[v].at = workers[u].at => v = u
       /\ \A i \in DOMAIN rs : OutcomeOK(i)
       /\ Serial => SerialOK
  BY DEF IndInv, AdmitInv
<1>11. ASSUME NEW v \in Workers PROVE WorkerOK(v)'
  <2>1. CASE v = w
    <3>1. /\ workers'[w].at = at /\ workers'[w].held.bytes = bytes
          /\ workers'[w] = [at |-> workers'[w].at, held |-> workers'[w].held]
      BY <1>6, <1>7
    <3> HIDE DEF at, new, held
    <3>2. Holds(workers'[w].held.bytes, at)
      BY <3>1 DEF at
    <3> QED BY <1>2, <1>4, <2>1, <3>1, <3>2 DEF WorkerOK
  <2>2. CASE v # w
    <3>1. workers'[v] = workers[v] /\ WorkerOK(v)
      BY <1>6, <1>10, <2>2
    <3> QED BY <1>4, <3>1 DEF WorkerOK
  <2> QED BY <2>1, <2>2
<1>12. ASSUME NEW i \in DOMAIN rs PROVE OutcomeOK(i)'
  <2>1. OutcomeOK(i)
    BY <1>10
  <2>2. (\E v \in Workers : workers[v].at = i) =>
           \E v \in Workers : workers'[v].at = i
    BY <1>9
  <2> QED BY <1>4, <1>5, <2>1, <2>2 DEF OutcomeOK
<1>13. Serial => SerialOK'
  <2> SUFFICES ASSUME Serial PROVE SerialOK'
    OBVIOUS
  <2>1. Failures = {} /\ \A v \in Workers : workers[v] # Stopped => v = w
    BY BusySerial
  <2>2. \A v \in Workers : workers'[v] # Stopped => v = w
    BY <1>6, <2>1
  <2> QED BY <1>5, <2>1, <2>2 DEF SerialOK
<1>14. AdmitInv'
  <2>1. \A v, u \in Workers :
          workers'[v].at > 0 /\ workers'[v].at = workers'[u].at => v = u
    <3>1. \A v, u \in Workers :
            workers[v].at > 0 /\ workers[v].at = workers[u].at => v = u
      BY <1>10
    <3> TAKE v, u \in Workers
    <3>2. workers'[v].at = workers[v].at /\ workers'[u].at = workers[u].at
      BY <1>9
    <3> QED BY <3>1, <3>2
  <2>2. ~(\A v \in Workers : workers'[v] = Stopped)
    BY <1>8
  <2>3. /\ call.next \in Nat \ {0}
        /\ call.objects = [i \in DOMAIN rs |-> call.objects[i]]
    BY DEF IndInv, AdmitInv
  <2> QED BY <1>4, <1>6, <1>11, <1>12, <1>13, <2>1, <2>2, <2>3 DEF AdmitInv
<1> QED BY <1>3, <1>14, AdmittingKeeps

\* A region is settled: its worker is free again, and a single worker ends
\* with its first failure.
LEMMA SettleKeeps ==
  ASSUME IndInv, NEW w \in Workers, NEW outcome, call.pc = "admitting",
         workers[w].at > 0, Settle(w, outcome), store \subseteq store',
         outcome.err # "pending",
         outcome.err = "none" => /\ outcome.bytes \in store'
                                 /\ Holds(outcome.bytes, workers[w].at)
  PROVE  IndInv'
<1> DEFINE rs == call.plan.regions
           a == workers[w].at
           failed == Serial /\ outcome.err # "none"
           next == IF failed THEN Len(rs) + 1 ELSE call.next
           objects == [call.objects EXCEPT ![a] = outcome]
<1>1. /\ FilesStill
      /\ call' = [call EXCEPT !.objects = objects, !.next = next]
      /\ workers' = [workers EXCEPT ![w] = Free]
  BY DEF Settle, Step, FilesStill, fileVars
<1>2. /\ workers = [v \in Workers |-> workers[v]]
      /\ call.next \in Nat /\ call.next > 0
      /\ call.objects = [i \in DOMAIN rs |-> call.objects[i]]
      /\ Shape(call) /\ Len(rs) \in Nat /\ DOMAIN call.objects = DOMAIN rs
      /\ DOMAIN rs = 1..Len(rs)
      /\ \A i \in DOMAIN rs : i \in Nat /\ i > 0 /\ i <= Len(rs)
  BY Admitting
<1>3. /\ a \in DOMAIN rs /\ a < call.next /\ call.objects[a].err = "pending"
      /\ workers[w] # Free /\ workers[w] # Stopped
  BY Busy
<1>4. Shape(call')
  BY <1>1, <1>2 DEF Shape
<1>5. /\ objects = [i \in DOMAIN rs |-> objects[i]] /\ objects[a] = outcome
      /\ \A i \in DOMAIN rs : i # a => objects[i] = call.objects[i]
      /\ DOMAIN objects = DOMAIN rs
  BY <1>2, <1>3
<1> HIDE DEF next, rs, objects, a, failed
<1>6. /\ call'.pc = call.pc /\ call'.err = call.err
      /\ call'.kind = call.kind /\ call'.contract = call.contract
      /\ call'.inode = call.inode /\ call'.stamp = call.stamp
  BY <1>1, <1>2, IdleFields DEF Shape
<1>7. /\ call'.snapshot = call.snapshot /\ call'.plan = call.plan
      /\ call'.objects = objects /\ call'.next = next
  BY <1>1, <1>2, IdleFields DEF Shape
<1>8. Steady(call', call) /\ call'.plan.regions = rs
  BY <1>4, <1>6, <1>7 DEF Steady, rs
<1>9. /\ \A b, i : Holds(b, i)' <=> Holds(b, i)
      /\ Serial' <=> Serial
  BY <1>1, <1>8, HoldsSame
<1>10. /\ workers' = [v \in Workers |-> workers'[v]]
       /\ workers'[w] = Free
       /\ \A v \in Workers : v # w => workers'[v] = workers[v]
  BY <1>1, <1>2
<1>11. /\ next \in Nat \ {0}
       /\ \A i \in DOMAIN rs : i < call.next => i < next
       /\ ~failed => next = call.next
       /\ failed => next > Len(rs) /\ \A i \in DOMAIN rs : ~(i >= next)
       /\ a < next /\ ~(a >= next) /\ ~(a >= call.next)
  <2>1. CASE failed
    <3>1. next = Len(rs) + 1
      BY <2>1 DEF next
    <3> QED BY <1>2, <1>3, <2>1, <3>1, SMT
  <2>2. CASE ~failed
    <3>1. next = call.next
      BY <2>2 DEF next
    <3> QED BY <1>2, <1>3, <2>2, <3>1, SMT
  <2> QED BY <2>1, <2>2
<1>12. /\ \A v \in Workers : WorkerOK(v)
       /\ \A v, u \in Workers :
            workers[v].at > 0 /\ workers[v].at = workers[u].at => v = u
       /\ \A i \in DOMAIN rs : OutcomeOK(i)
       /\ Serial => SerialOK
  BY DEF IndInv, AdmitInv, rs
<1>13. /\ Failures' = {i \in DOMAIN rs : objects[i].err \notin
                                           {"none", "pending"}}
       /\ Failures = {i \in DOMAIN rs : call.objects[i].err \notin
                                           {"none", "pending"}}
  BY <1>2, <1>5, <1>7 DEF Failures
<1>14. Failures # {} \/ failed => Failures' # {}
  <2>1. a \notin Failures /\ Failures \subseteq Failures'
    BY <1>3, <1>5, <1>13
  <2>2. failed => a \in Failures'
    BY <1>3, <1>5, <1>13 DEF failed
  <2> QED BY <2>1, <2>2
<1>15. ASSUME NEW v \in Workers PROVE WorkerOK(v)'
  <2>1. CASE v = w
    BY <1>10, <2>1 DEF WorkerOK
  <2>2. CASE v # w
    <3>1. workers'[v] = workers[v]
      BY <1>10, <2>2
    <3>2. CASE workers[v] \in {Free, Stopped}
      BY <3>1, <3>2 DEF WorkerOK
    <3>3. CASE workers[v] \notin {Free, Stopped}
      <4> DEFINE at == workers[v].at
                 held == workers[v].held
      <4>1. /\ workers[v] = [at |-> at, held |-> held]
            /\ at \in DOMAIN rs /\ at < call.next
            /\ call.objects[at].err = "pending"
            /\ held.ok => Holds(held.bytes, at)
        BY <1>12, <3>3 DEF WorkerOK, rs
      <4>2. at # a
        BY <1>2, <1>12, <2>2, <4>1 DEF a
      <4>3. objects[at].err = "pending" /\ at < next
        BY <1>5, <1>11, <4>1, <4>2
      <4>4. /\ workers'[v].at = at /\ workers'[v].held = held
        BY <3>1
      <4> HIDE DEF at, held
      <4>5. workers'[v] = [at |-> at, held |-> held]
        BY <3>1, <4>1
      <4> QED BY <1>7, <1>8, <1>9, <4>1, <4>3, <4>4, <4>5 DEF WorkerOK
    <3> QED BY <3>2, <3>3
  <2> QED BY <2>1, <2>2
<1>16. ASSUME NEW v \in Workers, NEW u \in Workers,
              workers'[v].at > 0, workers'[v].at = workers'[u].at
       PROVE  v = u
  <2>1. v # w /\ u # w
    BY <1>10, <1>16, IdleWorkers
  <2> QED BY <1>10, <1>12, <1>16, <2>1
<1>17. ASSUME NEW i \in DOMAIN rs PROVE OutcomeOK(i)'
  <2>1. CASE i = a
    <3>1. objects[i] = outcome
      BY <1>5, <2>1
    <3>2. outcome.err = "none" => /\ outcome.bytes \in store'
                                  /\ Holds(outcome.bytes, i)
      BY <2>1 DEF a
    <3> QED BY <1>7, <1>9, <1>11, <2>1, <3>1, <3>2 DEF OutcomeOK
  <2>2. CASE i # a
    <3>1. objects[i] = call.objects[i] /\ OutcomeOK(i)
      BY <1>5, <1>12, <2>2
    <3>2. /\ objects[i].err = "none" =>
               objects[i].bytes \in store' /\ Holds(objects[i].bytes, i)
          /\ i >= next => objects[i].err = "pending"
      BY <1>11, <3>1 DEF OutcomeOK
    <3>3. ASSUME objects[i].err = "pending", i < next
          PROVE  (\E v \in Workers : workers'[v].at = i)
                   \/ (Serial' /\ Failures' # {})
      <4>1. CASE failed
        BY <1>9, <1>14, <4>1 DEF failed
      <4>2. CASE ~failed
        <5>1. i < call.next
          BY <1>11, <3>3, <4>2
        <5>2. CASE Serial /\ Failures # {}
          BY <1>9, <1>14, <5>2
        <5>3. CASE \E v \in Workers : workers[v].at = i
          <6>1. PICK v \in Workers : workers[v].at = i
            BY <5>3
          <6>2. v # w
            BY <2>2, <6>1 DEF a
          <6> QED BY <1>10, <6>1, <6>2
        <5> QED BY <3>1, <3>3, <5>1, <5>2, <5>3 DEF OutcomeOK
      <4> QED BY <4>1, <4>2
    <3> QED BY <1>7, <1>9, <3>2, <3>3 DEF OutcomeOK
  <2> QED BY <2>1, <2>2
<1>18. ASSUME Serial PROVE SerialOK'
  <2>1. Failures = {} /\ \A v \in Workers : workers[v] # Stopped => v = w
    BY <1>18, BusySerial
  <2>2. \A v \in Workers : v # w => workers'[v] = Stopped
    BY <1>10, <2>1
  <2>3. ASSUME NEW i \in Failures' PROVE i = a /\ failed
    <3>1. i = a
      BY <1>5, <1>13, <2>1, <2>3
    <3> QED BY <1>5, <1>13, <1>18, <2>3, <3>1 DEF failed
  <2>4. ASSUME NEW j \in 1..(a - 1) PROVE objects[j].err = "none"
    <3>1. j \in DOMAIN rs /\ j # a /\ j < call.next /\ j \in Nat /\ j > 0
      BY <1>2, <1>3, SMT
    <3>2. objects[j] = call.objects[j] /\ OutcomeOK(j)
      BY <1>5, <1>12, <3>1
    <3>3. ~\E v \in Workers : workers[v].at = j
      <4> SUFFICES ASSUME NEW v \in Workers, workers[v].at = j PROVE FALSE
        OBVIOUS
      <4>1. v # w
        BY <3>1 DEF a
      <4>2. workers[v] = Stopped
        BY <2>1, <4>1
      <4> QED BY <3>1, <4>2, IdleWorkers
    <3>4. call.objects[j].err # "pending"
      BY <2>1, <3>1, <3>2, <3>3 DEF OutcomeOK
    <3> QED BY <1>13, <2>1, <3>1, <3>2, <3>4
  <2>5. \A i \in Failures' :
          /\ next > Len(rs)
          /\ \A v \in Workers : workers'[v] \in {Free, Stopped}
          /\ \A j \in 1..(i - 1) : objects[j].err = "none"
    BY <1>10, <1>11, <2>2, <2>3, <2>4
  <2> QED BY <1>7, <1>8, <2>2, <2>5 DEF SerialOK
<1>19. AdmitInv'
  <2>1. ~(\A v \in Workers : workers'[v] = Stopped)
    BY <1>10, IdleWorkers
  <2>2. /\ workers' = [v \in Workers |-> workers'[v]]
        /\ call'.next \in Nat \ {0}
        /\ call'.objects = [i \in DOMAIN call'.plan.regions |->
                              call'.objects[i]]
    BY <1>5, <1>7, <1>8, <1>10, <1>11
  <2>3. /\ \A i \in DOMAIN call'.plan.regions : OutcomeOK(i)'
        /\ Serial' => SerialOK'
    BY <1>8, <1>9, <1>17, <1>18
  <2> QED BY <1>15, <1>16, <2>1, <2>2, <2>3 DEF AdmitInv
<1> QED BY <1>1, <1>6, <1>8, <1>19, AdmittingKeeps

LEMMA ReadRegionKeeps ==
  ASSUME IndInv, NEW w \in Workers, ReadRegion(w)
  PROVE  IndInv'
<1> DEFINE at == workers[w].at
           r == call.plan.regions[at]
<1>1. call.pc = "admitting" /\ at > 0 /\ store' = store
  BY DEF ReadRegion
<1>2. CASE ~Readable(r.offset, r.length)
  <2> DEFINE outcome == [Pending EXCEPT !.err = "Read"]
  <2>1. Settle(w, outcome)
    BY <1>2 DEF ReadRegion
  <2>2. outcome.err = "Read"
    BY DEF Pending
  <2> HIDE DEF outcome
  <2>3. store \subseteq store'
    BY <1>1
  <2> QED BY <1>1, <2>1, <2>2, <2>3, SettleKeeps
<1>3. CASE Readable(r.offset, r.length)
  <2> DEFINE bytes == Slice(Current, r.offset, r.length)
  <2>1. /\ workers' = [workers EXCEPT ![w].held =
                         [ok |-> TRUE, bytes |-> bytes]]
        /\ FilesStill /\ call' = call
    BY <1>3 DEF ReadRegion, Step, FilesStill, fileVars
  <2>2. at \in DOMAIN call.plan.regions
    BY <1>1, Busy
  <2>3. /\ Current \in Seq(FileCells)
        /\ r.offset \in Nat /\ r.length \in Nat
    BY <1>1, <2>2, HashFacts
  <2>4. Len(bytes) = r.length
    <3>1. r.offset + r.length <= Len(Current)
      BY <1>3 DEF Readable
    <3> HIDE DEF r
    <3> QED BY <2>3, <3>1, SliceFits
  <2>5. Holds(bytes, at)
    <3>1. CASE Unchanged
      <4>1. Current = call.snapshot
        BY <1>1, <3>1, HashFacts
      <4> QED BY <2>4, <4>1 DEF Holds
    <3>2. CASE ~Unchanged
      BY <2>4, <3>2 DEF Holds
    <3> QED BY <3>1, <3>2
  <2> HIDE DEF bytes
  <2> QED BY <1>1, <2>1, <2>5, HeldKeeps
<1> QED BY <1>2, <1>3

LEMMA PutRegionKeeps ==
  ASSUME IndInv, NEW w \in Workers, PutRegion(w)
  PROVE  IndInv'
<1> DEFINE bytes == workers[w].held.bytes
<1>1. /\ call.pc = "admitting" /\ workers[w].at > 0
      /\ workers[w].held.ok
  BY DEF PutRegion
<1>2. Holds(bytes, workers[w].at)
  BY <1>1, Busy
<1> HIDE DEF bytes
<1>3. CASE /\ Settle(w, [err |-> "none", bytes |-> bytes])
           /\ store' = store \cup {bytes}
  <2> DEFINE outcome == [err |-> "none", bytes |-> bytes]
  <2>1. /\ outcome.err = "none" /\ outcome.bytes = bytes
        /\ Settle(w, outcome)
    BY <1>3
  <2> HIDE DEF outcome
  <2>2. store \subseteq store' /\ bytes \in store'
    BY <1>3
  <2>3. outcome.err # "pending"
    BY <2>1
  <2> QED BY <1>1, <1>2, <2>1, <2>2, <2>3, SettleKeeps
<1>4. CASE Settle(w, [Pending EXCEPT !.err = "Store"]) /\ store' = store
  <2> DEFINE outcome == [Pending EXCEPT !.err = "Store"]
  <2>1. outcome.err = "Store"
    BY DEF Pending
  <2>2. Settle(w, outcome) /\ store \subseteq store'
    BY <1>4
  <2> HIDE DEF outcome
  <2> QED BY <1>1, <2>1, <2>2, SettleKeeps
<1> QED BY <1>3, <1>4 DEF PutRegion, bytes

\* With every worker stopped no region is pending, unless a single worker
\* has failed.
LEMMA AllSettled ==
  ASSUME IndInv, call.pc = "admitting",
         \A w \in Workers : workers[w] = Stopped,
         NEW i \in DOMAIN call.plan.regions, call.objects[i].err = "pending"
  PROVE  Serial /\ Failures # {}
<1>1. /\ i \in Nat /\ i > 0 /\ i <= Len(call.plan.regions)
      /\ call.next \in Nat /\ Len(call.plan.regions) \in Nat
  BY Admitting
<1>2. call.next > Len(call.plan.regions) /\ OutcomeOK(i)
  BY DEF IndInv, AdmitInv
<1>3. i < call.next
  BY <1>1, <1>2, SMT
<1>4. \A w \in Workers : workers[w].at # i
  BY <1>1, IdleWorkers
<1> QED BY <1>2, <1>3, <1>4 DEF OutcomeOK

\* The objects in region order, or the first failure.
LEMMA JoinKeeps ==
  ASSUME IndInv, Join
  PROVE  IndInv'
<1> DEFINE rs == call.plan.regions
<1>1. /\ call.pc = "admitting" /\ FilesStill /\ store' = store
      /\ \A w \in Workers : workers[w] = Stopped
  BY DEF Join, Step, FilesStill, fileVars, admitVars
<1>2. /\ Shape(call) /\ DOMAIN call.objects = DOMAIN rs
      /\ DOMAIN rs = 1..Len(rs) /\ Len(rs) \in Nat
      /\ \A i \in DOMAIN rs : i \in Nat /\ i > 0 /\ i <= Len(rs)
  BY <1>1, Admitting
<1>3. /\ call.err = "none" /\ call.kind = "admit"
      /\ call.plan = SnapshotPlan
  BY <1>1 DEF IndInv, StartInv, PlanInv
<1>4. \A i \in DOMAIN rs : OutcomeOK(i)
  BY <1>1 DEF IndInv, AdmitInv
<1>5. CASE Failures = {}
  <2> DEFINE objects == [i \in DOMAIN call.objects |-> call.objects[i].bytes]
  <2>1. call' = [call EXCEPT !.pc = "done", !.objects = objects]
    BY <1>5 DEF Join, Step
  <2>2. Shape(call')
    BY <1>2, <2>1 DEF Shape
  <2>3. /\ objects = [i \in DOMAIN rs |-> objects[i]]
        /\ \A i \in DOMAIN rs : objects[i] = call.objects[i].bytes
    BY <1>2
  <2> HIDE DEF objects, rs
  <2>4. /\ call'.pc = "done" /\ call'.err = call.err
        /\ call'.kind = call.kind /\ call'.contract = call.contract
        /\ call'.inode = call.inode /\ call'.stamp = call.stamp
    BY <1>2, <2>1, IdleFields DEF Shape
  <2>5. /\ call'.snapshot = call.snapshot /\ call'.plan = call.plan
        /\ call'.objects = objects
    BY <1>2, <2>1, IdleFields DEF Shape
  <2>6. Steady(call', call) /\ call'.plan.regions = rs
    BY <2>2, <2>4, <2>5 DEF Steady, rs
  <2>7. \A b, i : Holds(b, i)' <=> Holds(b, i)
    BY <1>1, <2>6, HoldsSame
  <2>8. ASSUME NEW i \in DOMAIN rs
        PROVE  objects[i] \in store' /\ Holds(objects[i], i)
    <3>1. call.objects[i].err # "pending"
      BY <1>1, <1>5, AllSettled DEF rs
    <3>2. call.objects[i].err = "none"
      BY <1>2, <1>5, <3>1 DEF Failures
    <3> QED BY <1>1, <1>4, <2>3, <3>2 DEF OutcomeOK
  <2>9. DoneInv'
    BY <1>3, <2>3, <2>4, <2>5, <2>6, <2>7, <2>8 DEF DoneInv
  <2>10. PlanInv' /\ HashInv'
    <3>1. SnapshotPlan' = SnapshotPlan
      BY <1>1, <2>4, <2>5, SameSource
    <3> QED BY <1>3, <2>4, <2>5, <3>1 DEF PlanInv, HashInv, Returned
  <2> QED BY <1>1, <1>3, <2>2, <2>4, <2>5, <2>9, <2>10, ReturnKeeps
          DEF Captured
<1>6. CASE Failures # {}
  <2> DEFINE f == Min(Failures)
             err == call.objects[f].err
  <2>1. call' = [call EXCEPT !.pc = "done", !.region = f, !.err = err]
    BY <1>6 DEF Join, Step
  <2>2. Shape(call')
    BY <1>2, <2>1 DEF Shape
  <2>3. f \in Failures /\ \A i \in Failures : f <= i
    <3>1. Failures \in SUBSET Nat
      BY <1>2 DEF Failures
    <3> QED BY <1>6, <3>1, FirstPlace
  <2>4. f \in DOMAIN rs /\ err # "none"
    BY <1>2, <2>3 DEF Failures
  <2> HIDE DEF f, err
  <2>5. /\ call'.pc = "done" /\ call'.err = err
        /\ call'.kind = call.kind /\ call'.contract = call.contract
        /\ call'.objects = call.objects /\ call'.region = f
    BY <1>2, <2>1, IdleFields DEF Shape
  <2>6. ASSUME NEW i \in 1..(f - 1)
        PROVE  call.objects[i].err = "none" /\ call.objects[i].bytes \in store
    <3>1. i \in DOMAIN rs /\ ~(f <= i)
      BY <1>2, <2>4, SMT
    <3>2. i \notin Failures
      BY <2>3, <3>1
    <3>3. call.objects[i].err = "none"
      <4>1. CASE Serial
        <5>1. SerialOK
          BY <1>1, <4>1 DEF IndInv, AdmitInv
        <5> QED BY <2>3, <5>1 DEF SerialOK
      <4>2. CASE ~Serial
        <5>1. call.objects[i].err # "pending"
          BY <1>1, <3>1, <4>2, AllSettled
        <5> QED BY <1>2, <3>1, <3>2, <5>1 DEF Failures
      <4> QED BY <4>1, <4>2
    <3> QED BY <1>4, <3>1, <3>3 DEF OutcomeOK
  <2>7. ~Live' /\ \A kinds : ~Returned(kinds)'
    BY <2>4, <2>5 DEF Live, Returned, Captured
  <2>8. DoneInv'
    BY <1>1, <2>5, <2>6, <2>7 DEF DoneInv, err
  <2>9. FileInv' /\ StartInv'
    <3>1. FileInv'
      BY <1>1, FilesKeep DEF IndInv
    <3>2. StartInv'
      BY <2>2, <2>5 DEF IndInv, StartInv, Pcs, Opened, Captured
    <3> QED BY <3>1, <3>2
  <2>10. SteadyInv' /\ HashInv' /\ AdmitInv'
    BY <2>5, <2>7 DEF SteadyInv, HashInv, AdmitInv
  <2>11. ViewInv' /\ PlanInv'
    BY <2>5, <2>7 DEF ViewInv, PlanInv
  <2> QED BY <2>8, <2>9, <2>10, <2>11 DEF IndInv
<1> QED BY <1>5, <1>6

-----------------------------------------------------------------------------
(* The theorems.                                                           *)

\* Every step keeps the invariant.
LEMMA StepKeeps ==
  ASSUME IndInv, [Next]_vars
  PROVE  IndInv'
<1>1. ASSUME Composition PROVE IndInv'
  <2>1. /\ UNCHANGED <<fileVars, call, workers>> /\ store \subseteq store'
    BY <1>1 DEF Composition, Rekey, Subset, AdoptContract, DeriveLayout,
                Composes
  <2> QED BY <2>1, ComposerKeeps
<1>2. ASSUME UNCHANGED vars PROVE IndInv'
  <2>1. /\ UNCHANGED <<fileVars, call, workers>> /\ store \subseteq store'
    BY <1>2 DEF vars, admitVars
  <2> QED BY <2>1, ComposerKeeps
<1>3. ASSUME Progress PROVE IndInv'
  BY <1>3, StatPathKeeps, OpenPathKeeps, CompareKeeps, CaptureKeeps,
     PrecheckKeeps, ReadPrefixKeeps, ReadHeaderKeeps, ReadDirectoryKeeps,
     RecheckKeeps, HashBeginKeeps, HashBlockKeeps, HashEndKeeps,
     AdmitBeginKeeps, JoinKeeps, TakeKeeps, ReadRegionKeeps, PutRegionKeeps
     DEF Progress
<1> QED BY <1>1, <1>2, <1>3, WriteKeeps, ReplaceKeeps, BeginKeeps,
           MakePlanKeeps DEF Next

\* What an import knows of its file and of its regions, at every step of the
\* call and of its workers (source.rs, object.rs, store.rs admit_regions).
THEOREM IngestInvariant == Spec => []IndInv
<1>1. Init => IndInv
  BY InitKeeps
<1>2. IndInv /\ [Next]_vars => IndInv'
  BY StepKeeps
<1> QED BY <1>1, <1>2, PTL DEF Spec

\* plan_file and plan_and_hash_file answer for one content of the file, the
\* one it had when it was opened, however it is written or replaced
\* meanwhile (FileByteSource, hash_plan).
THEOREM HashesOneSnapshot == Spec => []HashedIsOneSnapshot
<1>1. IndInv => HashedIsOneSnapshot
  <2> SUFFICES ASSUME IndInv, Returned({"plan", "hash"})
               PROVE  /\ call.plan = SnapshotPlan
                      /\ call.kind = "hash" => call.objects = SnapshotObjects
    BY DEF HashedIsOneSnapshot
  <2>1. Returned(Kinds)
    BY DEF Returned, Kinds
  <2>2. call.kind = "hash" => Returned({"hash"})
    BY DEF Returned
  <2> QED BY <2>1, <2>2 DEF IndInv, PlanInv, HashInv
<1> QED BY <1>1, IngestInvariant, PTL

\* However many workers admit_regions runs and however they interleave, the
\* objects it returns are those of the regions in order, all in the store
\* and all the file's if it did not change; the failure it returns is the
\* first in region order, and every region before it was admitted.
THEOREM PoolAdmitsAsSerial == Spec => []AdmitsAsSerial
<1>1. IndInv => AdmitsAsSerial
  <2> SUFFICES ASSUME IndInv PROVE AdmitsAsSerial
    OBVIOUS
  <2>1. ASSUME Returned({"admit"})
        PROVE  /\ call.plan = SnapshotPlan
               /\ Len(call.objects) = Len(call.plan.regions)
               /\ \A i \in DOMAIN call.objects :
                    /\ Len(call.objects[i]) = call.plan.regions[i].length
                    /\ call.objects[i] \in store
               /\ Unchanged => call.objects = SnapshotObjects
    <3> DEFINE rs == call.plan.regions
    <3>1. Returned(Kinds) /\ Live
      BY <2>1 DEF Returned, Kinds, Live
    <3>2. call.plan = SnapshotPlan
      BY <3>1 DEF IndInv, PlanInv
    <3>3. call.snapshot \in FileContents /\ call.contract \in Contracts
      BY <3>1 DEF IndInv, SteadyInv, StartInv
    <3>4. Len(rs) \in Nat /\ DOMAIN rs = 1..Len(rs)
      BY <3>2, <3>3, RangesOf
    <3>5. /\ call.objects = [i \in DOMAIN rs |-> call.objects[i]]
          /\ \A i \in DOMAIN rs :
               call.objects[i] \in store /\ Holds(call.objects[i], i)
      BY <2>1 DEF IndInv, DoneInv
    <3>6. DOMAIN call.objects = DOMAIN rs
      BY <3>5
    <3>7. Len(call.objects) = Len(rs)
      <4> HIDE DEF rs
      <4>1. call.objects = [i \in 1..Len(rs) |-> call.objects[i]]
        BY <3>4, <3>5
      <4> QED BY <3>4, <4>1, SMT
    <3>8. Unchanged => call.objects = SnapshotObjects
      BY <3>5 DEF SnapshotObjects, Holds
    <3>9. \A i \in DOMAIN rs : Len(call.objects[i]) = rs[i].length
      BY <3>5 DEF Holds
    <3> QED BY <3>2, <3>5, <3>6, <3>7, <3>8, <3>9
  <2> QED BY <2>1 DEF AdmitsAsSerial, IndInv, DoneInv
<1> QED BY <1>1, IngestInvariant, PTL
=============================================================================
