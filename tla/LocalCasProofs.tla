--------------------------- MODULE LocalCasProofs ---------------------------
(***************************************************************************)
(* The inductive invariant of LocalCas and the theorems that follow from   *)
(* it, for every set of clients, contents, refs and trees and every bound. *)
(*                                                                         *)
(* A step belongs to one client.  The lemmas of the first part say what    *)
(* its building blocks change; Frame(c) collects what a step of c must     *)
(* leave alone for the clauses of every other client to survive it, and    *)
(* Assemble puts the pieces together.  The second part has one lemma per   *)
(* action.                                                                 *)
(***************************************************************************)
EXTENDS LocalCas, TLAPS

USE LocalAssumption, Zenon

-----------------------------------------------------------------------------
(* What a step of c may do to the rest.                                    *)

\* The locals of the others.
Others(c) == \A b \in Clients \ {c} :
  /\ pc'[b] = pc[b] /\ op'[b] = op[b] /\ arg'[b] = arg[b]
  /\ temp'[b] = temp[b] /\ seen'[b] = seen[b] /\ ok'[b] = ok[b]
  /\ listed'[b] = listed[b]

\* The locks they hold.
LockFrame(c) == \A b \in Clients \ {c} :
  /\ storeLock'[b] = storeLock[b]
  /\ \A d \in Contents : objectLock[d] = b => objectLock'[d] = b
  /\ \A n \in Names : refLock[n] = b => refLock'[n] = b

\* The file and the scratch directory at a name.
FileKept(t) ==
  /\ building'[t] = building[t]
  /\ t \in tmp' => /\ t \in tmp /\ bytes'[t] = bytes[t]
                   /\ inode'[t] = inode[t]
                   /\ lease'[t] = lease[t] \/ inode[t] # 0
  /\ t \in tmp => t \in tmp' \/ inode[t] # 0
FileFrame(c) == \A b \in Clients \ {c} : Live(b) => FileKept(temp[b])

\* The objects and the refs.
StoreFrame(c) ==
  /\ decayed \subseteq decayed' /\ retracted \subseteq retracted'
  /\ \A d \in Contents :
       /\ \/ objects'[d] = objects[d] \/ d \in Lost'
          \/ ~Sound(d) /\ objectLock[d] = c
       /\ Contains(d) => Contains(d)' \/ d \in retracted'
RefFrame(c) == \A n \in Names : refs'[n] = refs[n] \/ refLock[n] = c

Frame(c) ==
  /\ Others(c) /\ LockFrame(c) /\ FileFrame(c) /\ StoreFrame(c)
  /\ RefFrame(c)

\* The store lock: kept, dropped, shared or taken alone.
LockStep(c) ==
  \/ storeLock'[c] \in {storeLock[c], "no"}
  \/ storeLock'[c] = "shared" /\ CanShare(c)
  \/ storeLock'[c] = "exclusive" /\ CanExclude(c)

\* No object goes bad unnoticed.
SoundStep(c) ==
  /\ \A d \in Contents :
       \/ objects'[d] = objects[d] \/ objects'[d] \in {Absent, d}
       \/ d \in Lost' \/ (Unnoticed(c)' /\ arg'[c].digest = d)
  /\ Unnoticed(c) => \/ arg[c].digest \in Lost'
                     \/ Unnoticed(c)' /\ arg'[c].digest = arg[c].digest

\* The call takes no temp that it did not have.
Stay(c) ==
  /\ Holds(c)' => Live(c) /\ temp'[c] = temp[c]
  /\ Live(c)' => /\ op'[c] = op[c]
                 /\ pc'[c] = "leaseTemp" => pc[c] = "leaseTemp"
                 /\ temp[c] \in tmp' => /\ temp[c] \in tmp
                                        /\ inode[temp[c]] # 0
                                             => inode'[temp[c]] # 0
  /\ op'[c] = "reap" => /\ op[c] = "reap" /\ temp'[c] \in {temp[c], 0}
                        /\ listed'[c] \subseteq listed[c]
  /\ pc'[c] = "reclaim" => pc[c] = "reclaim" /\ temp'[c] = temp[c]

-----------------------------------------------------------------------------
(* The others keep their clauses.                                          *)
LEMMA LiveTemp ==
  ASSUME NEW c \in Clients, Shape(c), Live(c)
  PROVE  temp[c] \in Temps /\ temp[c] # 0
<1>1. temp[c] \in Temps
  BY DEF Shape
<1> QED  BY <1>1, SMT DEF Temps

\* The place and the arguments of another call stay.
LEMMA ShapeKept ==
  ASSUME NEW c, NEW b \in Clients \ {c}, Others(c), OwnOK(b)
  PROVE  Shape(b)' /\ (Live(b)' <=> Live(b))
  BY DEF Others, OwnOK, Shape, Live, Taking

\* So do the locks it needs.
LEMMA LocksKept ==
  ASSUME NEW c, NEW b \in Clients \ {c}, Others(c), LockFrame(c),
         OwnOK(b)
  PROVE  LocksOK(b)'
<1>1. Committing(b) => arg[b].digest \in Contents
  BY DEF OwnOK, Shape, Committing, PutPcs
<1> QED  BY <1>1, SMT DEF Others, LockFrame, OwnOK, LocksOK, Committing

\* So do its temp and the bytes in it.
LEMMA TempKept ==
  ASSUME NEW c, NEW b \in Clients \ {c}, Others(c), FileFrame(c),
         OwnOK(b)
  PROVE  TempOK(b)' /\ BytesOK(b)'
<1>1. Live(b) => FileKept(temp[b])
  BY DEF FileFrame
<1>2. Verified(b) => Live(b)
  BY DEF Verified, Live, PutPcs
<1>3. TempOK(b)'
  BY <1>1 DEF Others, OwnOK, TempOK, FileKept, Live
<1>4. BytesOK(b)'
  BY <1>1, <1>2 DEF Others, OwnOK, BytesOK, FileKept, Verified
<1> QED  BY <1>3, <1>4

\* So does what it knows of its object.
LEMMA StoreKept ==
  ASSUME NEW c, NEW b \in Clients \ {c}, Others(c), StoreFrame(c),
         OwnOK(b)
  PROVE  StoreOK(b)'
<1>1. CASE pc[b] = "replace"
  <2>1. arg[b].digest \in Contents /\ objectLock[arg[b].digest] = b
    BY <1>1 DEF OwnOK, Shape, LocksOK, Committing, PutPcs
  <2>2. /\ pc'[b] = pc[b] /\ arg'[b] = arg[b] /\ ok'[b] = ok[b] /\ b # c
    BY DEF Others
  <2>3. ~ok[b] /\ (~Sound(arg[b].digest) \/ arg[b].digest \in Lost)
    BY <1>1 DEF OwnOK, StoreOK
  <2>4. Lost \subseteq Lost'
    BY DEF StoreFrame, Lost
  <2>5. \/ objects'[arg[b].digest] = objects[arg[b].digest]
        \/ arg[b].digest \in Lost'
    BY <2>1, <2>2 DEF StoreFrame
  <2> QED  BY <1>1, <2>2, <2>3, <2>4, <2>5 DEF StoreOK, Sound
<1>2. CASE pc[b] # "replace"
  <2>1. ok[b] => arg[b].digest \in Contents
    BY DEF OwnOK, StoreOK, Shape
  <2> QED  BY <1>2, <2>1, SMT DEF Others, StoreFrame, OwnOK, StoreOK, Sound,
                                  Lost
<1> QED  BY <1>1, <1>2

\* So does what it knows of its ref.
LEMMA RefKept ==
  ASSUME NEW c, NEW b \in Clients \ {c}, Others(c), LockFrame(c),
         StoreFrame(c), RefFrame(c), OwnOK(b)
  PROVE  RefOK(b)'
<1>1. Swapping(b) \/ pc[b] \in {"casRef", "casRead"} =>
        arg[b].name \in Names /\ arg[b].target \in Contents \cup {None}
  BY DEF OwnOK, Shape, Swapping, Targets
<1>2. Swapping(b)' <=> Swapping(b)
  BY DEF Others, Swapping
<1>3. Contains(arg[b].target) /\ arg[b].target \in Contents
        => Contains(arg[b].target)' \/ arg[b].target \in retracted'
  <2>1. arg'[b] = arg[b]
    BY DEF Others
  <2>2. ASSUME NEW d \in Contents, Contains(d)
        PROVE  Contains(d)' \/ d \in retracted'
    BY <2>2 DEF StoreFrame
  <2> QED  BY <2>1, <2>2 DEF Contains
<1>4. Swapping(b) => refs'[arg[b].name] = refs[arg[b].name]
  BY <1>1 DEF RefFrame, OwnOK, RefOK
<1> QED  BY <1>1, <1>2, <1>3, <1>4, SMT
         DEF Others, LockFrame, StoreFrame, OwnOK, RefOK, Swapping

\* All the clauses of another call at once.
LEMMA OthersKeep ==
  ASSUME IndInv, NEW c, Frame(c)
  PROVE  \A b \in Clients \ {c} : OwnOK(b)'
<1> SUFFICES ASSUME NEW b \in Clients \ {c} PROVE OwnOK(b)'
  OBVIOUS
<1>1. OwnOK(b) /\ Others(c) /\ LockFrame(c) /\ FileFrame(c) /\ StoreFrame(c)
        /\ RefFrame(c)
  BY DEF IndInv, Frame
<1> QED  BY <1>1, ShapeKept, LocksKept, TempKept, StoreKept, RefKept DEF OwnOK

(* No two calls come to share a temp.                                      *)
LEMMA ApartKept ==
  ASSUME IndInv, NEW c \in Clients, Frame(c), Stay(c)
  PROVE  \A a, b \in Clients : Apart(a, b)'
<1> SUFFICES ASSUME NEW a \in Clients, NEW b \in Clients, Live(b)'
             PROVE  Apart(a, b)'
  BY DEF Apart
<1>1. Others(c) /\ FileFrame(c) /\ Apart(a, b)
  BY DEF Frame, IndInv
<1>2. Live(b) /\ temp'[b] = temp[b] /\ op'[b] = op[b]
        /\ (pc'[b] = "leaseTemp" => pc[b] = "leaseTemp")
  BY <1>1 DEF Others, Stay, Live, Holds
<1>3. temp[b] \in tmp' /\ inode[temp[b]] # 0 => inode'[temp[b]] # 0
  BY <1>1, <1>2 DEF Stay, FileFrame, FileKept
<1>4. temp[b] \in tmp' => temp[b] \in tmp
  BY <1>1, <1>2 DEF Stay, FileFrame, FileKept
<1>5. CASE a = c
  <2>1. Holds(a)' => Holds(a) /\ temp'[a] = temp[a]
    BY <1>5 DEF Stay, Holds
  <2>2. op'[a] = "reap" => /\ op[a] = "reap" /\ temp'[a] \in {temp[a], 0}
                           /\ listed'[a] \subseteq listed[a]
    BY <1>5 DEF Stay
  <2>3. pc'[a] = "reclaim" => pc[a] = "reclaim" /\ temp'[a] = temp[a]
    BY <1>5 DEF Stay
  <2>4. temp[b] # 0
    BY <1>2, LiveTemp DEF IndInv, OwnOK
  <2> QED  BY <1>1, <1>2, <1>3, <1>4, <2>1, <2>2, <2>3, <2>4, SMT DEF Apart
<1>6. CASE a # c
  <2>1. /\ pc'[a] = pc[a] /\ op'[a] = op[a] /\ temp'[a] = temp[a]
        /\ listed'[a] = listed[a] /\ (Holds(a)' => Holds(a))
    BY <1>1, <1>6 DEF Others, Live, Holds, At
  <2> QED  BY <1>1, <1>2, <1>3, <1>4, <2>1, SMT DEF Apart
<1> QED  BY <1>5, <1>6

\* The store lock stays exclusive where it was, and becomes so only alone.
LEMMA StoreLockKept ==
  ASSUME IndInv, NEW c \in Clients, LockFrame(c), LockStep(c)
  PROVE  StoreInv'
  BY SMT DEF IndInv, StoreInv, LockFrame, LockStep, CanShare, CanExclude

\* Objects stay sound where a step spoils none unnoticed.
LEMMA SoundKept ==
  ASSUME IndInv, NEW c \in Clients, Frame(c), SoundStep(c),
         \A b \in Clients : OwnOK(b)'
  PROVE  ObjectsAreSound'
<1>1. ASSUME NEW d \in Contents
      PROVE  \/ objects'[d] \in {Absent, d} \/ d \in (decayed \cup retracted)'
             \/ \E b \in Clients : Unnoticed(b)' /\ arg'[b].digest = d
  <2>1. CASE objects'[d] = objects[d] /\ objects[d] \notin {Absent, d}
             /\ d \notin Lost'
    <3>1. d \notin Lost
      BY <2>1 DEF Frame, StoreFrame, Lost
    <3>2. PICK b \in Clients : Unnoticed(b) /\ arg[b].digest = d
      BY <2>1, <3>1 DEF IndInv, ObjectsAreSound, Lost
    <3>3. CASE b = c
      BY <2>1, <3>2, <3>3 DEF SoundStep
    <3>4. CASE b # c
      BY <3>2, <3>4 DEF Frame, Others, Unnoticed, At
    <3> QED  BY <3>3, <3>4
  <2>2. CASE ~(objects'[d] = objects[d] /\ objects[d] \notin {Absent, d}
               /\ d \notin Lost')
    BY <2>2 DEF SoundStep, Lost
  <2> QED  BY <2>1, <2>2
<1>2. \A b \in Clients :
        At(b, "unlinkTemp")' /\ op'[b] \in Puts /\ ok'[b] =>
          Sound(arg[b].digest)' \/ arg'[b].digest \in (decayed \cup retracted)'
  BY DEF OwnOK, StoreOK, Lost
<1> QED  BY <1>1, <1>2 DEF ObjectsAreSound

\* What a step of c comes to.
Kept(c) == IndInv' /\ FileFrame(c)

\* The pieces of a step of c put together.
LEMMA Assemble ==
  ASSUME IndInv, NEW c \in Clients, Types', Frame(c), OwnOK(c)', LockStep(c),
         SoundStep(c), \A a, b \in Clients : Apart(a, b)'
  PROVE  Kept(c)
<1>1. \A b \in Clients : OwnOK(b)'
  <2>1. \A b \in Clients \ {c} : OwnOK(b)'
    BY OthersKeep
  <2> QED  BY <2>1
<1>2. StoreInv'
  BY StoreLockKept DEF Frame
<1>3. ObjectsAreSound'
  BY <1>1, SoundKept
<1> QED  BY <1>1, <1>2, <1>3 DEF IndInv, Kept, Frame

-----------------------------------------------------------------------------
(* The building blocks: what each changes of the client's own, and that it *)
(* leaves the others alone.                                                *)
LEMMA GotoDoes ==
  ASSUME CallTypes, NEW c \in Clients, NEW p, Goto(c, p)
  PROVE  /\ CallTypes' /\ Others(c) /\ pc'[c] = p
         /\ op' = op /\ arg' = arg /\ temp' = temp /\ seen' = seen
         /\ ok' = ok /\ listed' = listed
  BY DEF CallTypes, Goto, Move, called, work, Others

\* Finish leaves c with nothing to protect.
LEMMA FinishDoes ==
  ASSUME CallTypes, NEW c \in Clients, Finish(c)
  PROVE  CallTypes' /\ Others(c) /\ OwnOK(c)' /\ Stay(c) /\ ~Unnoticed(c)'
<1>1. /\ pc'[c] = "idle" /\ op'[c] = "none" /\ temp'[c] = 0 /\ ok'[c] = FALSE
      /\ Others(c)
  BY DEF CallTypes, Finish, Move, Others
<1>2. CallTypes'
  <2>1. temp' \in [Clients -> Nat] /\ seen' \in [Clients -> Nat]
          /\ ok' \in [Clients -> BOOLEAN]
          /\ listed' \in [Clients -> SUBSET Temps]
    BY SMT DEF CallTypes, Finish
  <2> QED  BY <2>1 DEF CallTypes, Finish, Move
<1>3. Shape(c)' /\ ~Live(c)' /\ ~Verified(c)' /\ ~Committing(c)'
        /\ ~Swapping(c)'
  BY <1>1 DEF Shape, Live, Taking, PutPcs, ProjectPcs, Puts, Verified,
              Committing, Swapping
<1>4. LocksOK(c)' /\ TempOK(c)' /\ BytesOK(c)' /\ StoreOK(c)' /\ RefOK(c)'
  BY <1>1, <1>3 DEF LocksOK, TempOK, BytesOK, StoreOK, RefOK
<1>5. Stay(c) /\ ~Unnoticed(c)'
  BY <1>1, <1>3 DEF Stay, Holds, Unnoticed, At
<1> QED  BY <1>1, <1>2, <1>3, <1>4, <1>5 DEF OwnOK

\* A call begins: its operation, its place and its arguments.
LEMMA EnterDoes ==
  ASSUME CallTypes, NEW c \in Clients, NEW name, NEW first, NEW args,
         Enter(c, name, first, args), listed' \in [Clients -> SUBSET Temps],
         \A b \in Clients \ {c} : listed'[b] = listed[b]
  PROVE  /\ CallTypes' /\ Others(c) /\ pc[c] = "idle" /\ pc'[c] = first
         /\ op'[c] = name /\ arg'[c] = args /\ temp' = temp /\ seen' = seen
         /\ ok' = ok
  BY DEF CallTypes, Enter, Move, Others, At

\* Taking the store lock shared.
LEMMA ShareDoes ==
  ASSUME LockTypes, NEW c \in Clients, Share(c)
  PROVE  /\ LockTypes' /\ LockFrame(c) /\ LockStep(c)
         /\ storeLock'[c] = "shared"
         /\ objectLock' = objectLock /\ refLock' = refLock
  BY DEF LockTypes, Share, LockFrame, LockStep

\* Taking an object's lock, which nobody holds.
LEMMA LockObjectDoes ==
  ASSUME LockTypes, NEW c \in Clients, NEW d \in Contents, LockObject(c, d)
  PROVE  /\ LockTypes' /\ LockFrame(c) /\ LockStep(c) /\ objectLock'[d] = c
         /\ storeLock' = storeLock /\ refLock' = refLock
  BY SMT DEF LockTypes, LockObject, LockFrame, LockStep

\* Dropping all of c's locks, and nobody else's.
LEMMA ReleaseDoes ==
  ASSUME LockTypes, NEW c \in Clients, Release(c)
  PROVE  LockTypes' /\ LockFrame(c) /\ LockStep(c)
  BY SMT DEF LockTypes, Release, Without, LockFrame, LockStep

\* No lock moves.
LEMMA LocksStill ==
  ASSUME LockTypes, NEW c \in Clients, UNCHANGED locks
  PROVE  LockTypes' /\ LockFrame(c) /\ LockStep(c) /\ storeLock' = storeLock
         /\ objectLock' = objectLock /\ refLock' = refLock
  BY DEF LockTypes, locks, LockFrame, LockStep

\* No file moves.
LEMMA FilesStill ==
  ASSUME FileTypes, NEW c \in Clients, UNCHANGED <<files, building>>
  PROVE  FileTypes' /\ FileFrame(c) /\ tmp' = tmp /\ bytes' = bytes
         /\ lease' = lease /\ inode' = inode /\ building' = building
  BY DEF FileTypes, files, FileFrame, FileKept

\* No object and no ref moves.
LEMMA StoreStill ==
  ASSUME StoreTypes, NEW c \in Clients, UNCHANGED <<store, refs>>
  PROVE  /\ StoreTypes' /\ StoreFrame(c) /\ RefFrame(c)
         /\ objects' = objects /\ decayed' = decayed /\ retracted' = retracted
         /\ refs' = refs
  BY DEF StoreTypes, store, StoreFrame, RefFrame, Contains, Lost

\* Where no object changes, none goes bad.
LEMMA SoundStill ==
  ASSUME NEW c \in Clients, objects' = objects, ~Unnoticed(c)
  PROVE  SoundStep(c)
  BY DEF SoundStep

\* A step that touches no file, object, ref or scratch directory.
Silent == UNCHANGED <<files, building, store, refs>>

\* A silent step keeps the invariant if the call's own clauses survive it.
LEMMA SilentStep ==
  ASSUME IndInv, NEW c \in Clients, Silent, Others(c), CallTypes',
         LockTypes', LockFrame(c), LockStep(c), OwnOK(c)', Stay(c),
         ~Unnoticed(c)
  PROVE  Kept(c)
<1>1. FileTypes' /\ StoreTypes' /\ FileFrame(c) /\ StoreFrame(c)
        /\ RefFrame(c) /\ objects' = objects
  BY FilesStill, StoreStill DEF IndInv, Types, Silent
<1>2. Frame(c) /\ Types'
  BY <1>1 DEF Frame, Types
<1> QED  BY <1>1, <1>2, SoundStill, ApartKept, Assemble

-----------------------------------------------------------------------------
(* The quiet actions: calls begin, look, take and drop locks.              *)
\* A call that has no temp yet has nothing to protect but its swap.
Early(c) == ~Live(c)' /\ ~Taking(c)' /\ op'[c] # "reap"

\* The clauses of a call that has no temp yet.
LEMMA EarlyOwn ==
  ASSUME IndInv, NEW c \in Clients, Early(c), Shape(c)', RefOK(c)', ~ok'[c],
         pc'[c] # "collect"
  PROVE  OwnOK(c)' /\ Stay(c)
<1>1. ~Verified(c)' /\ ~Committing(c)' /\ pc'[c] \notin {"leaseTemp", "replace",
        "reclaimLease", "reclaim", "unlinkTemp"}
  BY DEF Early, Live, Taking, Verified, Committing, PutPcs
<1> QED  BY <1>1 DEF Early, OwnOK, LocksOK, TempOK, BytesOK, StoreOK, Stay,
                     Holds, At

\* The first step of every call but a reap's.
LEMMA Begins ==
  ASSUME IndInv, NEW c \in Clients, NEW name, NEW first, NEW args,
         Enter(c, name, first, args), UNCHANGED listed,
         \/ /\ name \in {"bytes", "verify"} /\ first = "peekStore"
            /\ args.digest \in Contents
         \/ /\ name \in {"stream", "adopt"} /\ first = "makeTemp"
            /\ args.digest \in Contents
         \/ /\ name = "cas" /\ first = "casStore" /\ args.name \in Names
            /\ args.target \in Targets
         \/ name = "read" /\ first = "readStore"
         \/ name = "project" /\ first = "exists"
         \/ name = "collect" /\ first = "collectStore"
  PROVE  Kept(c)
<1>1. /\ CallTypes' /\ Others(c) /\ pc[c] = "idle" /\ pc'[c] = first
      /\ op'[c] = name /\ arg'[c] = args /\ temp' = temp /\ ok' = ok
  BY EnterDoes DEF IndInv, Types, CallTypes
<1>2. temp[c] = 0 /\ ~Unnoticed(c) /\ ~ok[c]
  BY <1>1 DEF IndInv, OwnOK, Shape, StoreOK, Live, Taking, PutPcs, ProjectPcs,
              Unnoticed, At
<1>3. Early(c) /\ ~Swapping(c)'
  BY <1>1 DEF Early, Live, Taking, PutPcs, ProjectPcs, Swapping
<1>4. Shape(c)'
  BY <1>1, <1>2, <1>3 DEF Shape, Early, PutPcs, ProjectPcs, Puts, Makers
<1>5. RefOK(c)' /\ ~ok'[c] /\ pc'[c] # "collect"
  BY <1>1, <1>2, <1>3 DEF RefOK
<1>6. LockTypes' /\ LockFrame(c) /\ LockStep(c) /\ Silent
  BY LocksStill DEF IndInv, Types, Enter, Silent, dirs
<1> QED  BY <1>1, <1>2, <1>3, <1>4, <1>5, <1>6, EarlyOwn, SilentStep

\* Every call but a reap's begins.
LEMMA BeginCalls ==
  ASSUME IndInv, NEW c \in Clients,
         \/ \E d \in Puttable : VerifyBegin(c, d)
         \/ \E put \in Puts, d \in Puttable : PutBegin(c, put, d)
         \/ \E n \in Names, target, expected \in Targets :
              CasBegin(c, n, target, expected)
         \/ \E n \in Names : ReadBegin(c, n)
         \/ \E r \in Trees : ProjectBegin(c, r)
         \/ CollectBegin(c)
  PROVE  Kept(c)
<1>1. ASSUME NEW d \in Puttable, VerifyBegin(c, d) PROVE Kept(c)
  BY <1>1, Begins, SMT DEF VerifyBegin, Begin
<1>2. ASSUME NEW put \in Puts, NEW d \in Puttable, PutBegin(c, put, d)
      PROVE  Kept(c)
  <2>1. d \in Contents /\ [digest |-> d].digest = d
    OBVIOUS
  <2> QED  BY <1>2, <2>1, Begins DEF PutBegin, Begin, Puts
<1>3. ASSUME NEW n \in Names, NEW target \in Targets, NEW expected \in Targets,
             CasBegin(c, n, target, expected)
      PROVE  Kept(c)
  <2> DEFINE a == [name |-> n, target |-> target, expected |-> expected]
  <2>1. a.name = n /\ a.target = target
    OBVIOUS
  <2>2. Enter(c, "cas", "casStore", a) /\ UNCHANGED listed
    BY <1>3 DEF CasBegin, Begin
  <2> HIDE DEF a
  <2> QED  BY <2>1, <2>2, Begins
<1>4. ASSUME NEW n \in Names, ReadBegin(c, n) PROVE Kept(c)
  BY <1>4, Begins DEF ReadBegin, Begin
<1>5. ASSUME NEW r \in Trees, ProjectBegin(c, r) PROVE Kept(c)
  BY <1>5, Begins DEF ProjectBegin, Begin
<1>6. CASE CollectBegin(c)
  BY <1>6, Begins DEF CollectBegin
<1> QED  BY <1>1, <1>2, <1>3, <1>4, <1>5, <1>6

\* Going on, before there is a temp; and the end of a call.
LEMMA EarlyGoto ==
  ASSUME IndInv, NEW c \in Clients, NEW p, Goto(c, p), Silent,
         LockTypes', LockFrame(c), LockStep(c), ~Live(c), ~Taking(c),
         p \in {"peekObject", "peek", "makeTemp", "casRef", "casRead",
                "unlinkRef", "readExists", "readBytes"},
         op[c] # "reap", Shape(c)', RefOK(c)'
  PROVE  Kept(c)
<1>1. /\ CallTypes' /\ Others(c) /\ pc'[c] = p /\ op' = op /\ ok' = ok
      /\ temp' = temp
  BY GotoDoes DEF IndInv, Types
<1>2. ~Unnoticed(c) /\ ~ok[c]
  BY DEF IndInv, OwnOK, StoreOK, Live, Taking, PutPcs, Unnoticed, At
<1>3. Early(c) /\ pc'[c] # "collect"
  BY <1>1 DEF Early, Live, Taking, PutPcs, ProjectPcs
<1> QED  BY <1>1, <1>2, <1>3, EarlyOwn, SilentStep

\* A call ends and touches nothing but its locks.
LEMMA SilentEnd ==
  ASSUME IndInv, NEW c \in Clients, Finish(c), Silent, LockTypes',
         LockFrame(c), LockStep(c), ~Unnoticed(c)
  PROVE  Kept(c)
  BY FinishDoes, SilentStep DEF IndInv, Types

\* A call that is not at one of these has no temp, and a call that is at none
\* of the swap's points has no ref.
LEMMA EarlyForm ==
  ASSUME IndInv, NEW c \in Clients,
         pc[c] \in {"peekStore", "peekObject", "peek", "casStore", "casRef",
                    "casRead", "unlinkRef", "readStore", "readExists",
                    "readBytes", "exists", "collectStore"}
  PROVE  ~Live(c) /\ ~Taking(c) /\ ~Unnoticed(c) /\ temp[c] = 0 /\ ~ok[c]
<1>1. ~Live(c) /\ ~Taking(c) /\ ~Unnoticed(c)
  BY DEF Live, Taking, PutPcs, ProjectPcs, Unnoticed, At
<1> QED  BY <1>1 DEF IndInv, OwnOK, Shape, StoreOK

\* A look takes the store lock,
LEMMA PeekStoreKeeps ==
  ASSUME IndInv, NEW c \in Clients, PeekStore(c)
  PROVE  Kept(c)
<1>1. pc[c] = "peekStore" /\ Goto(c, "peekObject") /\ Silent
  BY DEF PeekStore, At, Silent, dirs
<1>2. op[c] \in {"verify", "bytes"} /\ arg[c].digest \in Contents
        /\ ~Live(c) /\ ~Taking(c) /\ temp[c] = 0
  BY <1>1, EarlyForm DEF IndInv, OwnOK, Shape, Puts
<1>3. pc'[c] = "peekObject" /\ op' = op /\ arg' = arg /\ temp' = temp
  BY <1>1, GotoDoes DEF IndInv, Types
<1>4. Shape(c)' /\ RefOK(c)'
  BY <1>2, <1>3 DEF Shape, RefOK, Swapping, Live, Taking, PutPcs, ProjectPcs
<1> QED  BY <1>1, <1>2, <1>4, ShareDoes, EarlyGoto
         DEF PeekStore, IndInv, Types

\* the object's lock,
LEMMA PeekObjectKeeps ==
  ASSUME IndInv, NEW c \in Clients, PeekObject(c)
  PROVE  Kept(c)
<1>1. pc[c] = "peekObject" /\ Goto(c, "peek") /\ Silent
  BY DEF PeekObject, At, Silent, dirs
<1>2. op[c] \in {"verify", "bytes"} /\ arg[c].digest \in Contents
        /\ ~Live(c) /\ ~Taking(c) /\ temp[c] = 0
  BY <1>1, EarlyForm DEF IndInv, OwnOK, Shape, Puts
<1>3. pc'[c] = "peek" /\ op' = op /\ arg' = arg /\ temp' = temp
  BY <1>1, GotoDoes DEF IndInv, Types
<1>4. Shape(c)' /\ RefOK(c)'
  BY <1>2, <1>3 DEF Shape, RefOK, Swapping, Live, Taking, PutPcs, ProjectPcs
<1> QED  BY <1>1, <1>2, <1>4, LockObjectDoes, EarlyGoto
         DEF PeekObject, IndInv, Types

\* and drops both; put_bytes goes on if the object is not there.
LEMMA PeekKeeps ==
  ASSUME IndInv, NEW c \in Clients, Peek(c)
  PROVE  Kept(c)
<1>1. pc[c] = "peek" /\ Silent /\ LockTypes' /\ LockFrame(c) /\ LockStep(c)
  BY ReleaseDoes DEF Peek, At, Silent, dirs, IndInv, Types
<1>2. op[c] \in {"verify", "bytes"} /\ arg[c].digest \in Contents
        /\ ~Live(c) /\ ~Taking(c) /\ temp[c] = 0 /\ ~Unnoticed(c)
  BY <1>1, EarlyForm DEF IndInv, OwnOK, Shape, Puts
<1>3. CASE op[c] = "bytes" /\ Goto(c, "makeTemp")
  <2>1. pc'[c] = "makeTemp" /\ op' = op /\ arg' = arg /\ temp' = temp
    BY <1>3, GotoDoes DEF IndInv, Types
  <2>2. Shape(c)' /\ RefOK(c)'
    BY <1>2, <1>3, <2>1 DEF Shape, RefOK, Swapping, Live, Taking, PutPcs,
                            ProjectPcs, Makers, Puts
  <2> QED  BY <1>1, <1>2, <1>3, <2>2, EarlyGoto
<1>4. CASE Finish(c)
  BY <1>1, <1>2, <1>4, SilentEnd
<1> QED  BY <1>3, <1>4 DEF Peek

\* A swap's target is resident once the store lock is shared.
LEMMA CasStoreKeeps ==
  ASSUME IndInv, NEW c \in Clients, CasStore(c)
  PROVE  Kept(c)
<1>1. pc[c] = "casStore" /\ Silent
  BY DEF CasStore, At, Silent, dirs
<1>2. /\ op[c] = "cas" /\ arg[c].name \in Names /\ arg[c].target \in Targets
      /\ ~Live(c) /\ ~Taking(c) /\ temp[c] = 0 /\ ~Unnoticed(c)
  BY <1>1, EarlyForm DEF IndInv, OwnOK, Shape
<1>3. CASE /\ arg[c].target = None \/ Contains(arg[c].target)
           /\ Share(c) /\ Goto(c, "casRef")
  <2>1. pc'[c] = "casRef" /\ op' = op /\ arg' = arg /\ temp' = temp
    BY <1>3, GotoDoes DEF IndInv, Types
  <2>2. objects' = objects
    BY <1>1 DEF Silent, store
  <2>3. Shape(c)'
    BY <1>2, <2>1 DEF Shape, Live, Taking, PutPcs, ProjectPcs, Puts
  <2>4. RefOK(c)'
    BY <1>3, <2>1, <2>2 DEF RefOK, Swapping, Contains
  <2> QED  BY <1>1, <1>2, <1>3, <2>3, <2>4, ShareDoes, EarlyGoto
           DEF IndInv, Types
<1>4. CASE UNCHANGED locks /\ Finish(c)
  BY <1>1, <1>2, <1>4, LocksStill, SilentEnd DEF IndInv, Types
<1> QED  BY <1>3, <1>4 DEF CasStore

\* Then it takes the ref's lock,
LEMMA CasRefKeeps ==
  ASSUME IndInv, NEW c \in Clients, CasRef(c)
  PROVE  Kept(c)
<1>1. pc[c] = "casRef" /\ Silent /\ Goto(c, "casRead")
  BY DEF CasRef, At, Silent, dirs
<1>2. /\ op[c] = "cas" /\ arg[c].name \in Names /\ arg[c].target \in Targets
      /\ ~Live(c) /\ ~Taking(c) /\ temp[c] = 0
  BY <1>1, EarlyForm DEF IndInv, OwnOK, Shape
<1>3. pc'[c] = "casRead" /\ op' = op /\ arg' = arg /\ temp' = temp
  BY <1>1, GotoDoes DEF IndInv, Types
<1>4. LockTypes' /\ LockFrame(c) /\ LockStep(c) /\ refLock'[arg[c].name] = c
  BY <1>2, SMT DEF CasRef, IndInv, Types, LockTypes, LockFrame, LockStep
<1>5. objects' = objects /\ retracted' = retracted
  BY <1>1 DEF Silent, store
<1>6. Shape(c)'
  BY <1>2, <1>3 DEF Shape, Live, Taking, PutPcs, ProjectPcs, Puts
<1>7. RefOK(c)'
  BY <1>1, <1>3, <1>4, <1>5 DEF IndInv, OwnOK, RefOK, Swapping, Contains
<1> QED  BY <1>1, <1>2, <1>4, <1>6, <1>7, EarlyGoto

\* and goes on only from the value its caller expected.
LEMMA CasReadKeeps ==
  ASSUME IndInv, NEW c \in Clients, CasRead(c)
  PROVE  Kept(c)
<1>1. pc[c] = "casRead" /\ Silent
  BY DEF CasRead, At, Silent, dirs
<1>2. /\ op[c] = "cas" /\ arg[c].name \in Names /\ arg[c].target \in Targets
      /\ ~Live(c) /\ ~Taking(c) /\ temp[c] = 0 /\ ~Unnoticed(c)
  BY <1>1, EarlyForm DEF IndInv, OwnOK, Shape
<1>3. CASE Release(c) /\ Finish(c)
  BY <1>1, <1>2, <1>3, ReleaseDoes, SilentEnd DEF IndInv, Types
<1>4. CASE /\ refs[arg[c].name] = arg[c].expected /\ UNCHANGED locks
           /\ Goto(c, IF arg[c].target = None THEN "unlinkRef" ELSE "makeTemp")
  <2> DEFINE p == IF arg[c].target = None THEN "unlinkRef" ELSE "makeTemp"
  <2>2. p \in {"unlinkRef", "makeTemp"}
           /\ (p = "unlinkRef" => arg[c].target = None)
    OBVIOUS
  <2>3. Goto(c, p)
    BY <1>4
  <2> HIDE DEF p
  <2>1. pc'[c] = p /\ op' = op /\ arg' = arg /\ temp' = temp
    BY <2>3, GotoDoes DEF IndInv, Types
  <2>4. objects' = objects /\ retracted' = retracted /\ refs' = refs
    BY <1>1 DEF Silent, store
  <2>5. Shape(c)'
    BY <1>2, <2>1, <2>2 DEF Shape, Live, Taking, PutPcs, ProjectPcs, Puts,
                            Makers
  <2>6. refLock' = refLock
    BY <1>4 DEF locks
  <2>7. RefOK(c)'
    BY <1>1, <1>2, <1>4, <2>1, <2>2, <2>4, <2>6
    DEF IndInv, OwnOK, RefOK, Swapping, Contains
  <2> QED  BY <1>1, <1>2, <1>4, <2>2, <2>3, <2>5, <2>7, LocksStill, EarlyGoto
           DEF IndInv, Types
<1> QED  BY <1>3, <1>4 DEF CasRead

\* read_ref and the first look of project_snapshot.
LEMMA ReadsKeep ==
  ASSUME IndInv, NEW c \in Clients,
         ReadStore(c) \/ ReadExists(c) \/ ReadBytes(c) \/ Exists(c)
  PROVE  Kept(c)
<1>1. pc[c] \in {"readStore", "readExists", "readBytes", "exists"} /\ Silent
  BY DEF ReadStore, ReadExists, ReadBytes, Exists, At, Silent, dirs
<1>2. ~Live(c) /\ ~Taking(c) /\ temp[c] = 0 /\ ~Unnoticed(c)
        /\ op[c] \in {"read", "project"}
  BY <1>1, EarlyForm DEF IndInv, OwnOK, Shape
<1>3. LockTypes' /\ LockFrame(c) /\ LockStep(c)
  BY ShareDoes, ReleaseDoes, LocksStill
  DEF IndInv, Types, ReadStore, ReadExists, ReadBytes, Exists
<1>4. CASE Finish(c)
  BY <1>1, <1>2, <1>3, <1>4, SilentEnd
<1>5. ASSUME NEW p \in {"readExists", "readBytes", "makeTemp"}, Goto(c, p),
             p = "makeTemp" <=> pc[c] = "exists"
      PROVE  Kept(c)
  <2>1. pc'[c] = p /\ op' = op /\ arg' = arg /\ temp' = temp
    BY <1>5, GotoDoes DEF IndInv, Types
  <2>2. op[c] = IF p = "makeTemp" THEN "project" ELSE "read"
    BY <1>1, <1>5 DEF IndInv, OwnOK, Shape
  <2>3. Shape(c)' /\ RefOK(c)'
    BY <1>2, <1>5, <2>1, <2>2 DEF Shape, RefOK, Swapping, Live, Taking, PutPcs,
                            ProjectPcs, Makers, Puts
  <2> QED  BY <1>1, <1>2, <1>3, <1>5, <2>3, EarlyGoto
<1> QED  BY <1>4, <1>5 DEF ReadStore, ReadExists, ReadBytes, Exists, At

\* A collector that is done with its listing, and a reap.
LEMMA SweepsEnd ==
  ASSUME IndInv, NEW c \in Clients, CollectEnd(c) \/ ReapEnd(c)
  PROVE  Kept(c)
<1>1. ~Unnoticed(c)
  BY DEF CollectEnd, ReapEnd, At, Unnoticed
<1>2. Silent /\ Finish(c) /\ LockTypes' /\ LockFrame(c) /\ LockStep(c)
  BY ReleaseDoes, LocksStill
  DEF CollectEnd, ReapEnd, Silent, dirs, IndInv, Types
<1> QED  BY <1>1, <1>2, SilentEnd

\* The collector's exclusive lock and its listing.
LEMMA CollectStoreKeeps ==
  ASSUME IndInv, NEW c \in Clients, CollectStore(c)
  PROVE  Kept(c)
<1>1. pc[c] = "collectStore" /\ Silent
  BY DEF CollectStore, At, Silent, dirs
<1>2. ~Live(c) /\ ~Taking(c) /\ ~Unnoticed(c) /\ temp[c] = 0 /\ ~ok[c]
        /\ op[c] = "collect"
  BY <1>1, EarlyForm DEF IndInv, OwnOK, Shape
<1>3. LockTypes' /\ LockFrame(c) /\ LockStep(c) /\ storeLock'[c] = "exclusive"
  BY DEF CollectStore, IndInv, Types, LockTypes, LockFrame, LockStep
<1>4. /\ CallTypes' /\ Others(c) /\ pc'[c] = "collect" /\ op' = op
      /\ temp' = temp /\ ok' = ok
  BY DEF CollectStore, Move, called, work, IndInv, Types, CallTypes, FileTypes,
         Others
<1>5. ~Live(c)' /\ ~Taking(c)' /\ ~Swapping(c)'
  BY <1>4, <1>2 DEF Live, Taking, PutPcs, ProjectPcs, Swapping
<1>6. Shape(c)' /\ RefOK(c)'
  BY <1>2, <1>4, <1>5 DEF Shape, PutPcs, ProjectPcs, Puts, RefOK
<1>7. OwnOK(c)' /\ Stay(c)
  BY <1>2, <1>3, <1>4, <1>5, <1>6
  DEF OwnOK, LocksOK, TempOK, BytesOK, StoreOK, Stay, Holds, At,
      Committing, Verified
<1> QED  BY <1>1, <1>2, <1>3, <1>4, <1>7, SilentStep

-----------------------------------------------------------------------------
(* A put, from the filled temp to the end of _commit_temp.                 *)
LEMMA PutForm ==
  ASSUME IndInv, NEW c \in Clients, pc[c] \in PutPcs
  PROVE  /\ op[c] \in Puts /\ arg[c].digest \in Contents /\ Live(c)
         /\ temp[c] \in Temps
         /\ \A b \in Clients \ {c} : Live(b) => temp[b] # temp[c]
<1>1. op[c] \in Puts /\ Live(c)
  BY DEF IndInv, OwnOK, Shape, Live
<1>2. \A b \in Clients \ {c} : Live(b) => temp[b] # temp[c]
  BY <1>1 DEF IndInv, Apart, Holds
<1> QED  BY <1>1, <1>2 DEF IndInv, OwnOK, Shape

\* A put's own clauses, from what its step does to its temp and object.
LEMMA PutOwn ==
  ASSUME IndInv, NEW c \in Clients, pc[c] \in PutPcs,
         pc'[c] \in PutPcs \cup {"closeTemp"}, op'[c] = op[c],
         arg'[c] = arg[c], temp'[c] = temp[c], building' = building,
         Committing(c)' => objectLock'[arg[c].digest] = c,
         temp[c] \in tmp' => /\ temp[c] \in tmp
                             /\ lease'[temp[c]] = lease[temp[c]]
                             /\ inode'[temp[c]] = inode[temp[c]],
         BytesOK(c)', StoreOK(c)'
  PROVE  OwnOK(c)' /\ Stay(c)
<1>1. /\ op[c] \in Puts /\ arg[c].digest \in Contents /\ Live(c)
      /\ temp[c] \in Temps
  BY PutForm
<1>2. Live(c)' /\ pc'[c] \notin {"leaseTemp", "collect", "reclaimLease",
                                 "reclaim", "mkdir"}
        /\ pc[c] # "leaseTemp"
  BY DEF Live, PutPcs
<1>3. op[c] \notin {"project", "cas", "reap", "none"}
  BY <1>1 DEF Puts
<1>4. Shape(c)'
  BY <1>1, <1>2, <1>3 DEF Shape, PutPcs, ProjectPcs, Puts, Makers
<1>5. TempOK(c)'
  BY <1>1, <1>2, <1>3, ZenonT(30) DEF IndInv, OwnOK, TempOK
<1>6. ~Swapping(c)' /\ pc'[c] \notin {"casRead", "casRef", "unlinkRef"}
  BY <1>3 DEF Swapping, PutPcs
<1>7. LocksOK(c)' /\ RefOK(c)'
  BY <1>2, <1>6 DEF LocksOK, RefOK
<1>8. Stay(c)
  BY <1>1, <1>2, <1>3 DEF Stay
<1> QED  BY <1>4, <1>5, <1>7, <1>8 DEF OwnOK

\* A put goes on and touches no file and no object.
LEMMA PutGoto ==
  ASSUME IndInv, NEW c \in Clients, pc[c] \in PutPcs \ {"recheck"},
         NEW p \in PutPcs \cup {"closeTemp"}, Goto(c, p), Silent,
         LockTypes', LockFrame(c), LockStep(c),
         Committing(c)' => objectLock'[arg[c].digest] = c,
         Verified(c)' => Verified(c),
         p = "replace" => ~Sound(arg[c].digest),
         p = "unlink" \/ p = "closeTemp" \/ pc[c] # "unlink"
  PROVE  Kept(c)
<1>1. /\ CallTypes' /\ Others(c) /\ pc'[c] = p
      /\ op' = op /\ arg' = arg /\ temp' = temp /\ seen' = seen
      /\ ok' = ok /\ listed' = listed
  BY GotoDoes DEF IndInv, Types
<1>2. /\ tmp' = tmp /\ bytes' = bytes /\ lease' = lease /\ inode' = inode
      /\ building' = building /\ objects' = objects /\ Lost' = Lost
  BY DEF Silent, files, store, Lost
<1>3. BytesOK(c)'
  BY <1>1, <1>2 DEF IndInv, OwnOK, BytesOK
<1>4. StoreOK(c)'
  BY <1>1, <1>2 DEF IndInv, OwnOK, StoreOK, Sound, PutPcs
<1>5. OwnOK(c)' /\ Stay(c)
  BY <1>1, <1>2, <1>3, <1>4, PutOwn
<1> QED  BY <1>1, <1>5, SilentStep DEF Unnoticed, At

\* The commit takes the store lock and the object's.
LEMMA CommitsKeep ==
  ASSUME IndInv, NEW c \in Clients, CommitStore(c) \/ CommitObject(c)
  PROVE  Kept(c)
<1>1. Silent /\ pc[c] \in PutPcs \ {"recheck", "unlink"} /\ Verified(c)
  BY DEF CommitStore, CommitObject, At, Silent, dirs, PutPcs, Verified
<1>2. CASE CommitStore(c)
  <2>1. Goto(c, "commitObject") /\ pc'[c] = "commitObject"
    BY <1>2, GotoDoes DEF CommitStore, IndInv, Types
  <2>2. LockTypes' /\ LockFrame(c) /\ LockStep(c)
    BY <1>2, ShareDoes DEF CommitStore, IndInv, Types
  <2> QED  BY <1>1, <2>1, <2>2, PutGoto DEF PutPcs, Committing
<1>3. CASE CommitObject(c)
  <2>1. Goto(c, "identify")
    BY <1>3 DEF CommitObject
  <2>2. LockTypes' /\ LockFrame(c) /\ LockStep(c)
          /\ objectLock'[arg[c].digest] = c
    BY <1>1, <1>3, LockObjectDoes, PutForm DEF CommitObject, IndInv, Types
  <2> QED  BY <1>1, <2>1, <2>2, PutGoto DEF PutPcs
<1> QED  BY <1>2, <1>3

\* The temp is identified again before the link.
LEMMA IdentifyKeeps ==
  ASSUME IndInv, NEW c \in Clients, Identify(c)
  PROVE  Kept(c)
<1>1. /\ Silent /\ pc[c] \in PutPcs \ {"recheck", "unlink"} /\ Verified(c)
      /\ Committing(c) /\ UNCHANGED locks
  BY DEF Identify, At, Silent, dirs, PutPcs, Verified, Committing
<1>2. /\ LockTypes' /\ LockFrame(c) /\ LockStep(c)
      /\ objectLock'[arg[c].digest] = c
  BY <1>1, LocksStill DEF IndInv, Types, OwnOK, LocksOK
<1>3. Goto(c, "link") \/ Goto(c, "unlink")
  BY DEF Identify
<1> QED  BY <1>1, <1>2, <1>3, PutGoto DEF PutPcs

\* A resident object that hashes to its name is the put's success.
LEMMA RehashKeeps ==
  ASSUME IndInv, NEW c \in Clients, Rehash(c)
  PROVE  Kept(c)
<1>1. /\ Silent /\ pc[c] \in PutPcs \ {"recheck", "unlink"} /\ Verified(c)
      /\ Committing(c) /\ UNCHANGED locks
  BY DEF Rehash, At, Silent, dirs, PutPcs, Verified, Committing
<1>2. /\ LockTypes' /\ LockFrame(c) /\ LockStep(c)
      /\ objectLock'[arg[c].digest] = c
  BY <1>1, LocksStill DEF IndInv, Types, OwnOK, LocksOK
<1>3. CASE /\ ~Sound(arg[c].digest)
           /\ Goto(c, "replace") \/ Goto(c, "unlink")
  BY <1>1, <1>2, <1>3, PutGoto DEF PutPcs
<1>4. CASE /\ Sound(arg[c].digest) /\ Move(c, "unlink")
           /\ ok' = [ok EXCEPT ![c] = TRUE]
           /\ UNCHANGED <<called, temp, seen, filled, listed>>
  <2>1. /\ op' = op /\ arg' = arg /\ temp' = temp
        /\ pc'[c] = "unlink" /\ Others(c) /\ CallTypes'
    BY <1>4 DEF IndInv, Types, CallTypes, Move, called, Others
  <2>2. /\ tmp' = tmp /\ bytes' = bytes /\ lease' = lease /\ inode' = inode
        /\ building' = building /\ objects' = objects
    BY <1>1 DEF Silent, files, store
  <2>3. BytesOK(c)'
    BY <2>1 DEF BytesOK, Verified
  <2>4. StoreOK(c)'
    BY <1>1, <1>4, <2>1, <2>2, PutForm DEF StoreOK, Sound
  <2>5. OwnOK(c)' /\ Stay(c)
    BY <1>1, <1>2, <2>1, <2>2, <2>3, <2>4, PutOwn DEF PutPcs
  <2> QED  BY <1>1, <1>2, <2>1, <2>5, SilentStep DEF Unnoticed, At
<1> QED  BY <1>3, <1>4 DEF Rehash

\* A step of c that takes no temp it did not have.
LEMMA Compose ==
  ASSUME IndInv, NEW c \in Clients,
         FileTypes', StoreTypes', LockTypes', CallTypes',
         Others(c), LockFrame(c), LockStep(c), FileFrame(c), StoreFrame(c),
         RefFrame(c), SoundStep(c), OwnOK(c)', Stay(c)
  PROVE  Kept(c)
<1>1. Frame(c) /\ Types'
  BY DEF Frame, Types
<1> QED  BY <1>1, ApartKept, Assemble

\* A name goes and no other is touched.
LEMMA RemoveDoes ==
  ASSUME FileTypes, NEW t \in Temps, Remove(t), UNCHANGED building
  PROVE  /\ FileTypes' /\ t \notin tmp' /\ tmp' \subseteq tmp
         /\ \A u \in Temps \ {t} : FileKept(u)
<1>1. tmp' \subseteq tmp /\ t \notin tmp' /\ tmp' \subseteq Temps
  BY DEF FileTypes, Remove
<1>2. /\ bytes' \in [Temps -> Contents \cup {Torn}]
      /\ inode' \in [Temps -> Nat]
  BY SMT DEF FileTypes, Remove
<1>3. lease' = [u \in Temps |-> lease'[u]]
        /\ building' = [u \in Temps |-> building'[u]]
  BY DEF FileTypes, Remove
<1>4. \A u \in Temps \ tmp' : lease'[u] = None /\ inode'[u] = 0
  BY SMT DEF FileTypes, Remove
<1>5. ASSUME NEW u \in Temps \ {t} PROVE FileKept(u)
  BY DEF FileTypes, Remove, FileKept
<1> QED  BY <1>1, <1>2, <1>3, <1>4, <1>5 DEF FileTypes

\* What belongs to no other creator may go.
LEMMA OwnFrame ==
  ASSUME IndInv, NEW c \in Clients, NEW t \in Temps,
         \A u \in Temps \ {t} : FileKept(u),
         \A b \in Clients \ {c} : Live(b) => temp[b] # t
  PROVE  FileFrame(c)
<1>1. \A b \in Clients \ {c} : Live(b) => temp[b] \in Temps \ {t}
  BY LiveTemp DEF IndInv, OwnOK
<1> QED  BY <1>1 DEF FileFrame

\* What is verified is what the temp holds, and which file that was.
LEMMA CheckKeeps ==
  ASSUME IndInv, NEW c \in Clients, Check(c)
  PROVE  Kept(c)
<1>1. /\ pc[c] = "check" /\ pc[c] \in PutPcs
      /\ UNCHANGED <<locks, building, store, refs>>
  BY DEF Check, At, dirs, PutPcs
<1>2. LockTypes' /\ LockFrame(c) /\ LockStep(c)
  BY <1>1, LocksStill DEF IndInv, Types
<1>3. CASE Goto(c, "closeTemp") /\ UNCHANGED files
  <2>1. pc'[c] = "closeTemp"
    BY <1>3, GotoDoes DEF IndInv, Types
  <2> QED  BY <1>1, <1>2, <1>3, <2>1, PutGoto DEF Committing, Verified, Silent
<1>4. CASE Goto(c, "closeTemp") /\ Remove(temp[c])
  <2>1. /\ CallTypes' /\ Others(c) /\ pc'[c] = "closeTemp"
        /\ op' = op /\ arg' = arg /\ temp' = temp /\ ok' = ok
    BY <1>4, GotoDoes DEF IndInv, Types
  <2>2. FileTypes' /\ FileFrame(c) /\ temp[c] \notin tmp'
    BY <1>1, <1>4, RemoveDoes, OwnFrame, PutForm DEF IndInv, Types
  <2>3. StoreTypes' /\ StoreFrame(c) /\ RefFrame(c) /\ objects' = objects
    BY <1>1, StoreStill DEF IndInv, Types
  <2>4. SoundStep(c)
    BY <1>1, <2>3, SoundStill DEF Unnoticed, At
  <2>5. StoreOK(c)' /\ BytesOK(c)' /\ ~Committing(c)'
    BY <1>1, <2>1
    DEF IndInv, OwnOK, StoreOK, BytesOK, Verified, Committing
  <2>6. OwnOK(c)' /\ Stay(c)
    BY <1>1, <2>1, <2>2, <2>5, PutOwn
  <2> QED  BY <1>2, <2>1, <2>2, <2>3, <2>4, <2>6, Compose
<1>5. CASE /\ Matches(c) /\ Move(c, "commitStore")
           /\ seen' = [seen EXCEPT ![c] = inode[temp[c]]]
           /\ UNCHANGED <<files, called, temp, ok, filled, listed>>
  <2>1. /\ op' = op /\ arg' = arg /\ temp' = temp /\ ok' = ok
        /\ pc'[c] = "commitStore" /\ Others(c)
    BY <1>5 DEF IndInv, Types, CallTypes, Move, called, Others
  <2>2. inode[temp[c]] \in Nat
    BY <1>1, PutForm DEF IndInv, Types, FileTypes
  <2>3. seen' \in [Clients -> Nat] /\ seen'[c] = inode[temp[c]]
    BY <1>5, <2>2 DEF IndInv, Types, CallTypes
  <2>4. CallTypes'
    BY <1>5, <2>1, <2>3 DEF IndInv, Types, CallTypes, Move
  <2>5. /\ tmp' = tmp /\ bytes' = bytes /\ lease' = lease /\ inode' = inode
        /\ building' = building /\ Silent
    BY <1>1, <1>5 DEF Silent, files
  <2>6. BytesOK(c)'
    BY <1>5, <2>1, <2>2, <2>3, <2>5, SMT DEF Matches, BytesOK
  <2>7. StoreOK(c)'
    BY <1>1, <2>1 DEF IndInv, OwnOK, StoreOK
  <2>8. OwnOK(c)' /\ Stay(c)
    BY <1>1, <2>1, <2>5, <2>6, <2>7, PutOwn DEF PutPcs, Committing
  <2> QED  BY <1>1, <1>2, <2>1, <2>4, <2>5, <2>8, SilentStep DEF Unnoticed, At
<1> QED  BY <1>3, <1>4, <1>5 DEF Check

\* What is installed is what was verified, or is noticed to be something else:
\* only the holder of the object's lock writes it, over nothing or over an
\* unsound object.
LEMMA InstallDoes ==
  ASSUME IndInv, NEW c \in Clients, pc[c] \in {"link", "replace"},
         temp[c] \in tmp, Install(c), UNCHANGED <<decayed, retracted, refs>>,
         pc[c] = "link" => objects[arg[c].digest] = Absent
  PROVE  /\ StoreTypes' /\ CallTypes' /\ Others(c) /\ StoreFrame(c)
         /\ RefFrame(c) /\ SoundStep(c) /\ StoreOK(c)' /\ BytesOK(c)'
         /\ pc'[c] \in {"recheck", "unlink"} /\ op' = op /\ arg' = arg
         /\ temp' = temp
<1> DEFINE d == arg[c].digest
           t == temp[c]
<1>1. pc[c] \in PutPcs /\ Verified(c) /\ Committing(c) /\ ~Unnoticed(c)
  BY DEF PutPcs, Verified, Committing, Unnoticed, At
<1>2. op[c] \in Puts /\ d \in Contents /\ t \in Temps
  BY <1>1, PutForm
<1>3. objectLock[d] = c /\ d # Absent
  BY <1>1, <1>2 DEF IndInv, OwnOK, LocksOK, Absent
<1>4. ~Sound(d) \/ d \in Lost
  BY <1>3 DEF IndInv, OwnOK, StoreOK, Sound
<1>5. /\ objects'[d] = bytes[t]
      /\ \A e \in Contents \ {d} : objects'[e] = objects[e]
  BY <1>2 DEF Install, IndInv, Types, StoreTypes
<1>6. bytes[t] # Absent
  BY <1>2, SMT DEF IndInv, Types, FileTypes, Absent
<1>7. /\ op' = op /\ arg' = arg /\ temp' = temp /\ Others(c)
      /\ pc'[c] = (IF op[c] = "adopt" THEN "recheck" ELSE "unlink")
      /\ ok'[c] = Identified(c)
  BY DEF Install, Move, called, IndInv, Types, CallTypes, Others
<1>8. CallTypes'
  <2>1. Identified(c) \in BOOLEAN
    BY DEF Identified, Same
  <2> QED  BY <2>1 DEF Install, Move, called, IndInv, Types, CallTypes
<1>9. StoreTypes'
  BY DEF Install, IndInv, Types, StoreTypes
<1>10. Identified(c) => bytes[t] = d
  BY <1>1 DEF Identified, Same, IndInv, OwnOK, BytesOK
<1>11. Lost' = Lost
  BY DEF Lost
<1>12. StoreFrame(c) /\ RefFrame(c)
  BY <1>3, <1>4, <1>5, <1>6, <1>11 DEF StoreFrame, RefFrame, Contains
<1>13. StoreOK(c)'
  BY <1>2, <1>5, <1>7, <1>10 DEF StoreOK, Sound
<1>14. BytesOK(c)'
  BY <1>7 DEF BytesOK, Verified
<1>15. ~Identified(c) => Unnoticed(c)'
  BY <1>7 DEF Unnoticed, At, Identified
<1>16. SoundStep(c)
  BY <1>1, <1>5, <1>7, <1>10, <1>15 DEF SoundStep
<1> QED  BY <1>7, <1>8, <1>9, <1>12, <1>13, <1>14, <1>16

\* os.link installs over nothing.
LEMMA LinkKeeps ==
  ASSUME IndInv, NEW c \in Clients, Link(c)
  PROVE  Kept(c)
<1>1. /\ pc[c] \in PutPcs \ {"recheck", "unlink"} /\ Verified(c)
      /\ Committing(c) /\ UNCHANGED locks /\ pc[c] = "link"
  BY DEF Link, At, PutPcs, Verified, Committing
<1>2. /\ LockTypes' /\ LockFrame(c) /\ LockStep(c)
      /\ objectLock'[arg[c].digest] = c
  BY <1>1, LocksStill DEF IndInv, Types, OwnOK, LocksOK
<1>3. UNCHANGED <<files, building, decayed, retracted, refs>>
  BY DEF Link, dirs
<1>4. CASE (Goto(c, "unlink") \/ Goto(c, "rehash")) /\ UNCHANGED objects
  BY <1>1, <1>2, <1>3, <1>4, PutGoto DEF PutPcs, Silent, store
<1>5. CASE /\ temp[c] \in tmp /\ objects[arg[c].digest] = Absent
           /\ Install(c)
  <2>1. /\ StoreTypes' /\ CallTypes' /\ Others(c) /\ StoreFrame(c)
        /\ RefFrame(c) /\ SoundStep(c) /\ StoreOK(c)' /\ BytesOK(c)'
        /\ pc'[c] \in {"recheck", "unlink"} /\ op' = op /\ arg' = arg
        /\ temp' = temp
    BY <1>1, <1>3, <1>5, InstallDoes
  <2>2. /\ FileTypes' /\ FileFrame(c) /\ tmp' = tmp /\ lease' = lease
        /\ inode' = inode /\ building' = building
    BY <1>3, FilesStill DEF IndInv, Types
  <2>3. OwnOK(c)' /\ Stay(c)
    BY <1>1, <1>2, <2>1, <2>2, PutOwn DEF PutPcs
  <2> QED  BY <1>2, <2>1, <2>2, <2>3, Compose
<1> QED  BY <1>4, <1>5 DEF Link

\* os.replace installs over an unsound object.
LEMMA ReplaceKeeps ==
  ASSUME IndInv, NEW c \in Clients, Replace(c)
  PROVE  Kept(c)
<1>1. /\ pc[c] \in PutPcs \ {"recheck", "unlink"} /\ Verified(c)
      /\ Committing(c) /\ UNCHANGED locks /\ pc[c] = "replace"
  BY DEF Replace, At, PutPcs, Verified, Committing
<1>2. /\ LockTypes' /\ LockFrame(c) /\ LockStep(c)
      /\ objectLock'[arg[c].digest] = c
  BY <1>1, LocksStill DEF IndInv, Types, OwnOK, LocksOK
<1>3. UNCHANGED <<building, decayed, retracted, refs>>
  BY DEF Replace, dirs
<1>4. CASE Goto(c, "unlink") /\ UNCHANGED <<objects, files>>
  BY <1>1, <1>2, <1>3, <1>4, PutGoto DEF PutPcs, Silent, store
<1>5. CASE temp[c] \in tmp /\ Install(c) /\ Remove(temp[c])
  <2>1. /\ StoreTypes' /\ CallTypes' /\ Others(c) /\ StoreFrame(c)
        /\ RefFrame(c) /\ SoundStep(c) /\ StoreOK(c)' /\ BytesOK(c)'
        /\ pc'[c] \in {"recheck", "unlink"} /\ op' = op /\ arg' = arg
        /\ temp' = temp
    BY <1>1, <1>3, <1>5, InstallDoes
  <2>2. FileTypes' /\ FileFrame(c) /\ temp[c] \notin tmp'
    BY <1>1, <1>3, <1>5, RemoveDoes, OwnFrame, PutForm DEF IndInv, Types
  <2>3. OwnOK(c)' /\ Stay(c)
    BY <1>1, <1>2, <1>3, <2>1, <2>2, PutOwn DEF PutPcs
  <2> QED  BY <1>2, <2>1, <2>2, <2>3, Compose
<1> QED  BY <1>4, <1>5 DEF Replace

\* An adoption that finds another file in place retracts it.
LEMMA RecheckKeeps ==
  ASSUME IndInv, NEW c \in Clients, Recheck(c)
  PROVE  Kept(c)
<1> DEFINE d == arg[c].digest
<1>1. /\ pc[c] \in PutPcs /\ Committing(c) /\ UNCHANGED locks
      /\ pc[c] = "recheck" /\ Goto(c, "unlink")
      /\ UNCHANGED <<files, building, decayed, refs>>
  BY DEF Recheck, At, PutPcs, Committing, dirs
<1>2. /\ LockTypes' /\ LockFrame(c) /\ LockStep(c)
      /\ objectLock'[arg[c].digest] = c
  BY <1>1, LocksStill DEF IndInv, Types, OwnOK, LocksOK
<1>3. /\ CallTypes' /\ Others(c) /\ pc'[c] = "unlink"
      /\ op' = op /\ arg' = arg /\ temp' = temp /\ ok' = ok
  BY <1>1, GotoDoes DEF IndInv, Types
<1>4. /\ FileTypes' /\ FileFrame(c) /\ tmp' = tmp /\ lease' = lease
      /\ inode' = inode /\ building' = building
  BY <1>1, FilesStill DEF IndInv, Types
<1>5. d \in Contents /\ op[c] \in Puts
  BY <1>1, PutForm
<1>6. /\ StoreTypes' /\ retracted \subseteq retracted'
      /\ \A e \in Contents \ {d} : objects'[e] = objects[e]
      /\ IF ok[c] THEN objects' = objects ELSE d \in retracted'
  BY <1>5 DEF Recheck, IndInv, Types, StoreTypes
<1>7. objects'[d] = objects[d] \/ d \in retracted'
  BY <1>6
<1>8. StoreFrame(c) /\ RefFrame(c)
  BY <1>1, <1>6, <1>7 DEF StoreFrame, RefFrame, Contains, Lost
<1>9. SoundStep(c)
  BY <1>6, <1>7 DEF SoundStep, Unnoticed, Lost
<1>10. StoreOK(c)'
  BY <1>1, <1>3, <1>6 DEF IndInv, OwnOK, StoreOK, Sound, Lost
<1>11. BytesOK(c)'
  BY <1>3 DEF BytesOK, Verified
<1>12. OwnOK(c)' /\ Stay(c)
  BY <1>1, <1>2, <1>3, <1>4, <1>10, <1>11, PutOwn DEF PutPcs
<1> QED  BY <1>2, <1>3, <1>4, <1>6, <1>8, <1>9, <1>12, Compose

\* The temp goes, and the locks with it.
LEMMA UnlinkKeeps ==
  ASSUME IndInv, NEW c \in Clients, Unlink(c)
  PROVE  Kept(c)
<1>1. /\ pc[c] \in PutPcs /\ pc[c] = "unlink" /\ Goto(c, "closeTemp")
      /\ UNCHANGED <<building, store, refs>>
  BY DEF Unlink, At, PutPcs, dirs
<1>2. LockTypes' /\ LockFrame(c) /\ LockStep(c)
  BY ReleaseDoes DEF Unlink, IndInv, Types
<1>3. /\ CallTypes' /\ Others(c) /\ pc'[c] = "closeTemp"
      /\ op' = op /\ arg' = arg /\ temp' = temp /\ ok' = ok
  BY <1>1, GotoDoes DEF IndInv, Types
<1>4. FileTypes' /\ FileFrame(c) /\ temp[c] \notin tmp'
  BY <1>1, RemoveDoes, OwnFrame, PutForm DEF Unlink, IndInv, Types
<1>5. /\ StoreTypes' /\ StoreFrame(c) /\ RefFrame(c) /\ objects' = objects
      /\ decayed' = decayed /\ retracted' = retracted
  BY <1>1, StoreStill DEF IndInv, Types
<1>6. SoundStep(c)
  BY <1>1, <1>5, SoundStill DEF Unnoticed, At
<1>7. StoreOK(c)'
  BY <1>1, <1>3, <1>5 DEF IndInv, OwnOK, StoreOK, Sound, Lost
<1>8. BytesOK(c)' /\ ~Committing(c)'
  BY <1>3 DEF BytesOK, Verified, Committing
<1>9. OwnOK(c)' /\ Stay(c)
  BY <1>1, <1>3, <1>4, <1>7, <1>8, PutOwn
<1> QED  BY <1>2, <1>3, <1>4, <1>5, <1>6, <1>9, Compose

\* The caller's bytes reach the call's own temp.
LEMMA FillKeeps ==
  ASSUME IndInv, NEW c \in Clients, Fill(c)
  PROVE  Kept(c)
<1>1. /\ pc[c] \in PutPcs /\ pc[c] = "fill" /\ Goto(c, "check")
      /\ UNCHANGED <<tmp, lease, inode, building, store, refs, locks>>
  BY DEF Fill, At, PutPcs, dirs
<1>2. LockTypes' /\ LockFrame(c) /\ LockStep(c)
  BY <1>1, LocksStill DEF IndInv, Types
<1>3. /\ CallTypes' /\ Others(c) /\ pc'[c] = "check"
      /\ op' = op /\ arg' = arg /\ temp' = temp /\ ok' = ok
  BY <1>1, GotoDoes DEF IndInv, Types
<1>4. op[c] \in Puts /\ temp[c] \in Temps
        /\ \A b \in Clients \ {c} : Live(b) => temp[b] # temp[c]
  BY <1>1, PutForm
<1>5. PICK b \in Contents \cup {Torn} :
        bytes' = IF temp[c] \in tmp THEN [bytes EXCEPT ![temp[c]] = b]
                 ELSE bytes
  <2>1. arg[c].digest \in Contents
    BY <1>1, PutForm
  <2> QED  BY <2>1 DEF Fill, Bytes
<1>6. FileTypes' /\ \A u \in Temps \ {temp[c]} : FileKept(u)
  BY <1>1, <1>4, <1>5, SMT DEF IndInv, Types, FileTypes, FileKept
<1>7. FileFrame(c)
  BY <1>4, <1>6, OwnFrame
<1>8. /\ StoreTypes' /\ StoreFrame(c) /\ RefFrame(c) /\ objects' = objects
  BY <1>1, StoreStill DEF IndInv, Types
<1>9. SoundStep(c)
  BY <1>1, <1>8, SoundStill DEF Unnoticed, At
<1>10. StoreOK(c)'
  BY <1>1, <1>3 DEF IndInv, OwnOK, StoreOK
<1>11. BytesOK(c)' /\ ~Committing(c)'
  BY <1>3 DEF BytesOK, Verified, Committing
<1>12. OwnOK(c)' /\ Stay(c)
  BY <1>1, <1>3, <1>10, <1>11, PutOwn DEF PutPcs
<1> QED  BY <1>2, <1>3, <1>6, <1>7, <1>8, <1>9, <1>12, Compose

-----------------------------------------------------------------------------
(* The temps: made under the shared store lock, leased, closed.            *)
LEMMA MakerForm ==
  ASSUME IndInv, NEW c \in Clients, Live(c)
  PROVE  /\ op[c] \in Makers /\ temp[c] \in Temps
         /\ \A b \in Clients \ {c} : Live(b) => temp[b] # temp[c]
<1>1. op[c] \in Makers
  BY DEF IndInv, OwnOK, Shape, Live, Makers, PutPcs, ProjectPcs
<1>2. \A b \in Clients \ {c} : Live(b) => temp[b] # temp[c]
  BY DEF IndInv, Apart, Holds
<1> QED  BY <1>1, <1>2 DEF IndInv, OwnOK, Shape

\* mkstemp's name is nobody's: not a call's, not in a listing.
LEMMA MakeTempKeeps ==
  ASSUME IndInv, NEW c \in Clients, MakeTemp(c)
  PROVE  Kept(c)
<1>1. /\ pc[c] = "makeTemp" /\ Share(c) /\ Move(c, "leaseTemp")
      /\ UNCHANGED <<bytes, lease, inode, store, refs, building, op, arg,
                     seen, ok, filled, listed>>
  BY DEF MakeTemp, At, dirs, called, work
<1>2. PICK t \in Temps : /\ ~Known(t) /\ tmp' = tmp \cup {t}
                         /\ temp' = [temp EXCEPT ![c] = t]
  BY DEF MakeTemp, Fresh
<1>3. /\ LockTypes' /\ LockFrame(c) /\ LockStep(c) /\ storeLock'[c] = "shared"
      /\ refLock' = refLock
  BY <1>1, ShareDoes DEF IndInv, Types
<1>4. pc'[c] = "leaseTemp" /\ temp'[c] = t /\ Others(c)
  BY <1>1, <1>2 DEF Move, IndInv, Types, CallTypes, Others
<1>5. CallTypes'
  <2>1. t \in Nat
    BY SMT DEF Temps
  <2> QED  BY <1>1, <1>2, <2>1 DEF Move, IndInv, Types, CallTypes
<1>6. /\ FileTypes' /\ \A u \in Temps \ {t} : FileKept(u)
  BY <1>1, <1>2 DEF IndInv, Types, FileTypes, FileKept
<1>7. /\ t \notin tmp /\ building[t] = None
      /\ \A b \in Clients : temp[b] # t /\ t \notin listed[b]
  BY <1>2 DEF Known
<1>8. FileFrame(c)
  BY <1>6, <1>7, OwnFrame
<1>9. /\ StoreTypes' /\ StoreFrame(c) /\ RefFrame(c) /\ objects' = objects
      /\ retracted' = retracted /\ refs' = refs
  BY <1>1, StoreStill DEF IndInv, Types
<1>10. SoundStep(c) /\ ~ok[c]
  BY <1>1, <1>9, SoundStill DEF Unnoticed, At, IndInv, OwnOK, StoreOK
<1>11. op[c] \in Makers /\ op'[c] = op[c] /\ arg'[c] = arg[c]
  BY <1>1 DEF IndInv, OwnOK, Shape
<1>12. Live(c)' /\ ~Live(c) /\ ~Taking(c)'
  BY <1>1, <1>4 DEF Live, Taking, PutPcs, ProjectPcs
<1>13. /\ lease'[t] = None /\ inode'[t] = 0 /\ building'[t] = None
       /\ t \in tmp'
  BY <1>1, <1>2, <1>7 DEF IndInv, Types, FileTypes
<1>14. Shape(c)'
  BY <1>4, <1>11, <1>12 DEF IndInv, OwnOK, Shape, PutPcs, ProjectPcs
<1>15. LocksOK(c)' /\ TempOK(c)' /\ BytesOK(c)' /\ StoreOK(c)'
  BY <1>1, <1>3, <1>4, <1>10, <1>13
  DEF LocksOK, TempOK, BytesOK, StoreOK, Committing, Verified
<1>16. RefOK(c)'
  BY <1>1, <1>3, <1>4, <1>9, <1>11
  DEF IndInv, OwnOK, RefOK, Swapping, Contains
<1>17. \A a, b \in Clients : Apart(a, b)'
  <2> SUFFICES ASSUME NEW a \in Clients, NEW b \in Clients, Live(b)'
               PROVE  Apart(a, b)'
    BY DEF Apart
  <2>1. CASE a = c
    <3>1. op'[a] # "reap" /\ pc'[a] # "reclaim"
      BY <1>4, <1>11, <2>1 DEF Makers, Puts
    <3>2. b # c => temp'[b] # temp'[a]
      BY <1>4, <1>7, <2>1 DEF Others
    <3> QED  BY <2>1, <3>1, <3>2 DEF Apart
  <2>2. CASE a # c /\ b = c
    <3>1. temp'[b] = t /\ temp'[a] = temp[a] /\ listed'[a] = listed[a]
      BY <1>4, <2>2 DEF Others
    <3>2. temp[a] # t /\ t \notin listed[a]
      BY <1>7
    <3> QED  BY <3>1, <3>2 DEF Apart
  <2>3. CASE a # c /\ b # c
    <3>1. /\ Live(b) /\ (Holds(a)' => Holds(a)) /\ Apart(a, b)
          /\ FileKept(temp[b])
      BY <1>4, <1>8, <2>3 DEF Others, Live, Holds, At, IndInv, FileFrame
    <3> QED  BY <1>4, <2>3, <3>1 DEF Apart, Others, FileKept
  <2> QED  BY <2>1, <2>2, <2>3
<1>18. OwnOK(c)' /\ Types' /\ Frame(c)
  BY <1>3, <1>4, <1>5, <1>6, <1>8, <1>9, <1>14, <1>15, <1>16
  DEF OwnOK, Types, Frame
<1> QED  BY <1>3, <1>10, <1>17, <1>18, Assemble

\* A lease taken on one file.
LEMMA LeaseDoes ==
  ASSUME FileTypes, NEW t \in Temps, NEW c \in Clients, Lease(t, c),
         UNCHANGED building
  PROVE  /\ FileTypes' /\ \A u \in Temps \ {t} : FileKept(u)
         /\ tmp' = tmp /\ bytes' = bytes /\ inode' = inode
         /\ t \in tmp => lease'[t] = c
  BY DEF FileTypes, Lease, FileKept

\* What c leased is free, and no other creator's lease is.
LEMMA UnleaseDoes ==
  ASSUME IndInv, NEW c \in Clients, Unlease(c), UNCHANGED building
  PROVE  FileTypes' /\ FileFrame(c)
<1>1. /\ tmp' = tmp /\ bytes' = bytes /\ inode' = inode
      /\ building' = building
  BY DEF Unlease
<1>2. \A t \in Temps : lease'[t] = IF lease[t] = c THEN None ELSE lease[t]
  BY DEF Unlease, Without, IndInv, Types, FileTypes
<1>3. lease' = [t \in Temps |-> lease'[t]]
  BY DEF Unlease, Without, IndInv, Types, FileTypes
<1>4. FileTypes'
  BY <1>1, <1>2, <1>3 DEF IndInv, Types, FileTypes
<1>5. ASSUME NEW b \in Clients \ {c}, Live(b) PROVE FileKept(temp[b])
  <2>1. temp[b] \in Temps /\ TempOK(b)
    BY <1>5, LiveTemp DEF IndInv, OwnOK
  <2>2. temp[b] \in tmp => lease[temp[b]] # c \/ inode[temp[b]] # 0
    BY <1>5, <2>1 DEF TempOK
  <2> QED  BY <1>1, <1>2, <2>1, <2>2 DEF FileKept
<1> QED  BY <1>4, <1>5 DEF FileFrame

\* The creator leases its temp, which no collector had in hand.
LEMMA LeaseTempKeeps ==
  ASSUME IndInv, NEW c \in Clients, LeaseTemp(c)
  PROVE  Kept(c)
<1>1. /\ pc[c] = "leaseTemp" /\ Lease(temp[c], c) /\ Goto(c, AfterLease(c))
      /\ UNCHANGED <<building, store, refs>> /\ Live(c)
  BY DEF LeaseTemp, At, dirs, Live
<1>2. LockTypes' /\ LockFrame(c) /\ LockStep(c)
  BY LocksStill, ReleaseDoes DEF LeaseTemp, IndInv, Types
<1>3. /\ CallTypes' /\ Others(c) /\ pc'[c] = AfterLease(c)
      /\ op' = op /\ arg' = arg /\ temp' = temp /\ ok' = ok
  BY <1>1, GotoDoes DEF IndInv, Types
<1>4. /\ op[c] \in Makers /\ temp[c] \in Temps
      /\ \A b \in Clients \ {c} : Live(b) => temp[b] # temp[c]
  BY <1>1, MakerForm
<1>5. /\ FileTypes' /\ \A u \in Temps \ {temp[c]} : FileKept(u)
      /\ tmp' = tmp /\ inode' = inode /\ building' = building
      /\ temp[c] \in tmp => lease'[temp[c]] = c
  BY <1>1, <1>4, LeaseDoes DEF IndInv, Types
<1>6. FileFrame(c)
  BY <1>4, <1>5, OwnFrame
<1>7. /\ StoreTypes' /\ StoreFrame(c) /\ RefFrame(c) /\ objects' = objects
      /\ retracted' = retracted /\ refs' = refs
  BY <1>1, StoreStill DEF IndInv, Types
<1>8. SoundStep(c) /\ ~ok[c]
  BY <1>1, <1>7, SoundStill DEF Unnoticed, At, IndInv, OwnOK, StoreOK
<1>9. \/ op[c] \in Puts /\ pc'[c] = "fill"
      \/ op[c] = "cas" /\ pc'[c] = "replaceRef" /\ UNCHANGED locks
      \/ op[c] = "project" /\ pc'[c] = "mkdir"
  BY <1>3, <1>4 DEF AfterLease, Makers, LeaseTemp, Puts
<1>10. Live(c)' /\ ~Committing(c)' /\ ~Verified(c)'
         /\ pc'[c] \notin {"leaseTemp", "reclaim", "collect", "reclaimLease"}
  BY <1>9 DEF Live, PutPcs, ProjectPcs, Committing, Verified
<1>11. Shape(c)'
  BY <1>1, <1>3, <1>9, <1>10
  DEF IndInv, OwnOK, Shape, PutPcs, ProjectPcs, Puts
<1>12. temp[c] \in tmp /\ building[temp[c]] = None
  BY <1>1 DEF IndInv, OwnOK, TempOK
<1>13. TempOK(c)'
  BY <1>1, <1>3, <1>5, <1>10, <1>12 DEF IndInv, OwnOK, TempOK
<1>14. LocksOK(c)' /\ BytesOK(c)' /\ StoreOK(c)'
  BY <1>3, <1>8, <1>9, <1>10 DEF LocksOK, BytesOK, StoreOK
<1>15. RefOK(c)'
  BY <1>1, <1>3, <1>7, <1>9
  DEF IndInv, OwnOK, RefOK, Swapping, Contains, locks, Puts
<1>16. Stay(c)
  BY <1>1, <1>3, <1>4, <1>5, <1>10 DEF Stay, Makers, Puts
<1> QED  BY <1>2, <1>3, <1>5, <1>6, <1>7, <1>8, <1>11, <1>13, <1>14, <1>15,
            <1>16, Compose DEF OwnOK

\* The creator gives up its lease: from here on the temp is nobody's.
LEMMA CloseTempKeeps ==
  ASSUME IndInv, NEW c \in Clients, CloseTemp(c)
  PROVE  Kept(c)
<1>1. /\ pc[c] = "closeTemp" /\ Unlease(c) /\ Goto(c, "unlinkTemp")
      /\ UNCHANGED <<building, store, refs, locks>> /\ Live(c)
  BY DEF CloseTemp, At, dirs, Live
<1>2. LockTypes' /\ LockFrame(c) /\ LockStep(c)
  BY <1>1, LocksStill DEF IndInv, Types
<1>3. /\ CallTypes' /\ Others(c) /\ pc'[c] = "unlinkTemp"
      /\ op' = op /\ arg' = arg /\ temp' = temp /\ ok' = ok
  BY <1>1, GotoDoes DEF IndInv, Types
<1>4. FileTypes' /\ FileFrame(c)
  BY <1>1, UnleaseDoes
<1>5. /\ StoreTypes' /\ StoreFrame(c) /\ RefFrame(c) /\ objects' = objects
      /\ decayed' = decayed /\ retracted' = retracted
  BY <1>1, StoreStill DEF IndInv, Types
<1>6. SoundStep(c)
  BY <1>1, <1>5, SoundStill DEF Unnoticed, At
<1>7. op[c] \in Makers /\ temp[c] \in Temps
  BY <1>1, MakerForm
<1>8. ~Live(c)' /\ Taking(c)' /\ ~Verified(c)' /\ ~Committing(c)'
        /\ ~Swapping(c)'
  BY <1>3 DEF Live, Taking, PutPcs, ProjectPcs, Verified, Committing, Swapping
<1>9. Shape(c)'
  BY <1>1, <1>3, <1>7, <1>8 DEF IndInv, OwnOK, Shape, PutPcs, ProjectPcs
<1>10. LocksOK(c)' /\ TempOK(c)' /\ BytesOK(c)' /\ RefOK(c)'
  BY <1>3, <1>8 DEF LocksOK, TempOK, BytesOK, RefOK
<1>11. StoreOK(c)'
  BY <1>1, <1>3, <1>5 DEF IndInv, OwnOK, StoreOK, Sound, Lost
<1>12. Stay(c)
  BY <1>1, <1>3, <1>7, <1>8 DEF Stay, Makers, Puts
<1> QED  BY <1>2, <1>3, <1>4, <1>5, <1>6, <1>9, <1>10, <1>11, <1>12, Compose
         DEF OwnOK

\* The name goes, unless a collection was faster; it is no other creator's.
LEMMA UnlinkTempKeeps ==
  ASSUME IndInv, NEW c \in Clients, UnlinkTemp(c)
  PROVE  Kept(c)
<1>1. /\ pc[c] = "unlinkTemp" /\ Remove(temp[c]) /\ Release(c) /\ Finish(c)
      /\ UNCHANGED <<building, store, refs>>
  BY DEF UnlinkTemp, At, dirs
<1>2. /\ LockTypes' /\ LockFrame(c) /\ LockStep(c)
      /\ CallTypes' /\ Others(c) /\ OwnOK(c)' /\ Stay(c)
  BY <1>1, ReleaseDoes, FinishDoes DEF IndInv, Types
<1>3. temp[c] \in Temps
  BY <1>1 DEF IndInv, OwnOK, Shape, Taking
<1>4. \A b \in Clients \ {c} : Live(b) => temp[b] # temp[c]
  BY <1>1 DEF IndInv, Apart, Holds, At
<1>5. FileTypes' /\ FileFrame(c)
  BY <1>1, <1>3, <1>4, RemoveDoes, OwnFrame DEF IndInv, Types
<1>6. StoreTypes' /\ StoreFrame(c) /\ RefFrame(c) /\ objects' = objects
  BY <1>1, StoreStill DEF IndInv, Types
<1>7. SoundStep(c)
  BY <1>1, <1>6, SoundStill DEF Unnoticed, At
<1> QED  BY <1>2, <1>5, <1>6, <1>7, Compose

-----------------------------------------------------------------------------
(* The refs.                                                               *)
LEMMA UnlinkRefKeeps ==
  ASSUME IndInv, NEW c \in Clients, UnlinkRef(c)
  PROVE  Kept(c)
<1>1. /\ pc[c] = "unlinkRef" /\ Release(c) /\ Finish(c)
      /\ UNCHANGED <<files, building, store>>
  BY DEF UnlinkRef, At, dirs
<1>2. /\ LockTypes' /\ LockFrame(c) /\ LockStep(c)
      /\ CallTypes' /\ Others(c) /\ OwnOK(c)' /\ Stay(c)
  BY <1>1, ReleaseDoes, FinishDoes DEF IndInv, Types
<1>3. FileTypes' /\ FileFrame(c)
  BY <1>1, FilesStill DEF IndInv, Types
<1>4. arg[c].name \in Names /\ refLock[arg[c].name] = c
  BY <1>1 DEF IndInv, OwnOK, Shape, RefOK, Swapping
<1>5. RefFrame(c) /\ StoreTypes' /\ objects' = objects
  BY <1>1, <1>4 DEF UnlinkRef, IndInv, Types, StoreTypes, RefFrame, store
<1>6. StoreFrame(c)
  BY <1>1 DEF store, StoreFrame, Contains
<1>7. SoundStep(c)
  BY <1>1, <1>5, SoundStill DEF Unnoticed, At
<1> QED  BY <1>2, <1>3, <1>5, <1>6, <1>7, Compose

\* The record replaces the ref under the ref's lock.
LEMMA ReplaceRefKeeps ==
  ASSUME IndInv, NEW c \in Clients, ReplaceRef(c)
  PROVE  Kept(c)
<1>1. /\ pc[c] = "replaceRef" /\ Goto(c, "closeTemp") /\ Live(c)
      /\ UNCHANGED <<building, store, locks>>
  BY DEF ReplaceRef, At, dirs, Live
<1>2. LockTypes' /\ LockFrame(c) /\ LockStep(c)
  BY <1>1, LocksStill DEF IndInv, Types
<1>3. /\ CallTypes' /\ Others(c) /\ pc'[c] = "closeTemp"
      /\ op' = op /\ arg' = arg /\ temp' = temp /\ ok' = ok
  BY <1>1, GotoDoes DEF IndInv, Types
<1>4. /\ op[c] = "cas" /\ arg[c].name \in Names /\ temp[c] \in Temps
      /\ refLock[arg[c].name] = c
      /\ \A b \in Clients \ {c} : Live(b) => temp[b] # temp[c]
  BY <1>1, MakerForm DEF IndInv, OwnOK, Shape, RefOK, Swapping
<1>5. FileTypes' /\ FileFrame(c) /\ temp[c] \notin tmp'
  BY <1>1, <1>4, RemoveDoes, OwnFrame, FilesStill
  DEF ReplaceRef, IndInv, Types
<1>6. RefFrame(c) /\ StoreTypes' /\ objects' = objects
  BY <1>1, <1>4 DEF ReplaceRef, IndInv, Types, StoreTypes, RefFrame, store
<1>7. StoreFrame(c)
  BY <1>1 DEF store, StoreFrame, Contains
<1>8. SoundStep(c) /\ ~ok[c]
  BY <1>1, <1>6, SoundStill DEF Unnoticed, At, IndInv, OwnOK, StoreOK
<1>9. Live(c)' /\ ~Committing(c)' /\ ~Verified(c)' /\ ~Swapping(c)'
  BY <1>3 DEF Live, Committing, Verified, Swapping
<1>10. Shape(c)'
  BY <1>1, <1>3, <1>4, <1>9
  DEF IndInv, OwnOK, Shape, PutPcs, ProjectPcs, Puts, Makers
<1>11. TempOK(c)'
  BY <1>1, <1>3, <1>4, <1>5 DEF IndInv, OwnOK, TempOK
<1>12. LocksOK(c)' /\ BytesOK(c)' /\ StoreOK(c)' /\ RefOK(c)'
  BY <1>3, <1>8, <1>9 DEF LocksOK, BytesOK, StoreOK, RefOK
<1>13. Stay(c)
  BY <1>1, <1>3, <1>4, <1>5 DEF Stay
<1> QED  BY <1>2, <1>3, <1>5, <1>6, <1>7, <1>8, <1>10, <1>11, <1>12, <1>13,
            Compose DEF OwnOK
-----------------------------------------------------------------------------
(* Projections.                                                            *)
LEMMA BuildStep ==
  ASSUME IndInv, NEW c \in Clients, pc[c] \in ProjectPcs,
         pc'[c] \in (ProjectPcs \ {"mkdir"}) \cup {"closeTemp"},
         UNCHANGED <<files, store, refs, locks>>,
         Others(c), CallTypes', op' = op, arg' = arg, temp' = temp, ok' = ok,
         building' = [t \in Temps |-> building'[t]],
         \A t \in Temps \ {temp[c]} : building'[t] = building[t]
  PROVE  Kept(c)
<1>1. Live(c) /\ Live(c)' /\ op[c] = "project" /\ ~Unnoticed(c)
  BY DEF Live, IndInv, OwnOK, Shape, ProjectPcs, Unnoticed, At
<1>2. LockTypes' /\ LockFrame(c) /\ LockStep(c)
  BY LocksStill DEF IndInv, Types
<1>3. /\ FileTypes' /\ tmp' = tmp /\ lease' = lease /\ inode' = inode
      /\ \A u \in Temps \ {temp[c]} : FileKept(u)
  BY DEF IndInv, Types, FileTypes, files, FileKept
<1>4. FileFrame(c)
  BY <1>1, <1>3, MakerForm, OwnFrame
<1>5. StoreTypes' /\ StoreFrame(c) /\ RefFrame(c) /\ objects' = objects
  BY StoreStill DEF IndInv, Types
<1>6. SoundStep(c)
  BY <1>1, <1>5, SoundStill
<1>7. /\ ~Verified(c)' /\ ~Committing(c)' /\ ~Swapping(c)'
      /\ pc'[c] \notin {"leaseTemp", "mkdir", "casRef", "casRead", "replace",
                        "unlinkRef", "collect", "reclaimLease", "reclaim"}
  BY DEF ProjectPcs, Verified, Committing, Swapping
<1>8. Shape(c)'
  BY <1>1 DEF IndInv, OwnOK, Shape, Puts, PutPcs, ProjectPcs, Makers
<1>9. TempOK(c)'
  BY <1>1, <1>3, <1>7 DEF IndInv, OwnOK, TempOK, ProjectPcs
<1>10. LocksOK(c)' /\ BytesOK(c)' /\ RefOK(c)'
  BY <1>7 DEF LocksOK, BytesOK, RefOK
<1>11. StoreOK(c)'
  BY <1>1, <1>7 DEF IndInv, OwnOK, StoreOK, Puts
<1>12. Stay(c)
  BY <1>1, <1>3, <1>7 DEF Stay
<1> QED  BY <1>2, <1>3, <1>4, <1>5, <1>6, <1>8, <1>9, <1>10, <1>11, <1>12,
            Compose DEF OwnOK

\* A projection goes on.
LEMMA BuildGoto ==
  ASSUME IndInv, NEW c \in Clients, pc[c] \in ProjectPcs, NEW p,
         p \in (ProjectPcs \ {"mkdir"}) \cup {"closeTemp"}, Goto(c, p),
         UNCHANGED <<files, store, refs, locks>>,
         \/ \E b : building' = [building EXCEPT ![temp[c]] = b]
         \/ UNCHANGED building
  PROVE  Kept(c)
<1>1. /\ CallTypes' /\ Others(c) /\ pc'[c] = p
      /\ op' = op /\ arg' = arg /\ temp' = temp /\ ok' = ok
  BY GotoDoes DEF IndInv, Types
<1>2. /\ building' = [t \in Temps |-> building'[t]]
      /\ \A t \in Temps \ {temp[c]} : building'[t] = building[t]
  BY DEF IndInv, Types, FileTypes
<1> QED  BY <1>1, <1>2, BuildStep

\* The scratch directory is made, filled, renamed or removed.
LEMMA ProjectsKeep ==
  ASSUME IndInv, NEW c \in Clients,
         Mkdir(c) \/ FillTree(c) \/ Rename(c) \/ Rmtree(c)
  PROVE  Kept(c)
<1>1. pc[c] \in ProjectPcs /\ UNCHANGED <<files, store, refs, locks>>
  BY DEF Mkdir, FillTree, Rename, Rmtree, At, ProjectPcs
<1>2. CASE Mkdir(c)
  BY <1>1, <1>2, BuildGoto DEF Mkdir, ProjectPcs
<1>3. CASE FillTree(c)
  <2>1. CASE FillEntry(c)
    <3>1. /\ Others(c) /\ pc' = pc /\ op' = op /\ arg' = arg /\ temp' = temp
          /\ ok' = ok /\ CallTypes'
      BY <2>1 DEF FillEntry, called, Others, IndInv, Types, CallTypes
    <3>2. pc'[c] = "fillTree"
      BY <1>3, <3>1 DEF FillTree, At
    <3>3. /\ building' = [t \in Temps |-> building'[t]]
          /\ \A t \in Temps \ {temp[c]} : building'[t] = building[t]
      BY <2>1 DEF FillEntry, IndInv, Types, FileTypes
    <3> QED  BY <1>1, <3>1, <3>2, <3>3, BuildStep DEF ProjectPcs
  <2>2. CASE /\ Goto(c, "rename") \/ Goto(c, "rmtree")
             /\ UNCHANGED building
    BY <1>1, <2>2, BuildGoto DEF ProjectPcs
  <2> QED  BY <1>3, <2>1, <2>2 DEF FillTree
<1>4. CASE Rename(c)
  BY <1>1, <1>4, BuildGoto DEF Rename, ProjectPcs, dirs
<1>5. CASE Rmtree(c)
  BY <1>1, <1>5, BuildGoto DEF Rmtree, ProjectPcs
<1> QED  BY <1>2, <1>3, <1>4, <1>5

-----------------------------------------------------------------------------
(* The sweeps.                                                             *)
\* What a sweep may come to hold: nothing a live call made, unless the path
\* of an adoption leads elsewhere.
Spares(c) == \A b \in Clients \ {c} : Live(b) =>
  /\ op'[c] = "reap" =>
       /\ temp'[c] # temp[b]
       /\ op[b] # "project" \/ pc[b] = "leaseTemp" => temp[b] \notin listed'[c]
  /\ pc'[c] = "reclaim" /\ temp'[c] = temp[b] /\ temp[b] \in tmp
       => inode[temp[b]] # 0

SweepPcs == {"collect", "reclaimLease", "reclaim", "reap", "reapUnlock",
             "reapEmpty", "reapRmdir"}

\* A sweep that spares the living stays apart from them.
LEMMA SweepApart ==
  ASSUME IndInv, NEW c \in Clients, Others(c), FileFrame(c), ~Holds(c)',
         Spares(c)
  PROVE  \A a, b \in Clients : Apart(a, b)'
<1> SUFFICES ASSUME NEW a \in Clients, NEW b \in Clients, Live(b)'
             PROVE  Apart(a, b)'
  BY DEF Apart
<1>1. /\ b # c /\ Live(b) /\ temp'[b] = temp[b] /\ op'[b] = op[b]
      /\ pc'[b] = pc[b] /\ FileKept(temp[b])
  BY DEF Others, Live, Holds, FileFrame
<1>2. CASE a = c
  BY <1>1, <1>2 DEF Spares, Apart, FileKept
<1>3. CASE a # c
  <2>1. /\ pc'[a] = pc[a] /\ op'[a] = op[a] /\ temp'[a] = temp[a]
        /\ listed'[a] = listed[a] /\ (Holds(a)' => Holds(a)) /\ Apart(a, b)
    BY <1>3 DEF Others, Live, Holds, At, IndInv
  <2> QED  BY <1>1, <2>1, SMT DEF Apart, FileKept
<1> QED  BY <1>2, <1>3

\* A step of a sweep that spares the living keeps the invariant.
LEMMA SweepStep ==
  ASSUME IndInv, NEW c \in Clients, pc'[c] \in SweepPcs,
         UNCHANGED <<store, refs, locks>>, Others(c), CallTypes',
         FileTypes', FileFrame(c), Shape(c)', ~Unnoticed(c), ~ok'[c],
         pc'[c] \in {"collect", "reclaimLease", "reclaim"}
           => storeLock[c] = "exclusive",
         Spares(c)
  PROVE  Kept(c)
<1>1. /\ LockTypes' /\ LockFrame(c) /\ LockStep(c) /\ storeLock' = storeLock
  BY LocksStill DEF IndInv, Types
<1>2. StoreTypes' /\ StoreFrame(c) /\ RefFrame(c) /\ objects' = objects
  BY StoreStill DEF IndInv, Types
<1>3. SoundStep(c)
  BY <1>2, SoundStill
<1>4. /\ ~Live(c)' /\ ~Holds(c)' /\ ~Verified(c)' /\ ~Committing(c)'
      /\ ~Swapping(c)' /\ pc'[c] \notin {"leaseTemp", "casRef", "casRead",
                                         "replace", "unlinkRef"}
  BY DEF SweepPcs, Live, Holds, At, PutPcs, ProjectPcs, Verified, Committing,
         Swapping
<1>5. LocksOK(c)' /\ TempOK(c)' /\ BytesOK(c)' /\ StoreOK(c)' /\ RefOK(c)'
  BY <1>1, <1>4 DEF LocksOK, TempOK, BytesOK, StoreOK, RefOK
<1>6. OwnOK(c)' /\ Types' /\ Frame(c)
  BY <1>1, <1>2, <1>5 DEF OwnOK, Types, Frame
<1> QED  BY <1>1, <1>3, <1>4, <1>6, SweepApart, Assemble

\* A call that sweeps is sound so far.
LEMMA SweepForm ==
  ASSUME IndInv, NEW c \in Clients, pc[c] \in SweepPcs \cup {"idle"}
  PROVE  /\ ~Unnoticed(c) /\ ~ok[c] /\ ~Live(c)
         /\ pc[c] \in {"collect", "reclaimLease", "reclaim"}
              => op[c] = "collect" /\ storeLock[c] = "exclusive"
         /\ pc[c] \in {"reap", "reapUnlock", "reapEmpty", "reapRmdir"}
              => op[c] = "reap"
         /\ Taking(c) => temp[c] \in Temps
         /\ ~Taking(c) => temp[c] = 0
<1>1. /\ ~Unnoticed(c) /\ ~Live(c)
      /\ pc[c] \notin {"recheck", "unlink", "closeTemp", "unlinkTemp"}
  BY DEF SweepPcs, Unnoticed, At, Live, PutPcs, ProjectPcs
<1>2. OwnOK(c)
  BY DEF IndInv
<1> QED  BY <1>1, <1>2 DEF OwnOK, Shape, LocksOK, StoreOK

\* Where a sweep is and what it has in hand.
LEMMA SweepShape ==
  ASSUME NEW c \in Clients, pc'[c] \in SweepPcs,
         IF pc'[c] \in {"collect", "reclaimLease", "reclaim"}
         THEN op'[c] = "collect" ELSE op'[c] = "reap",
         IF pc'[c] \in {"collect", "reap"} THEN temp'[c] = 0
         ELSE temp'[c] \in Temps
  PROVE  Shape(c)'
<1>1. ~Live(c)' /\ (Taking(c)' <=> pc'[c] \notin {"collect", "reap"})
  BY DEF SweepPcs, Live, Taking, PutPcs, ProjectPcs
<1>2. /\ pc'[c] \notin PutPcs \cup ProjectPcs
      /\ pc'[c] \notin {"exists", "casStore", "casRef", "casRead",
           "unlinkRef", "replaceRef", "makeTemp", "leaseTemp", "closeTemp",
           "unlinkTemp", "peekStore", "peekObject", "peek", "readStore", "readExists",
           "readBytes", "collectStore"}
  BY DEF SweepPcs, PutPcs, ProjectPcs
<1>3. op'[c] \notin Puts \cup {"verify", "cas"}
  BY DEF Puts
<1> QED  BY <1>1, <1>2, <1>3 DEF Shape, SweepPcs

\* A reap lists scratch directories, and only projections have one.
LEMMA ReapBeginKeeps ==
  ASSUME IndInv, NEW c \in Clients, ReapBegin(c)
  PROVE  Kept(c)
<1>1. Enter(c, "reap", "reap", None)
        /\ UNCHANGED <<files, building, store, refs, locks>>
  BY DEF ReapBegin, Enter, dirs
<1>2. /\ listed' \in [Clients -> SUBSET Temps]
      /\ listed'[c] = {t \in Temps : building[t] # None}
      /\ \A b \in Clients \ {c} : listed'[b] = listed[b]
  <2>1. {t \in Temps : building[t] # None} \in SUBSET Temps
    OBVIOUS
  <2> QED  BY <2>1 DEF ReapBegin, IndInv, Types, CallTypes
<1>3. /\ CallTypes' /\ Others(c) /\ pc[c] = "idle" /\ pc'[c] = "reap"
      /\ op'[c] = "reap" /\ temp' = temp /\ ok' = ok
  BY <1>1, <1>2, EnterDoes DEF IndInv, Types
<1>4. temp[c] = 0 /\ ~Unnoticed(c) /\ ~ok[c]
  BY <1>3, SweepForm DEF Taking
<1>5. FileTypes' /\ FileFrame(c)
  BY <1>1, FilesStill DEF IndInv, Types
<1>6. Shape(c)'
  BY <1>3, <1>4, SweepShape DEF SweepPcs
<1>7. Spares(c)
  <2> SUFFICES ASSUME NEW b \in Clients \ {c}, Live(b)
               PROVE  /\ temp'[c] # temp[b]
                      /\ op[b] # "project" \/ pc[b] = "leaseTemp"
                           => temp[b] \notin listed'[c]
    BY <1>3 DEF Spares
  <2>1. temp[b] # 0 /\ TempOK(b)
    BY LiveTemp DEF IndInv, OwnOK
  <2> QED  BY <1>2, <1>3, <1>4, <2>1 DEF TempOK
<1> QED  BY <1>1, <1>3, <1>4, <1>5, <1>6, <1>7, SweepStep DEF SweepPcs

\* The collector looks at its next entry.
LEMMA CollectKeeps ==
  ASSUME IndInv, NEW c \in Clients, Collect(c)
  PROVE  Kept(c)
<1>1. /\ pc[c] = "collect"
      /\ UNCHANGED <<files, building, store, refs, locks, op, arg, ok,
                     filled>>
  BY DEF Collect, At, dirs, called
<1>2. PICK t \in listed[c] :
        /\ listed' = [listed EXCEPT ![c] = @ \ {t}]
        /\ IF t \in tmp
           THEN /\ Move(c, "reclaimLease")
                /\ temp' = [temp EXCEPT ![c] = t]
                /\ seen' = [seen EXCEPT ![c] = inode[t]]
           ELSE UNCHANGED <<pc, temp, seen>>
  BY DEF Collect
<1>3. /\ t \in Temps /\ t \in Nat /\ inode[t] \in Nat
      /\ (listed[c] \ {t}) \in SUBSET Temps
  <2>1. t \in Temps /\ listed[c] \subseteq Temps
    BY DEF IndInv, Types, CallTypes
  <2> QED  BY <2>1, SMT DEF Temps, IndInv, Types, FileTypes
<1>4. /\ op[c] = "collect" /\ storeLock[c] = "exclusive" /\ ~Unnoticed(c)
      /\ ~ok[c] /\ temp[c] = 0
  BY <1>1, SweepForm DEF SweepPcs, Taking
<1>5. /\ Others(c)
      /\ \/ pc'[c] = "reclaimLease" /\ temp'[c] = t
         \/ pc'[c] = "collect" /\ temp'[c] = 0
  <2>1. \A b \in Clients \ {c} : listed'[b] = listed[b]
    BY <1>2 DEF IndInv, Types, CallTypes
  <2>2. CASE t \in tmp
    <3>1. /\ pc'[c] = "reclaimLease" /\ temp'[c] = t
          /\ \A b \in Clients \ {c} : /\ pc'[b] = pc[b] /\ temp'[b] = temp[b]
                                      /\ seen'[b] = seen[b]
      BY <1>1, <1>2, <2>2 DEF IndInv, Types, CallTypes, Move
    <3> QED  BY <1>1, <2>1, <2>2, <3>1 DEF Others
  <2>3. CASE t \notin tmp
    BY <1>1, <1>2, <1>4, <2>1, <2>3 DEF Others
  <2> QED  BY <2>2, <2>3
<1>6. CallTypes'
  <2>1. listed' \in [Clients -> SUBSET Temps]
    BY <1>2, <1>3 DEF IndInv, Types, CallTypes
  <2>2. temp' \in [Clients -> Nat] /\ seen' \in [Clients -> Nat]
    <3>1. temp \in [Clients -> Nat] /\ seen \in [Clients -> Nat]
      BY DEF IndInv, Types, CallTypes
    <3> QED  BY <1>2, <1>3, <3>1
  <2> QED  BY <1>1, <1>2, <2>1, <2>2 DEF IndInv, Types, CallTypes, Move
<1>7. FileTypes' /\ FileFrame(c)
  BY <1>1, FilesStill DEF IndInv, Types
<1>8. Shape(c)'
  BY <1>1, <1>3, <1>4, <1>5, SweepShape DEF SweepPcs
<1>9. Spares(c)
  BY <1>1, <1>4, <1>5 DEF Spares
<1> QED  BY <1>1, <1>4, <1>5, <1>6, <1>7, <1>8, <1>9, SweepStep DEF SweepPcs

\* A sweep is done with an entry.
LEMMA NextTempDoes ==
  ASSUME CallTypes, NEW c \in Clients, NEW p, NextTemp(c, p)
  PROVE  /\ CallTypes' /\ Others(c) /\ pc'[c] = p /\ op' = op /\ arg' = arg
         /\ temp'[c] = 0 /\ ok' = ok /\ listed' = listed
<1>1. temp' \in [Clients -> Nat] /\ seen' \in [Clients -> Nat]
  BY SMT DEF CallTypes, NextTemp
<1> QED  BY <1>1 DEF CallTypes, NextTemp, Move, called, Others

\* A lease that is free is not a live call's: it would hold it.
LEMMA FreeLease ==
  ASSUME IndInv, NEW b \in Clients, Live(b), temp[b] \in tmp,
         lease[temp[b]] \notin Clients, pc[b] # "leaseTemp"
  PROVE  inode[temp[b]] # 0 /\ op[b] # "project"
  BY DEF IndInv, OwnOK, TempOK, Puts

\* A lease the collector gets under the exclusive lock is no live call's,
\* unless an adopted path leads elsewhere.
LEMMA ReclaimLeaseKeeps ==
  ASSUME IndInv, NEW c \in Clients, ReclaimLease(c)
  PROVE  Kept(c)
<1> DEFINE t == temp[c]
<1>1. /\ pc[c] = "reclaimLease"
      /\ UNCHANGED <<building, store, refs, locks>>
  BY DEF ReclaimLease, At, dirs
<1>2. /\ op[c] = "collect" /\ storeLock[c] = "exclusive" /\ ~Unnoticed(c)
      /\ ~ok[c] /\ t \in Temps
  BY <1>1, SweepForm DEF SweepPcs, Taking
<1>3. CASE /\ Same(c) /\ lease[t] = None
           /\ Lease(t, c) /\ Goto(c, "reclaim")
  <2>1. /\ CallTypes' /\ Others(c) /\ pc'[c] = "reclaim" /\ op' = op
        /\ temp' = temp /\ ok' = ok /\ listed' = listed
    BY <1>3, GotoDoes DEF IndInv, Types
  <2>2. /\ FileTypes' /\ \A u \in Temps \ {t} : FileKept(u)
        /\ tmp' = tmp /\ bytes' = bytes /\ inode' = inode
        /\ building' = building
    BY <1>1, <1>2, <1>3, LeaseDoes DEF IndInv, Types
  <2>3. ASSUME NEW b \in Clients \ {c}, Live(b), temp[b] = t, t \in tmp
        PROVE  inode[t] # 0
    <3>1. storeLock[b] = "no"
      BY <1>2 DEF IndInv, StoreInv
    <3>2. pc[b] # "leaseTemp"
      BY <3>1 DEF IndInv, OwnOK, LocksOK
    <3> QED  BY <1>3, <2>3, <3>2, FreeLease
  <2>4. FileFrame(c)
    <3> SUFFICES ASSUME NEW b \in Clients \ {c}, Live(b)
                 PROVE  FileKept(temp[b])
      BY DEF FileFrame
    <3>1. temp[b] \in Temps
      BY LiveTemp DEF IndInv, OwnOK
    <3> QED  BY <2>2, <2>3, <3>1 DEF FileKept
  <2>5. Shape(c)' /\ Spares(c)
    BY <1>2, <2>1, <2>3, SweepShape DEF Spares, SweepPcs
  <2> QED  BY <1>1, <1>2, <2>1, <2>2, <2>4, <2>5, SweepStep DEF SweepPcs
<1>4. CASE UNCHANGED files /\ NextTemp(c, "collect")
  <2>1. /\ CallTypes' /\ Others(c) /\ pc'[c] = "collect" /\ op' = op
        /\ temp'[c] = 0 /\ ok' = ok /\ listed' = listed
    BY <1>4, NextTempDoes DEF IndInv, Types
  <2>2. FileTypes' /\ FileFrame(c)
    BY <1>1, <1>4, FilesStill DEF IndInv, Types
  <2>3. Shape(c)' /\ Spares(c)
    BY <1>2, <2>1, SweepShape DEF Spares, SweepPcs
  <2> QED  BY <1>1, <1>2, <2>1, <2>2, <2>3, SweepStep DEF SweepPcs
<1> QED  BY <1>3, <1>4 DEF ReclaimLease

\* So the file it unlinks is none either.
LEMMA ReclaimKeeps ==
  ASSUME IndInv, NEW c \in Clients, Reclaim(c)
  PROVE  Kept(c)
<1>1. /\ pc[c] = "reclaim" /\ Remove(temp[c]) /\ NextTemp(c, "collect")
      /\ UNCHANGED <<building, store, refs, locks>>
  BY DEF Reclaim, At, dirs
<1>2. /\ op[c] = "collect" /\ storeLock[c] = "exclusive" /\ ~Unnoticed(c)
      /\ ~ok[c] /\ temp[c] \in Temps
  BY <1>1, SweepForm DEF SweepPcs, Taking
<1>3. /\ CallTypes' /\ Others(c) /\ pc'[c] = "collect" /\ op' = op
      /\ temp'[c] = 0 /\ ok' = ok
  BY <1>1, NextTempDoes DEF IndInv, Types
<1>4. /\ FileTypes' /\ temp[c] \notin tmp' /\ building' = building
      /\ \A u \in Temps \ {temp[c]} : FileKept(u)
  BY <1>1, <1>2, RemoveDoes DEF IndInv, Types
<1>5. FileFrame(c)
  <2> SUFFICES ASSUME NEW b \in Clients \ {c}, Live(b)
               PROVE  FileKept(temp[b])
    BY DEF FileFrame
  <2>1. temp[b] \in Temps /\ Apart(c, b)
    BY LiveTemp DEF IndInv, OwnOK
  <2> QED  BY <1>1, <1>4, <2>1 DEF Apart, FileKept
<1>6. Shape(c)' /\ Spares(c)
  BY <1>2, <1>3, SweepShape DEF Spares, SweepPcs
<1> QED  BY <1>1, <1>2, <1>3, <1>4, <1>5, <1>6, SweepStep DEF SweepPcs

\* A free lease names no running projection.
LEMMA ReapKeeps ==
  ASSUME IndInv, NEW c \in Clients, Reap(c)
  PROVE  Kept(c)
<1>1. /\ pc[c] = "reap"
      /\ UNCHANGED <<building, store, refs, locks, op, arg, seen, ok,
                     filled>>
  BY DEF Reap, At, dirs, called
<1>2. PICK t \in listed[c] :
        /\ listed' = [listed EXCEPT ![c] = @ \ {t}]
        /\ IF LeaseIsFree(t)
           THEN /\ Lease(t, c) /\ Move(c, "reapUnlock")
                /\ temp' = [temp EXCEPT ![c] = t]
           ELSE UNCHANGED <<files, pc, temp>>
  BY DEF Reap
<1>3. t \in Temps /\ t \in Nat /\ (listed[c] \ {t}) \in SUBSET Temps
  <2>1. t \in Temps /\ listed[c] \subseteq Temps
    BY DEF IndInv, Types, CallTypes
  <2> QED  BY <2>1, SMT DEF Temps
<1>4. op[c] = "reap" /\ ~Unnoticed(c) /\ ~ok[c] /\ temp[c] = 0
  BY <1>1, SweepForm DEF SweepPcs, Taking
<1>5. /\ Others(c)
      /\ \/ LeaseIsFree(t) /\ pc'[c] = "reapUnlock" /\ temp'[c] = t
         \/ pc'[c] = "reap" /\ temp'[c] = 0
  <2>1. \A b \in Clients \ {c} : listed'[b] = listed[b]
    BY <1>2 DEF IndInv, Types, CallTypes
  <2>2. CASE LeaseIsFree(t)
    <3>1. /\ pc'[c] = "reapUnlock" /\ temp'[c] = t
          /\ \A b \in Clients \ {c} : /\ pc'[b] = pc[b] /\ temp'[b] = temp[b]
                                      /\ seen'[b] = seen[b]
      BY <1>1, <1>2, <2>2 DEF IndInv, Types, CallTypes, Move
    <3> QED  BY <1>1, <2>1, <2>2, <3>1 DEF Others
  <2>3. CASE ~LeaseIsFree(t)
    BY <1>1, <1>2, <1>4, <2>1, <2>3 DEF Others
  <2> QED  BY <2>2, <2>3
<1>6. CallTypes' /\ listed'[c] \subseteq listed[c]
  <2>1. listed' \in [Clients -> SUBSET Temps] /\ listed'[c] \subseteq listed[c]
    BY <1>2, <1>3 DEF IndInv, Types, CallTypes
  <2>2. temp' \in [Clients -> Nat]
    BY <1>2, <1>3 DEF IndInv, Types, CallTypes
  <2> QED  BY <1>1, <1>2, <2>1, <2>2 DEF IndInv, Types, CallTypes, Move
<1>7. ASSUME NEW b \in Clients \ {c}, Live(b)
      PROVE  /\ temp[b] # 0
             /\ op[b] # "project" \/ pc[b] = "leaseTemp"
                  => temp[b] \notin listed[c]
             /\ LeaseIsFree(t) => temp[b] # t
  <2>1. temp[b] # 0 /\ Apart(c, b) /\ TempOK(b)
    BY <1>7, LiveTemp DEF IndInv, OwnOK
  <2>2. op[b] # "project" \/ pc[b] = "leaseTemp" => temp[b] \notin listed[c]
    BY <1>4, <1>7, <2>1 DEF Apart
  <2>3. temp[b] = t => op[b] = "project" /\ pc[b] # "leaseTemp" /\ t \in tmp
    BY <1>7, <2>1, <2>2 DEF TempOK
  <2>4. temp[b] = t => lease[t] \in Clients
    BY <1>7, <2>3, FreeLease
  <2> QED  BY <2>1, <2>2, <2>3, <2>4 DEF LeaseIsFree
<1>8. FileTypes' /\ FileFrame(c)
  <2>1. CASE LeaseIsFree(t) /\ Lease(t, c)
    <3>1. FileTypes' /\ \A u \in Temps \ {t} : FileKept(u)
      BY <1>1, <1>3, <2>1, LeaseDoes DEF IndInv, Types
    <3> QED  BY <1>3, <1>7, <2>1, <3>1, OwnFrame
  <2>2. CASE UNCHANGED files
    BY <1>1, <2>2, FilesStill DEF IndInv, Types
  <2> QED  BY <1>2, <2>1, <2>2
<1>9. Shape(c)'
  BY <1>1, <1>3, <1>4, <1>5, SweepShape DEF SweepPcs
<1>10. Spares(c)
  BY <1>5, <1>6, <1>7 DEF Spares
<1> QED  BY <1>1, <1>4, <1>5, <1>6, <1>8, <1>9, <1>10, SweepStep DEF SweepPcs

\* What a reap has in hand stays apart from the living.
LEMMA ReapFrame ==
  ASSUME IndInv, NEW c \in Clients, op[c] = "reap", op' = op,
         listed' = listed, temp'[c] \in {temp[c], 0},
         pc'[c] # "reclaim"
  PROVE  /\ Spares(c)
         /\ \A b \in Clients \ {c} : Live(b) => temp[b] # temp[c]
<1> SUFFICES ASSUME NEW b \in Clients \ {c}, Live(b)
             PROVE  /\ temp'[c] # temp[b] /\ temp[b] # temp[c]
                    /\ op[b] # "project" \/ pc[b] = "leaseTemp"
                         => temp[b] \notin listed'[c]
  BY DEF Spares
<1>1. temp[b] # 0 /\ Apart(c, b)
  BY LiveTemp DEF IndInv, OwnOK
<1> QED  BY <1>1 DEF Apart

\* The reap drops the lease it tried.
LEMMA ReapUnlockKeeps ==
  ASSUME IndInv, NEW c \in Clients, ReapUnlock(c)
  PROVE  Kept(c)
<1>1. /\ pc[c] = "reapUnlock" /\ Unlease(c) /\ Goto(c, "reapEmpty")
      /\ UNCHANGED <<building, store, refs, locks>>
  BY DEF ReapUnlock, At, dirs
<1>2. op[c] = "reap" /\ ~Unnoticed(c) /\ ~ok[c] /\ temp[c] \in Temps
  BY <1>1, SweepForm DEF SweepPcs, Taking
<1>3. /\ CallTypes' /\ Others(c) /\ pc'[c] = "reapEmpty" /\ op' = op
      /\ temp' = temp /\ ok' = ok /\ listed' = listed
  BY <1>1, GotoDoes DEF IndInv, Types
<1>4. FileTypes' /\ FileFrame(c)
  BY <1>1, UnleaseDoes
<1>5. Shape(c)' /\ Spares(c)
  BY <1>2, <1>3, SweepShape, ReapFrame DEF SweepPcs
<1> QED  BY <1>1, <1>2, <1>3, <1>4, <1>5, SweepStep DEF SweepPcs

\* The scratch it empties and removes is nobody's.
LEMMA ReapDirsKeep ==
  ASSUME IndInv, NEW c \in Clients, ReapEmpty(c) \/ ReapRmdir(c)
  PROVE  Kept(c)
<1>1. /\ pc[c] \in {"reapEmpty", "reapRmdir"}
      /\ UNCHANGED <<files, store, refs, locks>>
      /\ Goto(c, "reapRmdir") \/ NextTemp(c, "reap")
  BY DEF ReapEmpty, ReapRmdir, At
<1>2. op[c] = "reap" /\ ~Unnoticed(c) /\ ~ok[c] /\ temp[c] \in Temps
  BY <1>1, SweepForm DEF SweepPcs, Taking
<1>3. /\ CallTypes' /\ Others(c) /\ op' = op
      /\ \/ pc'[c] = "reapRmdir" /\ temp'[c] = temp[c]
         \/ pc'[c] = "reap" /\ temp'[c] = 0
      /\ ok' = ok /\ listed' = listed
  <2>1. CASE Goto(c, "reapRmdir")
    <3>1. CallTypes
      BY DEF IndInv, Types
    <3> QED  BY <2>1, <3>1, GotoDoes
  <2>2. CASE NextTemp(c, "reap")
    BY <2>2, NextTempDoes DEF IndInv, Types
  <2> QED  BY <1>1, <2>1, <2>2
<1>4. Shape(c)' /\ Spares(c)
        /\ \A b \in Clients \ {c} : Live(b) => temp[b] # temp[c]
  BY <1>2, <1>3, SweepShape, ReapFrame DEF SweepPcs
<1>5. /\ building' = [u \in Temps |-> building'[u]]
      /\ \A u \in Temps \ {temp[c]} : building'[u] = building[u]
  BY DEF ReapEmpty, ReapRmdir, IndInv, Types, FileTypes
<1>6. FileTypes' /\ \A u \in Temps \ {temp[c]} : FileKept(u)
  BY <1>1, <1>5 DEF IndInv, Types, FileTypes, files, FileKept
<1>7. FileFrame(c)
  BY <1>2, <1>4, <1>6, OwnFrame
<1> QED  BY <1>1, <1>2, <1>3, <1>4, <1>6, <1>7, SweepStep DEF SweepPcs

-----------------------------------------------------------------------------
(* What happens from outside.                                              *)
LEMMA DieKeeps ==
  ASSUME IndInv, NEW c \in Clients, Die(c)
  PROVE  Kept(c)
<1>1. /\ Unlease(c) /\ Release(c) /\ Finish(c)
      /\ UNCHANGED <<objects, decayed, refs, building>>
      /\ retracted \subseteq retracted'
      /\ Unnoticed(c) => arg[c].digest \in retracted'
  BY DEF Die, dirs, Unnoticed
<1>2. /\ LockTypes' /\ LockFrame(c) /\ LockStep(c)
      /\ CallTypes' /\ Others(c) /\ OwnOK(c)' /\ Stay(c)
  BY <1>1, ReleaseDoes, FinishDoes DEF IndInv, Types
<1>3. FileTypes' /\ FileFrame(c)
  BY <1>1, UnleaseDoes
<1>4. StoreTypes' /\ StoreFrame(c) /\ RefFrame(c)
  BY <1>1 DEF IndInv, Types, StoreTypes, StoreFrame, RefFrame, Contains
<1>5. SoundStep(c)
  BY <1>1 DEF SoundStep, Lost
<1> QED  BY <1>2, <1>3, <1>4, <1>5, Compose

\* An exchanged path is another inode, which the identity checks tell.
LEMMA SwapKeeps ==
  ASSUME IndInv, NEW c \in Clients, Swap(c)
  PROVE  Kept(c)
<1> DEFINE t == temp[c]
<1>1. /\ op[c] = "adopt" /\ pc[c] # "leaseTemp" /\ t \in tmp
      /\ pc[c] # "unlinkTemp" /\ lease' = [lease EXCEPT ![t] = None]
      /\ inode' = [inode EXCEPT ![t] = @ + 1]
      /\ UNCHANGED <<tmp, store, refs, building, locks, pc, op, arg, temp,
                     seen, ok, filled, listed>>
  BY DEF Swap, At, dirs, calls, called, work
<1>2. PICK b \in Contents \cup {Torn} : bytes' = [bytes EXCEPT ![t] = b]
  BY DEF Swap, Bytes
<1>3. t \in Temps /\ t # 0
  <2>1. t \in Temps
    BY <1>1 DEF IndInv, Types, FileTypes
  <2> QED  BY <2>1, SMT DEF Temps
<1>4. Live(c)
  BY <1>1, <1>3 DEF IndInv, OwnOK, Shape, Taking
<1>5. inode[t] \in Nat /\ inode'[t] = inode[t] + 1
  BY <1>1, <1>3 DEF IndInv, Types, FileTypes
<1>6. inode'[t] # 0 /\ inode'[t] \in Nat
        /\ (seen[c] <= inode[t] => seen[c] <= inode'[t] /\ seen[c] # inode'[t])
  <2>1. seen[c] \in Nat
    BY DEF IndInv, Types, CallTypes
  <2> QED  BY <1>5, <2>1, SMT
<1>7. FileTypes' /\ \A u \in Temps \ {t} : FileKept(u)
  <2>1. inode' \in [Temps -> Nat]
    BY <1>1, <1>5, <1>6 DEF IndInv, Types, FileTypes
  <2>2. bytes' \in [Temps -> Contents \cup {Torn}]
    BY <1>2 DEF IndInv, Types, FileTypes
  <2>3. \A u \in Temps \ {t} : /\ lease'[u] = lease[u] /\ inode'[u] = inode[u]
                               /\ bytes'[u] = bytes[u]
    BY <1>1, <1>2 DEF IndInv, Types, FileTypes
  <2> QED  BY <1>1, <1>3, <2>1, <2>2, <2>3
           DEF IndInv, Types, FileTypes, FileKept
<1>8. FileFrame(c)
  BY <1>3, <1>4, <1>7, MakerForm, OwnFrame
<1>9. CallTypes' /\ Others(c)
  BY <1>1 DEF IndInv, Types, CallTypes, Others
<1>10. LockTypes' /\ LockFrame(c) /\ LockStep(c) /\ storeLock' = storeLock
         /\ objectLock' = objectLock /\ refLock' = refLock
  BY <1>1, LocksStill DEF IndInv, Types
<1>11. /\ StoreTypes' /\ StoreFrame(c) /\ RefFrame(c) /\ objects' = objects
       /\ decayed' = decayed /\ retracted' = retracted /\ refs' = refs
  BY <1>1, StoreStill DEF IndInv, Types
<1>12. SoundStep(c)
  BY <1>1, <1>11 DEF SoundStep, Unnoticed, At
<1>13. Shape(c)' /\ LocksOK(c)' /\ StoreOK(c)' /\ RefOK(c)' /\ Live(c)'
  BY <1>1, <1>4, <1>10, <1>11
  DEF IndInv, OwnOK, Shape, LocksOK, StoreOK, RefOK, Live, Taking, Committing,
      Swapping, Sound, Lost, Contains
<1>14. TempOK(c)'
  BY <1>1, <1>4, <1>6 DEF IndInv, OwnOK, TempOK, Live
<1>15. BytesOK(c)'
  BY <1>1, <1>6 DEF IndInv, OwnOK, BytesOK, Verified
<1>16. Stay(c)
  BY <1>1, <1>4, <1>6 DEF Stay
<1> QED  BY <1>7, <1>8, <1>9, <1>10, <1>11, <1>12, <1>13, <1>14, <1>15,
            <1>16, Compose DEF OwnOK

\* What no client does leaves all of them as they are.
LEMMA OutsideKeeps ==
  ASSUME IndInv, UNCHANGED <<files, refs, building, locks, calls>>,
         StoreFrame(None), StoreTypes',
         \A d \in Contents : objects'[d] = objects[d] \/ d \in Lost'
  PROVE  IndInv' /\ \A c \in Clients : FileKept(temp[c])
<1>1. /\ tmp' = tmp /\ bytes' = bytes /\ lease' = lease /\ inode' = inode
      /\ building' = building /\ storeLock' = storeLock
      /\ objectLock' = objectLock /\ refLock' = refLock /\ refs' = refs
      /\ pc' = pc /\ op' = op /\ arg' = arg /\ temp' = temp /\ seen' = seen
      /\ ok' = ok /\ listed' = listed /\ filled' = filled
  BY DEF files, locks, calls, called, work
<1>2. \A c \in Clients : FileKept(temp[c])
  BY <1>1 DEF FileKept
<1>3. Frame(None)
  BY <1>1, <1>2 DEF Frame, Others, LockFrame, FileFrame, RefFrame
<1>4. \A c \in Clients : OwnOK(c)'
  <2>1. \A c \in Clients \ {None} : OwnOK(c)'
    BY <1>3, OthersKeep
  <2> QED  BY <2>1
<1>5. Types' /\ StoreInv'
  BY <1>1 DEF IndInv, Types, FileTypes, LockTypes, CallTypes, StoreInv
<1>6. \A b, c \in Clients : Apart(b, c)'
  BY <1>1 DEF IndInv, Apart, Live, Holds, At
<1>7. ObjectsAreSound'
  <2>1. Lost \subseteq Lost'
    BY DEF StoreFrame, Lost
  <2>2. \A c \in Clients : Unnoticed(c) => Unnoticed(c)'
    BY <1>1 DEF Unnoticed, At
  <2>3. \A d \in Contents :
          \/ objects'[d] \in {Absent, d} \/ d \in Lost'
          \/ \E c \in Clients : Unnoticed(c)' /\ arg'[c].digest = d
    BY <1>1, <2>1, <2>2 DEF IndInv, ObjectsAreSound, Lost
  <2>4. \A c \in Clients :
          At(c, "unlinkTemp")' /\ op'[c] \in Puts /\ ok'[c] =>
            Sound(arg[c].digest)' \/ arg'[c].digest \in Lost'
    BY <1>4 DEF OwnOK, StoreOK
  <2> QED  BY <2>3, <2>4 DEF ObjectsAreSound, Lost
<1> QED  BY <1>2, <1>4, <1>5, <1>6, <1>7 DEF IndInv

\* An object's bytes go bad: it is lost from then on.
LEMMA DecayKeeps ==
  ASSUME IndInv, NEW d \in Puttable, Decay(d)
  PROVE  IndInv' /\ \A c \in Clients : FileKept(temp[c])
<1>1. /\ UNCHANGED <<files, refs, building, locks, calls, retracted>>
      /\ objects' = [objects EXCEPT ![d] = Torn] /\ decayed' = decayed \cup {d}
  BY DEF Decay, dirs
<1>2. StoreTypes' /\ objects'[d] = Torn
        /\ \A e \in Contents \ {d} : objects'[e] = objects[e]
  BY <1>1 DEF IndInv, Types, StoreTypes
<1>3. \A e \in Contents : objects'[e] = objects[e] \/ e \in Lost'
  BY <1>1, <1>2 DEF Lost
<1>4. StoreFrame(None)
  BY <1>1, <1>2, <1>3 DEF StoreFrame, Contains, Absent
<1> QED  BY <1>1, <1>2, <1>3, <1>4, OutsideKeeps

\* A step that changes nothing the invariant is about.
LEMMA NothingKeeps ==
  ASSUME IndInv, UNCHANGED <<files, store, refs, building, locks, calls>>
  PROVE  IndInv' /\ \A c \in Clients : FileKept(temp[c])
<1>1. /\ StoreTypes' /\ StoreFrame(None) /\ objects' = objects
  BY DEF IndInv, Types, StoreTypes, store, StoreFrame, Contains
<1> QED  BY <1>1, OutsideKeeps

-----------------------------------------------------------------------------
(* The invariant.                                                          *)
LEMMA InitInv ==
  ASSUME Init
  PROVE  IndInv
<1>1. Types
  <2>1. /\ temp \in [Clients -> Nat] /\ seen \in [Clients -> Nat]
        /\ ok \in [Clients -> BOOLEAN] /\ listed \in [Clients -> SUBSET Temps]
    BY SMT DEF Init
  <2>2. inode \in [Temps -> Nat] /\ bytes \in [Temps -> Contents \cup {Torn}]
    BY SMT DEF Init
  <2> QED  BY <2>1, <2>2
           DEF Init, Types, FileTypes, StoreTypes, LockTypes, CallTypes
<1>2. ASSUME NEW c \in Clients PROVE OwnOK(c) /\ ~Live(c)
  <2>1. pc[c] = "idle" /\ op[c] = "none" /\ temp[c] = 0 /\ ok[c] = FALSE
    BY DEF Init
  <2>2. Shape(c) /\ ~Live(c) /\ ~Verified(c) /\ ~Committing(c)
          /\ ~Swapping(c)
    BY <2>1 DEF Shape, Live, Taking, PutPcs, ProjectPcs, Puts, Verified,
                Committing, Swapping
  <2> QED  BY <2>1, <2>2
           DEF OwnOK, LocksOK, TempOK, BytesOK, StoreOK, RefOK
<1>3. StoreInv
  BY DEF Init, StoreInv
<1>4. ObjectsAreSound
  BY DEF Init, ObjectsAreSound, At
<1> QED  BY <1>1, <1>2, <1>3, <1>4 DEF IndInv, Apart

\* Every step of a call.
LEMMA StepKeeps ==
  ASSUME IndInv, NEW c \in Clients, Step(c)
  PROVE  Kept(c)
<1>1. CASE PeekStore(c) \/ PeekObject(c) \/ Peek(c)
  BY <1>1, PeekStoreKeeps, PeekObjectKeeps, PeekKeeps
<1>2. CASE MakeTemp(c) \/ LeaseTemp(c) \/ CloseTemp(c) \/ UnlinkTemp(c)
  BY <1>2, MakeTempKeeps, LeaseTempKeeps, CloseTempKeeps, UnlinkTempKeeps
<1>3. CASE Fill(c) \/ Check(c) \/ CommitStore(c) \/ CommitObject(c)
           \/ Identify(c)
  BY <1>3, FillKeeps, CheckKeeps, CommitsKeep, IdentifyKeeps
<1>4. CASE Link(c) \/ Rehash(c) \/ Replace(c) \/ Recheck(c) \/ Unlink(c)
  BY <1>4, LinkKeeps, RehashKeeps, ReplaceKeeps, RecheckKeeps, UnlinkKeeps
<1>5. CASE CasStore(c) \/ CasRef(c) \/ CasRead(c) \/ UnlinkRef(c)
           \/ ReplaceRef(c)
  BY <1>5, CasStoreKeeps, CasRefKeeps, CasReadKeeps, UnlinkRefKeeps,
     ReplaceRefKeeps
<1>6. CASE ReadStore(c) \/ ReadExists(c) \/ ReadBytes(c) \/ Exists(c)
  BY <1>6, ReadsKeep
<1>7. CASE Mkdir(c) \/ FillTree(c) \/ Rename(c) \/ Rmtree(c)
  BY <1>7, ProjectsKeep
<1>8. CASE CollectStore(c) \/ Collect(c) \/ ReclaimLease(c) \/ Reclaim(c)
  BY <1>8, CollectStoreKeeps, CollectKeeps, ReclaimLeaseKeeps, ReclaimKeeps
<1>9. CASE Reap(c) \/ ReapUnlock(c) \/ ReapEmpty(c) \/ ReapRmdir(c)
  BY <1>9, ReapKeeps, ReapUnlockKeeps, ReapDirsKeep
<1>10. CASE CollectEnd(c) \/ ReapEnd(c)
  BY <1>10, SweepsEnd
<1> QED  BY <1>1, <1>2, <1>3, <1>4, <1>5, <1>6, <1>7, <1>8, <1>9, <1>10
         DEF Step

\* Every call's beginning.
LEMMA CallKeeps ==
  ASSUME IndInv, NEW c \in Clients, Call(c)
  PROVE  Kept(c)
<1>1. CASE ReapBegin(c)
  BY <1>1, ReapBeginKeeps
<1>2. CASE ~ReapBegin(c)
  BY <1>2, BeginCalls DEF Call
<1> QED  BY <1>1, <1>2

\* Every step of the system.
LEMMA NextInv ==
  ASSUME IndInv, [Next]_vars
  PROVE  IndInv'
<1>1. ASSUME NEW c \in Clients, Call(c) \/ Step(c) \/ Die(c) \/ Swap(c)
      PROVE  IndInv'
  BY <1>1, CallKeeps, StepKeeps, DieKeeps, SwapKeeps DEF Kept
<1>2. ASSUME NEW d \in Puttable, Decay(d) PROVE IndInv'
  BY <1>2, DecayKeeps
<1>3. ASSUME NEW r \in Trees, Discard(r) PROVE IndInv'
  BY <1>3, NothingKeeps DEF Discard
<1>4. CASE UNCHANGED vars
  BY <1>4, NothingKeeps DEF vars, dirs
<1> QED  BY <1>1, <1>2, <1>3, <1>4 DEF Next

(* The state a chain of calls, deaths, decays and exchanged paths leaves   *)
(* satisfies the whole inductive invariant: who holds which lock, whose    *)
(* each temp is, and what the bytes behind each name are.                  *)
THEOREM LocalInvariant == Spec => []IndInv
<1>1. Init => IndInv
  BY InitInv
<1>2. IndInv /\ [Next]_vars => IndInv'
  BY NextInv
<1> QED  BY <1>1, <1>2, PTL DEF Spec

(* put_bytes, open_writer, put_file and adopt_file: what a digest names    *)
(* hashes to it unless the medium changed it or an adoption has yet to     *)
(* retract it, and a put that reports success has its object in the store, *)
(* for any number of processes that race, die and retry.                   *)
THEOREM StoreIsSound == Spec => []ObjectsAreSound
<1>1. IndInv => ObjectsAreSound
  BY DEF IndInv
<1> QED  BY <1>1, LocalInvariant, PTL

-----------------------------------------------------------------------------
(* compare_and_swap_ref.                                                   *)
LEMMA RefsMove ==
  ASSUME Next
  PROVE  refs' = refs \/ \E c \in Clients : UnlinkRef(c) \/ ReplaceRef(c)
<1>1. ASSUME NEW c \in Clients, Call(c) PROVE refs' = refs
  BY <1>1 DEF Call, VerifyBegin, PutBegin, CasBegin, ReadBegin, ProjectBegin,
              CollectBegin, ReapBegin, Begin, Enter
<1>2. ASSUME NEW c \in Clients, Step(c), ~UnlinkRef(c), ~ReplaceRef(c)
      PROVE  refs' = refs
  <2>1. CASE \/ PeekStore(c) \/ PeekObject(c) \/ Peek(c) \/ MakeTemp(c)
             \/ LeaseTemp(c) \/ CloseTemp(c) \/ UnlinkTemp(c) \/ Fill(c)
             \/ Check(c)
    BY <2>1 DEF PeekStore, PeekObject, Peek, MakeTemp, LeaseTemp, CloseTemp,
                UnlinkTemp, Fill, Check
  <2>2. CASE \/ CommitStore(c) \/ CommitObject(c) \/ Identify(c) \/ Link(c)
             \/ Rehash(c) \/ Replace(c) \/ Recheck(c) \/ Unlink(c)
    BY <2>2 DEF CommitStore, CommitObject, Identify, Link, Rehash, Replace,
                Recheck, Unlink
  <2>3. CASE \/ CasStore(c) \/ CasRef(c) \/ CasRead(c) \/ ReadStore(c)
             \/ ReadExists(c) \/ ReadBytes(c) \/ Exists(c) \/ Mkdir(c)
             \/ FillTree(c) \/ Rename(c) \/ Rmtree(c)
    BY <2>3 DEF CasStore, CasRef, CasRead, ReadStore, ReadExists, ReadBytes,
                Exists, Mkdir, FillTree, Rename, Rmtree
  <2>4. CASE \/ CollectStore(c) \/ Collect(c) \/ ReclaimLease(c)
             \/ Reclaim(c) \/ CollectEnd(c) \/ Reap(c) \/ ReapUnlock(c)
             \/ ReapEmpty(c) \/ ReapRmdir(c) \/ ReapEnd(c)
    BY <2>4 DEF CollectStore, Collect, ReclaimLease, Reclaim, CollectEnd,
                Reap, ReapUnlock, ReapEmpty, ReapRmdir, ReapEnd
  <2> QED  BY <1>2, <2>1, <2>2, <2>3, <2>4 DEF Step
<1>3. ASSUME NEW c \in Clients, Die(c) \/ Swap(c) PROVE refs' = refs
  BY <1>3 DEF Die, Swap
<1>4. ASSUME NEW d \in Puttable, Decay(d) PROVE refs' = refs
  BY <1>4 DEF Decay
<1>5. ASSUME NEW r \in Trees, Discard(r) PROVE refs' = refs
  BY <1>5 DEF Discard
<1> QED  BY <1>1, <1>2, <1>3, <1>4, <1>5 DEF Next

\* A ref that moves was swapped by the call that owns it.
LEMMA SwapStep ==
  ASSUME IndInv, Next, NEW n \in Names, refs'[n] # refs[n]
  PROVE  /\ \E c \in Clients : /\ op[c] = "cas" /\ arg[c].name = n
                               /\ arg[c].expected = refs[n]
                               /\ arg[c].target = refs'[n]
         /\ refs'[n] = None \/ Contains(refs'[n]) \/ refs'[n] \in retracted
<1>1. PICK c \in Clients : UnlinkRef(c) \/ ReplaceRef(c)
  BY RefsMove
<1>2. op[c] = "cas" /\ arg[c].name \in Names /\ Swapping(c) /\ RefOK(c)
  BY <1>1 DEF UnlinkRef, ReplaceRef, At, IndInv, OwnOK, Shape, Swapping
<1>3. refs' = [refs EXCEPT ![arg[c].name] = arg[c].target]
  BY <1>1, <1>2 DEF UnlinkRef, ReplaceRef, RefOK, At
<1>4. arg[c].name = n /\ refs'[n] = arg[c].target
  BY <1>2, <1>3 DEF IndInv, Types, StoreTypes
<1> QED  BY <1>2, <1>4 DEF RefOK

(* compare_and_swap_ref, for any number of processes swapping the same     *)
(* name: a ref only ever moves from the value its caller expected to the   *)
(* target they named, which is in the store.                               *)
THEOREM RefsSwapAtomically == Spec => SwapsAreAtomic
<1>1. IndInv /\ [Next]_vars =>
        [\A n \in Names : refs'[n] # refs[n] =>
           /\ \E c \in Clients : /\ op[c] = "cas" /\ arg[c].name = n
                                 /\ arg[c].expected = refs[n]
                                 /\ arg[c].target = refs'[n]
           /\ refs'[n] = None \/ Contains(refs'[n])
                \/ refs'[n] \in retracted]_vars
  BY SwapStep
<1> QED  BY <1>1, LocalInvariant, PTL DEF Spec, SwapsAreAtomic

-----------------------------------------------------------------------------
(* collect_abandoned_temps and reap_projection_scratch.                    *)
\* A live call that takes a step of its own moves on.
LEMMA LiveMoves ==
  ASSUME IndInv, NEW c \in Clients, Live(c), Call(c) \/ Step(c) \/ Die(c)
  PROVE  ~Rests(c)
<1>1. \A p : Move(c, p) => pc'[c] = p
  BY DEF Move, IndInv, Types, CallTypes
<1>2. \A p : Goto(c, p) => pc'[c] = p
  BY <1>1 DEF Goto
<1>3. Finish(c) => pc'[c] = "idle"
  BY <1>1 DEF Finish
<1>4. pc[c] \notin {"idle", "peekStore", "peekObject", "peek", "makeTemp",
                    "casStore", "casRef", "casRead", "unlinkRef", "readStore",
                    "readExists", "readBytes", "exists", "collectStore",
                    "collect", "reclaimLease", "reclaim", "reap",
                    "reapUnlock", "reapEmpty", "reapRmdir", "unlinkTemp"}
  BY DEF Live, PutPcs, ProjectPcs
<1>5. CASE Die(c)
  BY <1>3, <1>4, <1>5 DEF Die, Rests
<1>6. CASE Call(c)
  BY <1>4, <1>6 DEF Call, VerifyBegin, PutBegin, CasBegin, ReadBegin,
                    ProjectBegin, CollectBegin, ReapBegin, Begin, Enter, At
<1>7. CASE \/ LeaseTemp(c) \/ CloseTemp(c) \/ Fill(c) \/ Check(c)
           \/ CommitStore(c) \/ CommitObject(c) \/ Identify(c)
  BY <1>1, <1>2, <1>3, <1>7
  DEF LeaseTemp, AfterLease, CloseTemp, Fill, Check, CommitStore,
      CommitObject, Identify, At, Rests
<1>8. CASE \/ Link(c) \/ Rehash(c) \/ Replace(c) \/ Recheck(c) \/ Unlink(c)
           \/ ReplaceRef(c)
  BY <1>1, <1>2, <1>8
  DEF Link, Rehash, Replace, Recheck, Unlink, ReplaceRef, Install, At, Rests
<1>9. CASE Mkdir(c) \/ Rename(c) \/ Rmtree(c)
  BY <1>2, <1>9 DEF Mkdir, Rename, Rmtree, At, Rests
<1>10. CASE FillTree(c)
  <2>1. CASE FillEntry(c)
    <3>1. PICK e \in Entries \ filled[c] :
            filled' = [filled EXCEPT ![c] = @ \cup {e}]
      BY <2>1 DEF FillEntry
    <3>2. e \in filled'[c]
      BY <3>1 DEF IndInv, Types, CallTypes
    <3> QED  BY <3>1, <3>2 DEF Rests
  <2>2. CASE Goto(c, "rename") \/ Goto(c, "rmtree")
    BY <1>2, <1>10, <2>2 DEF FillTree, At, Rests
  <2> QED  BY <1>10, <2>1, <2>2 DEF FillTree
<1>11. ~(PeekStore(c) \/ PeekObject(c) \/ Peek(c) \/ MakeTemp(c)
         \/ UnlinkTemp(c) \/ CasStore(c) \/ CasRef(c) \/ CasRead(c)
         \/ UnlinkRef(c))
  BY <1>4 DEF PeekStore, PeekObject, Peek, MakeTemp, UnlinkTemp, CasStore,
              CasRef, CasRead, UnlinkRef, At
<1>12. ~(ReadStore(c) \/ ReadExists(c) \/ ReadBytes(c) \/ Exists(c)
         \/ CollectStore(c) \/ Collect(c) \/ ReclaimLease(c) \/ Reclaim(c)
         \/ CollectEnd(c) \/ Reap(c) \/ ReapUnlock(c) \/ ReapEmpty(c)
         \/ ReapRmdir(c) \/ ReapEnd(c))
  BY <1>4 DEF ReadStore, ReadExists, ReadBytes, Exists, CollectStore,
              Collect, ReclaimLease, Reclaim, CollectEnd, Reap, ReapUnlock,
              ReapEmpty, ReapRmdir, ReapEnd, At
<1> QED  BY <1>5, <1>6, <1>7, <1>8, <1>9, <1>10, <1>11, <1>12 DEF Step

\* A live call's temp and scratch change by its own steps only.
LEMMA KeepStep ==
  ASSUME IndInv, Next, NEW c \in Creators, temp[c] # 0,
         ~At(c, "unlinkTemp"), Rests(c)
  PROVE  /\ temp[c] \in tmp => temp[c] \in tmp' \/ inode[temp[c]] # 0
         /\ building'[temp[c]] = building[temp[c]]
<1>1. c \in Clients /\ Live(c)
  <2>1. c \in Clients /\ op[c] \in Makers
    BY DEF Creators
  <2>2. Live(c) \/ Taking(c)
    BY <2>1 DEF IndInv, OwnOK, Shape
  <2>3. Taking(c) => op[c] \in {"collect", "reap"}
    BY <2>1 DEF IndInv, OwnOK, Shape, Taking, At
  <2> QED  BY <2>1, <2>2, <2>3 DEF Makers, Puts
<1>2. ASSUME NEW b \in Clients, Call(b) \/ Step(b) \/ Die(b) \/ Swap(b)
      PROVE  FileKept(temp[c]) \/ UNCHANGED <<tmp, building>>
  <2>1. CASE b # c
    <3>1. Kept(b)
      BY <1>2, CallKeeps, StepKeeps, DieKeeps, SwapKeeps
    <3> QED  BY <1>1, <2>1, <3>1 DEF Kept, FileFrame
  <2>2. CASE b = c
    <3>1. Swap(c)
      BY <1>1, <1>2, <2>2, LiveMoves
    <3> QED  BY <3>1 DEF Swap, dirs
  <2> QED  BY <2>1, <2>2
<1>3. ASSUME NEW d \in Puttable, Decay(d) PROVE FileKept(temp[c])
  BY <1>1, <1>3, DecayKeeps
<1>4. ASSUME NEW r \in Trees, Discard(r) PROVE FileKept(temp[c])
  BY <1>1, <1>4, NothingKeeps DEF Discard
<1> QED  BY <1>2, <1>3, <1>4 DEF Next, FileKept

(* collect_abandoned_temps and reap_projection_scratch, run by any number  *)
(* of processes beside any others: neither ever takes a temp or a scratch  *)
(* directory whose creator is alive and has not closed it.                 *)
THEOREM SweepsSpareTheLiving == Spec => LiveTempsKept
<1>1. IndInv /\ [Next]_vars =>
        [\A c \in Creators :
           temp[c] # 0 /\ ~At(c, "unlinkTemp") /\ Rests(c) =>
           /\ temp[c] \in tmp => temp[c] \in tmp' \/ inode[temp[c]] # 0
           /\ building'[temp[c]] = building[temp[c]]]_vars
  BY KeepStep
<1> QED  BY <1>1, LocalInvariant, PTL DEF Spec, LiveTempsKept
=============================================================================
