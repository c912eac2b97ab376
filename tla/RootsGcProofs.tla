---------------------------- MODULE RootsGcProofs ----------------------------
(***************************************************************************)
(* RootsGc's safety for any number of clients, objects, workspaces and     *)
(* passes: IndInv is inductive, hence TypeOK, HeadsResident and            *)
(* UntornRootsResident are invariants, no pass removes a rooted object and *)
(* usage tells what deleting a snapshot frees.                             *)
(*                                                                         *)
(* The types of the tables and of the calls' locals come first, then what  *)
(* CallInv says of running calls; seal_snapshot is the last of these: a    *)
(* seal whose generation check passed inside its transaction works on      *)
(* exactly the tree it read before planning, so the digests it reuses      *)
(* without looking again are still named by the head.  This is so while    *)
(* the workspace is the one whose generation it read: a name may be        *)
(* deleted and created again, and `mistaken' holds the workspaces whose    *)
(* head took records of an earlier incarnation.  The locks, the marks and  *)
(* the roots follow.                                                       *)
(***************************************************************************)
EXTENDS RootsGc, TLAPS, FiniteSetTheorems

\* Zenon is the default prover; the leaves that need arithmetic or functions
\* built by EXCEPT cite SMT.
USE RootsAssumption, Zenon

------------------------------------------------------------------------------
(* Types.                                                                   *)

\* What a step must leave to keep TypeOK when tables and locals are typed.
LEMMA TypesJoin ==
  ASSUME TableTypes', CallTypes',
         resident' \subseteq Objects,
         pins' \in [Clients -> Manifests \cup {None}],
         writer' \in Clients \cup {None}
  PROVE  TypeOK'
  BY DEF TypeOK

\* A step that leaves the tables alone keeps their types.
LEMMA TablesFrame ==
  ASSUME TypeOK, UNCHANGED dbVars
  PROVE  TableTypes'
  BY DEF TypeOK, TableTypes, dbVars

\* A step that leaves every call's locals alone keeps their types.
LEMMA CallsFrame ==
  ASSUME TypeOK, UNCHANGED <<pc, callVars, todo, gcVars>>
  PROVE  CallTypes'
  BY DEF TypeOK, CallTypes, callVars, gcVars

\* The end of a call clears its locals.
LEMMA ReturnTypes ==
  ASSUME TypeOK, NEW c \in Clients, Return(c)
  PROVE  CallTypes'
  BY SMT DEF TypeOK, CallTypes, Return, Pcs, MaxAttempts

\* Types survive the table rows' own calls: create_workspace,
\* delete_workspace, release_lease and delete_snapshot.
LEMMA TableStepTypes ==
  ASSUME TypeOK,
         \/ \E w \in Workspaces : CreateWorkspace(w) \/ DeleteWorkspace(w)
         \/ \E w \in Workspaces, left \in SUBSET Data :
              ReleaseUnlinked(w, left)
         \/ \E m \in Manifests : DeleteSnapshot(m)
  PROVE  TypeOK'
<1>1. UNCHANGED <<resident, pins, writer, pc, callVars, todo, gcVars>>
  BY DEF CreateWorkspace, DeleteWorkspace, ReleaseUnlinked, DeleteSnapshot
<1>2. ASSUME NEW w \in Workspaces, CreateWorkspace(w) PROVE TableTypes'
  BY <1>2, SMT DEF CreateWorkspace, TypeOK, TableTypes
<1>3. ASSUME NEW w \in Workspaces, DeleteWorkspace(w) PROVE TableTypes'
  BY <1>3, SMT DEF DeleteWorkspace, TypeOK, TableTypes
<1>4. ASSUME NEW w \in Workspaces, NEW left \in SUBSET Data,
             ReleaseUnlinked(w, left)
      PROVE  TableTypes'
  BY <1>4 DEF ReleaseUnlinked, TypeOK, TableTypes
<1>5. ASSUME NEW m \in Manifests, DeleteSnapshot(m) PROVE TableTypes'
  BY <1>5 DEF DeleteSnapshot, TypeOK, TableTypes
<1>6. TableTypes'
  BY <1>2, <1>3, <1>4, <1>5
<1> QED
  BY <1>1, <1>6, TypesJoin, CallsFrame DEF TypeOK

\* Types survive admission.
LEMMA AdmitTypes ==
  ASSUME TypeOK, NEW d \in Data, Admit(d)
  PROVE  TypeOK'
<1>1. UNCHANGED <<dbVars, pins, writer, pc, callVars, todo, gcVars>>
      /\ resident' = resident \cup {d}
  BY DEF Admit
<1> QED
  BY <1>1, TypesJoin, TablesFrame, CallsFrame DEF TypeOK, Objects

\* Types survive commit_generation.
LEMMA CommitTypes ==
  ASSUME TypeOK, CallInv, NEW c \in Clients, Commit(c)
  PROVE  TypeOK'
<1>1. ASSUME NEW w \in Workspaces, NEW digests \in SUBSET Data,
             CommitBegin(c, w, digests)
      PROVE  TypeOK'
  <2>1. UNCHANGED <<resident, dbVars, pins, writer>>
    BY <1>1 DEF CommitBegin
  <2>2. CallTypes'
    BY <1>1 DEF CommitBegin, Start, TypeOK, CallTypes, Pcs, gcVars
  <2> QED
    BY <2>1, <2>2, TypesJoin, TablesFrame DEF TypeOK
<1>2. ASSUME NEW d \in Data, CommitVerify(c, d)
      PROVE  TypeOK'
  <2>1. UNCHANGED <<resident, dbVars, pins, writer>>
    BY <1>2 DEF CommitVerify
  <2>2. CallTypes'
    BY <1>2 DEF CommitVerify, TypeOK, CallTypes, callVars, gcVars
  <2> QED
    BY <2>1, <2>2, TypesJoin, TablesFrame DEF TypeOK
<1>3. ASSUME NEW kept \in SUBSET Data, NEW held \in SUBSET Data,
             CommitTx(c, kept, held)
      PROVE  TypeOK'
  <2>1. UNCHANGED <<resident, pins, writer>> /\ Return(c)
    BY <1>3 DEF CommitTx
  <2>2. argW[c] \in Workspaces
    BY <1>3 DEF CommitTx, CallInv, ArgOK
  <2>3. TableTypes'
    BY <1>3, <2>2, SMT DEF CommitTx, TypeOK, TableTypes, CallTypes
  <2> QED
    BY <2>1, <2>3, TypesJoin, ReturnTypes DEF TypeOK
<1> QED
  BY <1>1, <1>2, <1>3 DEF Commit

\* Types survive the phases of seal_snapshot that touch no table.
LEMMA SealStepTypes ==
  ASSUME TypeOK, CallInv, NEW c \in Clients, Seal(c), ~SealCommit(c)
  PROVE  TypeOK'
<1>1. ASSUME NEW w \in Workspaces, SealBegin(c, w)
      PROVE  CallTypes' /\ UNCHANGED <<resident, dbVars, pins, writer>>
  BY <1>1, SMT DEF SealBegin, Start, TypeOK, TableTypes, CallTypes, Pcs,
     SealPcs, MaxAttempts, gcVars
<1>2. ASSUME SealTree(c)
      PROVE  CallTypes' /\ UNCHANGED <<resident, dbVars, pins, writer>>
  BY <1>2, SMTT(20) DEF SealTree, Goto, TypeOK, TableTypes, CallTypes, Pcs,
     SealPcs, gcVars, CallInv, ArgOK
<1>3. ASSUME NEW stale \in SUBSET Data, NEW reuse \in SUBSET Data,
             NEW fresh \in SUBSET Data, NEW jobs \in BOOLEAN,
             SealPlan(c, stale, reuse, fresh, jobs)
      PROVE  CallTypes' /\ UNCHANGED <<resident, dbVars, pins, writer>>
  BY <1>3 DEF SealPlan, Goto, TypeOK, CallTypes, Pcs, SealPcs, gcVars
<1>4. ASSUME NEW d \in Data, SealAdmit(c, d)
      PROVE  CallTypes' /\ UNCHANGED <<dbVars, pins, writer>>
             /\ resident' = resident \cup {d}
  BY <1>4 DEF SealAdmit, TypeOK, CallTypes, callVars, gcVars
<1>5. ASSUME SealRetry(c)
      PROVE  CallTypes' /\ UNCHANGED <<resident, dbVars, pins, writer>>
  <2>1. /\ gen[argW[c]] \in 0..MaxGen
        /\ created[argW[c]] \in 0..MaxIncarnations
    BY <1>5 DEF SealRetry, Goto, CallInv, ArgOK, SealPcs, TypeOK, TableTypes
  <2>2. attempt[c] + 1 \in 0..MaxAttempts
    BY <1>5, SMT DEF SealRetry, TypeOK, CallTypes, MaxAttempts
  <2> QED
    BY <1>5, <2>1, <2>2 DEF SealRetry, Goto, TypeOK, CallTypes, Pcs,
       SealPcs, gcVars
<1>6. ASSUME NEW lost \in SUBSET Data, SealTx(c, lost)
      PROVE  CallTypes' /\ UNCHANGED <<resident, dbVars, pins>> /\ writer' = c
  BY <1>6 DEF SealTx, Goto, TypeOK, CallTypes, Pcs, SealPcs, gcVars
<1>7. ASSUME NEW m \in Manifests, SealPut(c, m)
      PROVE  CallTypes' /\ UNCHANGED <<dbVars, pins, writer>>
             /\ resident' = resident \cup {m}
  BY <1>7 DEF SealPut, Goto, TypeOK, CallTypes, Pcs, SealPcs, gcVars
<1>8. /\ CallTypes' /\ UNCHANGED <<dbVars, pins>>
      /\ writer' \in {writer, c}
      /\ resident' \subseteq resident \cup Objects
  BY <1>1, <1>2, <1>3, <1>4, <1>5, <1>6, <1>7, SMT DEF Seal, Objects
<1> QED
  BY <1>8, TypesJoin, TablesFrame DEF TypeOK

\* Types survive seal_snapshot's commit.
LEMMA SealCommitTypes ==
  ASSUME TypeOK, CallInv, NEW c \in Clients, SealCommit(c)
  PROVE  TypeOK'
<1>1. /\ UNCHANGED <<resident, pins>> /\ Return(c) /\ writer' = None
      /\ pc[c] = "sealCommit"
  BY DEF SealCommit
<1>2. /\ argW[c] \in Workspaces /\ argM[c] \in Manifests
      /\ changed[c] => gen[argW[c]] < MaxGen
      /\ drop[c] \subseteq Data /\ keep[c] \subseteq Data
      /\ refs[c] \subseteq Data /\ changed[c] \in BOOLEAN
  BY <1>1, SMT DEF CallInv, ArgOK, SealOK, SealPcs, TypeOK, CallTypes
<1>3. SealedHead(c) \in SUBSET Data
  BY <1>2 DEF SealedHead, TypeOK, TableTypes
<1>4. TableTypes'
  BY <1>2, <1>3, SMT DEF SealCommit, TypeOK, TableTypes
<1> QED
  BY <1>1, <1>4, TypesJoin, ReturnTypes DEF TypeOK

\* Types survive adopt_snapshot.
LEMMA AdoptTypes ==
  ASSUME TypeOK, CallInv, NEW c \in Clients, Adopt(c)
  PROVE  TypeOK'
<1>1. ASSUME NEW m \in Remote, AdoptBegin(c, m)
      PROVE  CallTypes' /\ UNCHANGED <<resident, dbVars, pins, writer>>
  BY <1>1 DEF AdoptBegin, Start, TypeOK, CallTypes, Pcs, gcVars
<1>2. ASSUME NEW d \in Data, AdoptStat(c, d)
      PROVE  CallTypes' /\ UNCHANGED <<resident, dbVars, pins, writer>>
  BY <1>2 DEF AdoptStat, TypeOK, CallTypes, callVars, gcVars
<1>3. ASSUME AdoptPut(c)
      PROVE  /\ CallTypes' /\ UNCHANGED <<dbVars, pins, writer>>
             /\ resident' \subseteq resident \cup Manifests
  BY <1>3 DEF AdoptPut, Goto, TypeOK, CallTypes, Pcs, callVars, gcVars,
     CallInv, ArgOK
<1>4. ASSUME AdoptRow(c)
      PROVE  TypeOK'
  <2>1. UNCHANGED <<resident, pins, writer>> /\ Return(c)
    BY <1>4 DEF AdoptRow
  <2>2. argM[c] \in Manifests
    BY <1>4 DEF AdoptRow, CallInv, ArgOK
  <2>3. TableTypes'
    BY <1>4, <2>2 DEF AdoptRow, TypeOK, TableTypes
  <2> QED
    BY <2>1, <2>3, TypesJoin, ReturnTypes DEF TypeOK
<1>5. ASSUME /\ CallTypes' /\ UNCHANGED <<dbVars, pins, writer>>
             /\ resident' \subseteq resident \cup Manifests
      PROVE  TypeOK'
  BY <1>5, TypesJoin, TablesFrame DEF TypeOK, Objects
<1> QED
  BY <1>1, <1>2, <1>3, <1>4, <1>5 DEF Adopt

\* Types survive a push's lease calls.
LEMMA PushTypes ==
  ASSUME TypeOK, NEW c \in Clients, Push(c)
  PROVE  TypeOK'
<1>1. CallTypes' /\ UNCHANGED <<resident, dbVars, writer>>
  BY DEF Push, PushBegin, PushEnd, Start, Goto, TypeOK, CallTypes, Pcs,
     callVars, gcVars
<1>2. pins' \in [Clients -> Manifests \cup {None}]
  BY DEF Push, PushBegin, PushEnd, TypeOK
<1> QED
  BY <1>1, <1>2, TypesJoin, TablesFrame DEF TypeOK

\* Types survive a collection pass.
LEMMA CollectTypes ==
  ASSUME TypeOK, MarkInv, NEW c \in Clients, Collect(c)
  PROVE  TypeOK'
<1>1. ASSUME CollectBegin(c)
      PROVE  CallTypes' /\ UNCHANGED <<resident, dbVars, pins>> /\ writer' = c
  <2>1. Rooted \subseteq Objects
    BY SMT DEF Rooted, HeadObjects, LeasedObjects, Leased, Closure, Objects,
       TypeOK, TableTypes
  <2> QED
    BY <1>1, <2>1 DEF CollectBegin, Start, TypeOK, CallTypes, Pcs, GcPcs,
       callVars
<1>2. ASSUME NEW late \in SUBSET Objects, CollectList(c, late)
      PROVE  CallTypes' /\ UNCHANGED <<resident, dbVars, pins, writer>>
  BY <1>2 DEF CollectList, Goto, TypeOK, CallTypes, Pcs, GcPcs, callVars
<1>3. ASSUME NEW o \in Objects, CollectDelete(c, o)
      PROVE  /\ CallTypes' /\ UNCHANGED <<dbVars, pins, writer>>
             /\ resident' \subseteq resident
  BY <1>3 DEF CollectDelete, TypeOK, CallTypes, callVars
<1>4. ASSUME CollectCommit(c)
      PROVE  TypeOK'
  <2>1. UNCHANGED <<resident, pins>> /\ Return(c) /\ writer' = None
    BY <1>4 DEF CollectCommit
  <2>2. epoch < MaxEpoch
    BY <1>4 DEF CollectCommit, MarkInv, GcPcs
  <2>3. /\ quarantine' \in [Objects -> 0..MaxEpoch]
        /\ unrooted' \in [Objects -> Nat]
        /\ epoch' \in 0..MaxEpoch
    BY <1>4, <2>2, SMT DEF CollectCommit, NextQuarantine, TypeOK, TableTypes
  <2>4. TableTypes'
    BY <1>4, <2>3 DEF CollectCommit, TypeOK, TableTypes
  <2> QED
    BY <2>1, <2>4, TypesJoin, ReturnTypes DEF TypeOK
<1>5. ASSUME /\ CallTypes' /\ UNCHANGED <<dbVars, pins>>
             /\ writer' \in {writer, c} /\ resident' \subseteq resident
      PROVE  TypeOK'
  BY <1>5, TypesJoin, TablesFrame DEF TypeOK
<1> QED
  BY <1>1, <1>2, <1>3, <1>4, <1>5 DEF Collect

\* Types survive an error return or the death of a caller.
LEMMA AbandonTypes ==
  ASSUME TypeOK, NEW c \in Clients, Abandon(c)
  PROVE  TypeOK'
<1>1. UNCHANGED resident /\ Return(c) /\ writer' \in {writer, None}
  BY DEF Abandon
<1>2. TableTypes' /\ pins' \in [Clients -> Manifests \cup {None}]
  BY DEF Abandon, TypeOK, TableTypes
<1> QED
  BY <1>1, <1>2, TypesJoin, ReturnTypes DEF TypeOK

\* Every step of the system keeps the types of the tables and of the calls.
THEOREM TypesInductive ==
  ASSUME IndInv, Next
  PROVE  TypeOK'
<1>1. TypeOK /\ CallInv /\ MarkInv
  BY DEF IndInv
<1>2. CASE \E c \in Clients : Commit(c) \/ Adopt(c) \/ Push(c) \/ Collect(c)
                                \/ Abandon(c)
  BY <1>1, <1>2, CommitTypes, AdoptTypes, PushTypes, CollectTypes,
     AbandonTypes
<1>3. CASE \E c \in Clients : Seal(c)
  BY <1>1, <1>3, SealStepTypes, SealCommitTypes
<1>4. CASE \E d \in Data : Admit(d)
  BY <1>1, <1>4, AdmitTypes
<1>5. CASE \/ \E w \in Workspaces : CreateWorkspace(w) \/ DeleteWorkspace(w)
           \/ \E w \in Workspaces, left \in SUBSET Data :
                ReleaseUnlinked(w, left)
           \/ \E m \in Manifests : DeleteSnapshot(m)
  BY <1>1, <1>5, TableStepTypes
<1> QED
  BY <1>2, <1>3, <1>4, <1>5 DEF Next

------------------------------------------------------------------------------
(* Running calls outside seal_snapshot.                                    *)

\* CallInv of one call, and what a step must leave alone to keep it.
CallOK(c) == ArgOK(c) /\ SeenOK(c) /\ SealOK(c)
LocalsKept(k) ==
  /\ pc'[k] = pc[k] /\ argW'[k] = argW[k] /\ argM'[k] = argM[k]
  /\ seenInc'[k] = seenInc[k] /\ seenGen'[k] = seenGen[k]
  /\ seenTree'[k] = seenTree[k]
  /\ refs'[k] = refs[k] /\ keep'[k] = keep[k] /\ drop'[k] = drop[k]
  /\ changed'[k] = changed[k]
OthersKept(c) == \A k \in Clients \ {c} : LocalsKept(k)
TablesKept == UNCHANGED <<row, gen, head, created>>

\* A call is fine after a step that touches neither the tables nor it.
LEMMA KeptCall ==
  ASSUME NEW k \in Clients, CallOK(k), LocalsKept(k), TablesKept,
         resident \subseteq resident'
  PROVE  CallOK(k)'
<1>1. ArgOK(k)' /\ SeenOK(k)'
  BY DEF CallOK, LocalsKept, TablesKept, ArgOK, SeenOK, HeadUnmoved, SealPcs
<1>2. SealOK(k)'
  BY DEF CallOK, LocalsKept, TablesKept, SealOK, HeadUnmoved, StillResident,
       SealedHead, SealPcs
<1> QED
  BY <1>1, <1>2 DEF CallOK

\* A call is fine outside seal_snapshot once its arguments are.
LEMMA OutsideSeal ==
  ASSUME NEW k \in Clients, pc'[k] \notin SealPcs,
         pc'[k] = "verify" => argW'[k] \in Workspaces,
         pc'[k] \in {"adoptStat", "adoptRow"} => argM'[k] \in Manifests
  PROVE  CallOK(k)'
  BY DEF CallOK, ArgOK, SeenOK, SealOK, SealPcs

\* A step of one call that leaves the tables alone.
LEMMA CallStep ==
  ASSUME CallInv, NEW c \in Clients, OthersKept(c), TablesKept,
         resident \subseteq resident', CallOK(c)'
  PROVE  CallInv'
<1>1. ASSUME NEW k \in Clients PROVE CallOK(k)'
  BY KeptCall DEF CallInv, CallOK, OthersKept
<1> QED
  BY <1>1 DEF CallInv, CallOK, TablesKept

\* The end of a call leaves the others' locals alone.
LEMMA ReturnCall ==
  ASSUME TypeOK, NEW c \in Clients, Return(c)
  PROVE  OthersKept(c) /\ CallOK(c)'
<1>1. pc'[c] = "idle"
  BY DEF Return, TypeOK, CallTypes
<1>2. OthersKept(c)
  BY DEF Return, TypeOK, CallTypes, OthersKept, LocalsKept
<1> QED
  BY <1>1, <1>2, OutsideSeal DEF SealPcs

\* No call is inside a transaction while nobody holds the write lock.
LEMMA NobodyInside ==
  ASSUME LockInv, Transact, NEW k \in Clients
  PROVE  pc[k] \notin TxPcs
  BY DEF LockInv, Transact

\* The call invariant survives the steps that change no call's locals:
\* admission, release_lease and delete_snapshot.
LEMMA QuietCalls ==
  ASSUME CallInv,
         \/ \E d \in Data : Admit(d)
         \/ \E w \in Workspaces, left \in SUBSET Data :
              ReleaseUnlinked(w, left)
         \/ \E m \in Manifests : DeleteSnapshot(m)
  PROVE  CallInv'
<1>1. UNCHANGED <<row, gen, head, created>> /\ resident \subseteq resident'
  BY DEF Admit, ReleaseUnlinked, DeleteSnapshot, dbVars
<1>2. UNCHANGED <<pc, callVars>>
  BY DEF Admit, ReleaseUnlinked, DeleteSnapshot
<1>3. ASSUME NEW k \in Clients PROVE LocalsKept(k)
  BY <1>2 DEF LocalsKept, callVars
<1> QED
  BY <1>1, <1>3, KeptCall DEF CallInv, CallOK, TablesKept

\* The call invariant survives create_workspace: a seal that runs on the name
\* read the generation of an earlier incarnation.
LEMMA CreateWorkspaceCalls ==
  ASSUME TypeOK, CallInv, LockInv, NEW w \in Workspaces, CreateWorkspace(w)
  PROVE  CallInv'
<1>1. ASSUME NEW k \in Clients PROVE CallOK(k)'
  <2>1. LocalsKept(k) /\ resident' = resident /\ head' = head
    BY DEF CreateWorkspace, LocalsKept, callVars
  <2>2. CASE pc[k] \notin SealPcs
    BY <2>1, <2>2, OutsideSeal DEF CallInv, ArgOK, LocalsKept
  <2>3. CASE pc[k] \in SealPcs
    <3>1. /\ argW[k] \in Workspaces /\ seenInc[k] <= created[argW[k]]
          /\ seenInc[k] \in Nat /\ created[argW[k]] \in Nat
          /\ pc[k] \notin {"sealPut", "sealCommit"}
      <4>1. argW[k] \in Workspaces /\ seenInc[k] <= created[argW[k]]
        BY <2>3 DEF CallInv, ArgOK
      <4>2. pc[k] \notin {"sealPut", "sealCommit"}
        BY NobodyInside DEF CreateWorkspace, TxPcs
      <4> QED
        BY <4>1, <4>2, SMT DEF TypeOK, TableTypes, CallTypes
    <3>2. CASE argW[k] = w
      <4>1. created'[argW[k]] = created[argW[k]] + 1
        BY <3>1, <3>2 DEF CreateWorkspace, TypeOK, TableTypes
      <4>2. seenInc[k] <= created'[argW[k]] /\ seenInc[k] # created'[argW[k]]
        BY <3>1, <4>1, SMT
      <4> QED
        BY <2>1, <2>3, <3>1, <4>2 DEF CallInv, CallOK, LocalsKept, ArgOK,
           SeenOK, SealOK
    <3>3. CASE argW[k] # w
      <4>1. /\ row'[argW[k]] = row[argW[k]] /\ gen'[argW[k]] = gen[argW[k]]
            /\ created'[argW[k]] = created[argW[k]]
        BY <3>1, <3>3 DEF CreateWorkspace, TypeOK, TableTypes
      <4>2. ArgOK(k)' /\ SeenOK(k)'
        BY <2>1, <4>1, SMT DEF CallInv, LocalsKept, ArgOK, SeenOK, HeadUnmoved
      <4>3. SealOK(k)'
        BY <2>1, <3>1 DEF CallInv, LocalsKept, SealOK
      <4> QED
        BY <4>2, <4>3 DEF CallOK
    <3> QED
      BY <3>2, <3>3
  <2> QED
    BY <2>2, <2>3
<1> QED
  BY <1>1 DEF CallInv, CallOK

\* The call invariant survives delete_workspace and its cascade: a seal of
\* the name finds no row any more.
LEMMA DeleteWorkspaceCalls ==
  ASSUME TypeOK, CallInv, LockInv, NEW w \in Workspaces, DeleteWorkspace(w)
  PROVE  CallInv'
<1>1. ASSUME NEW k \in Clients PROVE CallOK(k)'
  <2>1. LocalsKept(k) /\ resident' = resident /\ created' = created
    BY DEF DeleteWorkspace, LocalsKept, callVars
  <2>2. pc[k] \notin {"sealPut", "sealCommit"}
    BY NobodyInside DEF DeleteWorkspace, TxPcs
  <2>3. ArgOK(k)'
    BY <2>1 DEF CallInv, LocalsKept, ArgOK
  <2>4. SeenOK(k)'
    BY <2>1 DEF DeleteWorkspace, CallInv, LocalsKept, ArgOK, SeenOK,
         HeadUnmoved, TypeOK, TableTypes
  <2>5. SealOK(k)'
    BY <2>1, <2>2 DEF CallInv, LocalsKept, SealOK
  <2> QED
    BY <2>3, <2>4, <2>5 DEF CallOK
<1> QED
  BY <1>1 DEF CallInv, CallOK

\* The call invariant survives commit_generation: a seal of the same
\* workspace finds the generation it read gone.
LEMMA CommitCalls ==
  ASSUME TypeOK, CallInv, LockInv, NEW c \in Clients, Commit(c)
  PROVE  CallInv'
<1>1. ASSUME NEW w \in Workspaces, NEW digests \in SUBSET Data,
             CommitBegin(c, w, digests)
      PROVE  CallInv'
  <2>1. TablesKept /\ resident \subseteq resident'
    BY <1>1 DEF CommitBegin, TablesKept, dbVars
  <2>2. OthersKept(c) /\ pc'[c] = "verify" /\ argW'[c] = w
    BY <1>1 DEF CommitBegin, Start, TypeOK, CallTypes, OthersKept,
       LocalsKept
  <2> QED
    BY <2>1, <2>2, OutsideSeal, CallStep DEF SealPcs
<1>2. ASSUME NEW d \in Data, CommitVerify(c, d)
      PROVE  CallInv'
  <2>1. TablesKept /\ resident \subseteq resident'
    BY <1>2 DEF CommitVerify, TablesKept, dbVars
  <2>2. \A k \in Clients : LocalsKept(k)
    BY <1>2 DEF CommitVerify, callVars, LocalsKept
  <2> QED
    BY <2>1, <2>2, KeptCall DEF CallInv, CallOK, TablesKept
<1>3. ASSUME NEW kept \in SUBSET Data, NEW held \in SUBSET Data,
             CommitTx(c, kept, held)
      PROVE  CallInv'
  <2>1. OthersKept(c) /\ CallOK(c)'
    BY <1>3, ReturnCall DEF CommitTx
  <2>2. /\ UNCHANGED <<row, created, resident>> /\ argW[c] \in Workspaces
        /\ Transact
    BY <1>3 DEF CommitTx, CallInv, ArgOK
  <2>3. ASSUME NEW k \in Clients, k # c PROVE CallOK(k)'
    <3>1. LocalsKept(k) /\ pc[k] \notin {"sealPut", "sealCommit"}
      BY <2>1, <2>2, <2>3, NobodyInside DEF OthersKept, TxPcs
    <3>2. ArgOK(k)' /\ SealOK(k)'
      BY <2>2, <3>1 DEF CallInv, LocalsKept, ArgOK, SealOK
    <3>3. SeenOK(k)'
      <4> SUFFICES ASSUME pc[k] \in SealPcs, row[argW[k]],
                          seenInc[k] = created[argW[k]]
                   PROVE  /\ seenGen[k] <= gen'[argW[k]]
                          /\ pc[k] # "sealTree" /\ gen'[argW[k]] = seenGen[k]
                               => seenTree[k] = head'[argW[k]]
        BY <2>2, <3>1 DEF LocalsKept, SeenOK, HeadUnmoved
      <4>1. /\ seenGen[k] <= gen[argW[k]] /\ argW[k] \in Workspaces
            /\ pc[k] # "sealTree" /\ gen[argW[k]] = seenGen[k]
                 => seenTree[k] = head[argW[k]]
        BY DEF CallInv, ArgOK, SeenOK, HeadUnmoved
      <4>2. /\ gen[argW[k]] \in Nat /\ seenGen[k] \in Nat
            /\ gen'[argW[k]] = IF argW[k] = argW[c] THEN gen[argW[k]] + 1
                               ELSE gen[argW[k]]
            /\ argW[k] # argW[c] => head'[argW[k]] = head[argW[k]]
        BY <1>3, <2>2, <4>1, SMT DEF CommitTx, TypeOK, TableTypes, CallTypes
      <4> QED
        BY <4>1, <4>2, SMT
    <3> QED
      BY <3>2, <3>3 DEF CallOK
  <2> QED
    BY <2>1, <2>2, <2>3 DEF CallInv, CallOK
<1> QED
  BY <1>1, <1>2, <1>3 DEF Commit

\* The call invariant survives adopt_snapshot, which knows no workspace.
LEMMA AdoptCalls ==
  ASSUME TypeOK, CallInv, NEW c \in Clients, Adopt(c)
  PROVE  CallInv'
<1>1. TablesKept /\ resident \subseteq resident'
  BY DEF Adopt, AdoptBegin, AdoptStat, AdoptPut, AdoptRow, TablesKept,
     dbVars
<1>2. ASSUME NEW m \in Remote, AdoptBegin(c, m) PROVE CallInv'
  <2>1. OthersKept(c) /\ pc'[c] = "adoptStat" /\ argM'[c] = m
    BY <1>2 DEF AdoptBegin, Start, TypeOK, CallTypes, OthersKept, LocalsKept
  <2> QED
    BY <1>1, <2>1, OutsideSeal, CallStep DEF SealPcs
<1>3. ASSUME NEW d \in Data, AdoptStat(c, d) PROVE CallInv'
  <2>1. \A k \in Clients : LocalsKept(k)
    BY <1>3 DEF AdoptStat, callVars, LocalsKept
  <2> QED
    BY <1>1, <2>1, KeptCall DEF CallInv, CallOK, TablesKept
<1>4. ASSUME AdoptPut(c) PROVE CallInv'
  <2>1. /\ OthersKept(c) /\ pc'[c] = "adoptRow" /\ argM'[c] = argM[c]
        /\ pc[c] = "adoptStat"
    BY <1>4 DEF AdoptPut, Goto, TypeOK, CallTypes, OthersKept, LocalsKept,
       callVars
  <2>2. argM[c] \in Manifests
    BY <2>1 DEF CallInv, ArgOK
  <2> QED
    BY <1>1, <2>1, <2>2, OutsideSeal, CallStep DEF SealPcs
<1>5. ASSUME AdoptRow(c) PROVE CallInv'
  BY <1>1, <1>5, ReturnCall, CallStep DEF AdoptRow
<1> QED
  BY <1>2, <1>3, <1>4, <1>5 DEF Adopt

\* The call invariant survives a push taking and releasing its lease.
LEMMA PushCalls ==
  ASSUME TypeOK, CallInv, NEW c \in Clients, Push(c)
  PROVE  CallInv'
<1>1. TablesKept /\ resident \subseteq resident'
  BY DEF Push, PushBegin, PushEnd, TablesKept, dbVars
<1>2. OthersKept(c) /\ pc'[c] \in {"idle", "push"}
  BY SMT DEF Push, PushBegin, PushEnd, Start, Goto, TypeOK, CallTypes,
     OthersKept, LocalsKept, callVars
<1> QED
  BY <1>1, <1>2, OutsideSeal, CallStep DEF SealPcs

\* The call invariant survives a collection pass: it removes files only
\* while no seal is past its residency check.
LEMMA CollectCalls ==
  ASSUME TypeOK, CallInv, LockInv, NEW c \in Clients, Collect(c)
  PROVE  CallInv'
<1>1. ASSUME CollectBegin(c) \/ \E late \in SUBSET Objects :
                                  CollectList(c, late)
      PROVE  CallInv'
  <2>1. TablesKept /\ resident \subseteq resident'
    BY <1>1 DEF CollectBegin, CollectList, TablesKept, dbVars
  <2>2. OthersKept(c) /\ pc'[c] \in {"gcList", "gcSweep"}
    BY <1>1 DEF CollectBegin, CollectList, Start, Goto, TypeOK, CallTypes,
       OthersKept, LocalsKept, callVars
  <2> QED
    BY <2>1, <2>2, OutsideSeal, CallStep DEF SealPcs
<1>2. ASSUME NEW o \in Objects, CollectDelete(c, o) PROVE CallInv'
  <2>1. TablesKept /\ \A k \in Clients : LocalsKept(k)
    BY <1>2 DEF CollectDelete, callVars, dbVars, LocalsKept, TablesKept
  <2>2. ASSUME NEW k \in Clients PROVE pc[k] \notin {"sealPut", "sealCommit"}
    BY <1>2 DEF CollectDelete, LockInv, TxPcs, GcPcs
  <2>3. ASSUME NEW k \in Clients PROVE ArgOK(k)' /\ SeenOK(k)'
    BY <2>1, SMT DEF CallInv, LocalsKept, TablesKept, ArgOK, SeenOK,
       HeadUnmoved
  <2>4. ASSUME NEW k \in Clients PROVE SealOK(k)'
    BY <2>1, <2>2, SMTT(20) DEF CallInv, LocalsKept, SealOK
  <2> QED
    BY <2>1, <2>3, <2>4 DEF CallInv, TablesKept
<1>3. ASSUME CollectCommit(c) PROVE CallInv'
  <2>1. TablesKept /\ resident \subseteq resident' /\ Return(c)
    BY <1>3 DEF CollectCommit, TablesKept
  <2> QED
    BY <2>1, ReturnCall, CallStep
<1> QED
  BY <1>1, <1>2, <1>3 DEF Collect

\* The call invariant survives the error return or death of a call.
LEMMA AbandonCalls ==
  ASSUME TypeOK, CallInv, NEW c \in Clients, Abandon(c)
  PROVE  CallInv'
<1>1. TablesKept /\ resident \subseteq resident' /\ Return(c)
  BY DEF Abandon, TablesKept
<1> QED
  BY <1>1, ReturnCall, CallStep

------------------------------------------------------------------------------
(* seal_snapshot.                                                           *)

\* The call invariant survives the phases of seal_snapshot before its
\* commit: planning reuses only what the seen tree names, and the
\* transaction starts on the generation that was seen.
LEMMA SealStepCalls ==
  ASSUME TypeOK, CallInv, NEW c \in Clients, Seal(c), ~SealCommit(c)
  PROVE  CallInv'
<1>1. CallOK(c)
  BY DEF CallInv, CallOK
<1>2. ASSUME NEW w \in Workspaces, SealBegin(c, w)
      PROVE  OthersKept(c) /\ CallOK(c)'
  <2>1. OthersKept(c)
    BY <1>2 DEF SealBegin, Start, TypeOK, CallTypes, OthersKept, LocalsKept
  <2>2. /\ pc'[c] = "sealTree" /\ argW'[c] = w /\ seenGen'[c] = gen[w]
        /\ seenInc'[c] = created[w]
        /\ row[w] /\ row' = row /\ gen' = gen /\ created' = created
    BY <1>2 DEF SealBegin, Start, TypeOK, CallTypes, dbVars
  <2>3. gen[w] \in Nat /\ created[w] \in Nat
    BY RootsAssumption, SMT DEF TypeOK, TableTypes
  <2>4. ArgOK(c)' /\ SealOK(c)'
    BY <2>2, <2>3, SMT DEF ArgOK, SealOK, SealPcs
  <2>5. SeenOK(c)'
    BY <2>2, <2>3, SMT DEF SeenOK
  <2> QED
    BY <2>1, <2>4, <2>5 DEF CallOK
<1>3. ASSUME SealTree(c)
      PROVE  OthersKept(c) /\ CallOK(c)'
  <2>1. OthersKept(c)
    BY <1>3 DEF SealTree, Goto, TypeOK, CallTypes, OthersKept, LocalsKept
  <2>2. /\ pc[c] = "sealTree" /\ pc'[c] = "sealPlan" /\ argW' = argW
        /\ seenTree'[c] = head[argW[c]] /\ seenGen' = seenGen
        /\ seenInc' = seenInc
        /\ row' = row /\ gen' = gen /\ created' = created /\ head' = head
    BY <1>3 DEF SealTree, Goto, TypeOK, CallTypes, dbVars
  <2> QED
    BY <1>1, <2>1, <2>2 DEF CallOK, ArgOK, SeenOK, SealOK, HeadUnmoved, SealPcs
<1>4. ASSUME NEW stale \in SUBSET Data, NEW reuse \in SUBSET Data,
             NEW fresh \in SUBSET Data, NEW jobs \in BOOLEAN,
             SealPlan(c, stale, reuse, fresh, jobs)
      PROVE  OthersKept(c) /\ CallOK(c)'
  <2>1. OthersKept(c)
    BY <1>4, SMT DEF SealPlan, Goto, TypeOK, CallTypes, OthersKept,
       LocalsKept
  <2>2. /\ pc[c] = "sealPlan" /\ pc'[c] = "sealAdmit" /\ argW' = argW
        /\ seenTree' = seenTree /\ seenGen' = seenGen /\ seenInc' = seenInc
        /\ row' = row /\ gen' = gen /\ created' = created /\ head' = head
    BY <1>4 DEF SealPlan, Goto, TypeOK, CallTypes, dbVars
  <2>3. /\ keep'[c] \subseteq seenTree[c]
        /\ ~changed'[c] => drop'[c] = {} /\ keep'[c] = {} /\ refs'[c] = {}
    BY <1>4, SMT DEF SealPlan, TypeOK, CallTypes
  <2> QED
    BY <1>1, <2>1, <2>2, <2>3 DEF CallOK, ArgOK, SeenOK, SealOK,
         HeadUnmoved, SealPcs
<1>5. ASSUME NEW d \in Data, SealAdmit(c, d)
      PROVE  OthersKept(c) /\ CallOK(c)'
  <2>1. /\ \A k \in Clients : LocalsKept(k)
        /\ TablesKept /\ resident \subseteq resident'
    BY <1>5 DEF SealAdmit, callVars, dbVars, LocalsKept, TablesKept
  <2> QED
    BY <1>1, <2>1, KeptCall DEF OthersKept
<1>6. ASSUME SealRetry(c)
      PROVE  OthersKept(c) /\ CallOK(c)'
  <2>1. OthersKept(c)
    BY <1>6 DEF SealRetry, Goto, TypeOK, CallTypes, OthersKept, LocalsKept
  <2>2. /\ pc[c] = "sealAdmit" /\ pc'[c] = "sealTree" /\ argW' = argW
        /\ seenGen'[c] = gen[argW[c]] /\ gen' = gen /\ created' = created
        /\ seenInc'[c] = created[argW[c]]
    BY <1>6 DEF SealRetry, Goto, TypeOK, CallTypes, dbVars
  <2>3. argW[c] \in Workspaces
    BY <1>1, <2>2 DEF CallOK, ArgOK, SealPcs
  <2>4. gen[argW[c]] \in Nat /\ created[argW[c]] \in Nat
    BY <2>3, RootsAssumption, SMT DEF TypeOK, TableTypes
  <2>5. ArgOK(c)' /\ SealOK(c)'
    BY <2>2, <2>3, <2>4, SMT DEF ArgOK, SealOK, SealPcs
  <2>6. SeenOK(c)'
    BY <2>2, <2>4, SMT DEF SeenOK
  <2> QED
    BY <2>1, <2>5, <2>6 DEF CallOK
<1>7. ASSUME NEW lost \in SUBSET Data, SealTx(c, lost)
      PROVE  OthersKept(c) /\ CallOK(c)'
  <2>1. /\ OthersKept(c) /\ pc[c] = "sealAdmit" /\ pc'[c] = "sealPut"
        /\ drop'[c] = lost
    BY <1>7 DEF SealTx, Goto, TypeOK, CallTypes, OthersKept, LocalsKept
  <2>2. /\ row[argW[c]] /\ gen[argW[c]] = seenGen[c] /\ StillResident(c)
        /\ changed[c] => gen[argW[c]] < MaxGen
        /\ ~changed[c] => lost = drop[c]
        /\ UNCHANGED <<resident, row, gen, created, head>>
        /\ UNCHANGED <<argW, argM, seenInc, seenGen, seenTree, refs, keep,
                       changed>>
    BY <1>7 DEF SealTx, HeadUnmoved, dbVars
  <2> QED
    BY <1>1, <2>1, <2>2 DEF CallOK, ArgOK, SeenOK, SealOK,
         HeadUnmoved, SealPcs, StillResident
<1>8. ASSUME NEW m \in Manifests, SealPut(c, m)
      PROVE  OthersKept(c) /\ CallOK(c)'
  <2>1. OthersKept(c)
    BY <1>8 DEF SealPut, Goto, TypeOK, CallTypes, OthersKept, LocalsKept
  <2>2. /\ pc[c] = "sealPut" /\ pc'[c] = "sealCommit" /\ argM'[c] = m
        /\ UNCHANGED <<argW, seenInc, seenGen, seenTree, refs, keep, drop,
                       changed>>
    BY <1>8 DEF SealPut, Goto, TypeOK, CallTypes
  <2>3. /\ UNCHANGED <<row, gen, created, head>> /\ Refs[m] = SealedHead(c)
        /\ resident' = resident \cup {m}
    BY <1>8 DEF SealPut, dbVars
  <2> QED
    BY <1>1, <2>1, <2>2, <2>3 DEF CallOK, ArgOK, SeenOK, SealOK,
         HeadUnmoved, SealPcs, StillResident, SealedHead
<1>9. TablesKept /\ resident \subseteq resident'
  BY DEF Seal, SealBegin, SealTree, SealPlan, SealAdmit, SealRetry, SealTx,
     SealPut, TablesKept, dbVars
<1>10. OthersKept(c) /\ CallOK(c)'
  BY <1>2, <1>3, <1>4, <1>5, <1>6, <1>7, <1>8, SMT DEF Seal
<1> QED
  BY <1>9, <1>10, CallStep

\* The call invariant survives phase C's commit: a concurrent seal of the
\* same workspace finds a new generation, or the same tree when the commit
\* changed nothing.
LEMMA SealCommitCalls ==
  ASSUME TypeOK, CallInv, LockInv, NEW c \in Clients, SealCommit(c)
  PROVE  CallInv'
<1>1. OthersKept(c) /\ CallOK(c)'
  BY ReturnCall DEF SealCommit
<1>2. /\ UNCHANGED <<row, created, resident>> /\ argW[c] \in Workspaces
      /\ pc[c] = "sealCommit"
  BY DEF SealCommit, CallInv, ArgOK, SealPcs
<1>3. ~changed[c] => SealedHead(c) = head[argW[c]]
  BY <1>2 DEF CallInv, SealOK, SealedHead, SealPcs
<1>4. ASSUME NEW v \in Workspaces
      PROVE  /\ gen[v] \in Nat
             /\ gen'[v] = IF v = argW[c] /\ changed[c] THEN gen[v] + 1
                          ELSE gen[v]
             /\ v # argW[c] \/ ~changed[c] => head'[v] = head[v]
  BY <1>2, <1>3, SMT DEF SealCommit, TypeOK, TableTypes
<1>5. ASSUME NEW k \in Clients, k # c PROVE CallOK(k)'
  <2>1. LocalsKept(k) /\ pc[k] \notin {"sealPut", "sealCommit"}
    BY <1>1, <1>2, <1>5 DEF OthersKept, LockInv, TxPcs
  <2>2. ArgOK(k)' /\ SealOK(k)'
    BY <1>2, <2>1 DEF CallInv, LocalsKept, ArgOK, SealOK
  <2>3. SeenOK(k)'
    <3> SUFFICES ASSUME pc[k] \in SealPcs, row[argW[k]],
                        seenInc[k] = created[argW[k]]
                 PROVE  /\ seenGen[k] <= gen'[argW[k]]
                        /\ pc[k] # "sealTree" /\ gen'[argW[k]] = seenGen[k]
                             => seenTree[k] = head'[argW[k]]
      BY <1>2, <2>1 DEF LocalsKept, SeenOK, HeadUnmoved
    <3>1. /\ seenGen[k] <= gen[argW[k]] /\ argW[k] \in Workspaces
          /\ pc[k] # "sealTree" /\ gen[argW[k]] = seenGen[k]
               => seenTree[k] = head[argW[k]]
      BY DEF CallInv, ArgOK, SeenOK, HeadUnmoved
    <3>2. seenGen[k] \in Nat
      BY SMT DEF TypeOK, CallTypes
    <3> QED
      BY <1>4, <3>1, <3>2, SMT
  <2> QED
    BY <2>2, <2>3 DEF CallOK
<1> QED
  BY <1>1, <1>2, <1>5 DEF CallInv, CallOK

\* Every step keeps the call invariant.
THEOREM CallsInductive ==
  ASSUME IndInv, Next
  PROVE  CallInv'
<1>1. TypeOK /\ CallInv /\ LockInv
  BY DEF IndInv
<1>2. ASSUME NEW c \in Clients, Seal(c) PROVE CallInv'
  BY <1>1, <1>2, SealStepCalls, SealCommitCalls
<1>3. ASSUME NEW c \in Clients,
             Commit(c) \/ Adopt(c) \/ Push(c) \/ Collect(c) \/ Abandon(c)
      PROVE  CallInv'
  BY <1>1, <1>3, CommitCalls, AdoptCalls, PushCalls, CollectCalls,
     AbandonCalls
<1>4. ASSUME NEW w \in Workspaces, CreateWorkspace(w) \/ DeleteWorkspace(w)
      PROVE  CallInv'
  BY <1>1, <1>4, CreateWorkspaceCalls, DeleteWorkspaceCalls
<1> QED
  BY <1>1, <1>2, <1>3, <1>4, QuietCalls DEF Next

------------------------------------------------------------------------------
(* Locks, marks and roots.                                                  *)

\* The parts of IndInv besides types and calls.
RootsOK == LockInv /\ MarkInv /\ HeadsResident /\ UntornRootsResident

RootsKept ==
  UNCHANGED <<head, orphan, snapshots, leaked, pins, torn, mistaken>>

\* No call enters or leaves a transaction, none starts a pass.
PcsKept ==
  \A k \in Clients :
    /\ pc'[k] \in TxPcs <=> pc[k] \in TxPcs
    /\ pc'[k] \in GcPcs => pc[k] \in GcPcs /\ marks'[k] = marks[k]

\* The call c ends; no other call moves.
PcReturns(c) ==
  \A k \in Clients :
    /\ pc'[k] = IF k = c THEN "idle" ELSE pc[k]
    /\ marks'[k] = IF k = c THEN {} ELSE marks[k]

\* A step of a call that neither enters nor leaves a transaction.
LEMMA GotoPcs ==
  ASSUME TypeOK, NEW c \in Clients, NEW from, NEW to, Goto(c, from, to),
         from \in TxPcs <=> to \in TxPcs, to \notin GcPcs, marks' = marks
  PROVE  PcsKept
  BY SMT DEF Goto, PcsKept, TypeOK, CallTypes

\* A step that leaves every root alone leaves the marked set alone.
LEMMA RootedFrame ==
  ASSUME UNCHANGED <<head, orphan, snapshots, leaked, pins>>
  PROVE  Rooted' = Rooted
  BY SMT DEF Rooted, HeadObjects, LeasedObjects, Leased, Closure

\* A step that changes no root and removes no file keeps roots resident.
LEMMA ResidentFrame ==
  ASSUME HeadsResident, UntornRootsResident, RootsKept,
         resident \subseteq resident'
  PROVE  HeadsResident' /\ UntornRootsResident'
<1>1. HeadsResident'
  BY SMTT(20) DEF HeadsResident, RootsKept
<1>2. UntornRootsResident'
  BY SMTT(20) DEF UntornRootsResident, RootsKept, Leased, Closure
<1> QED  BY <1>1, <1>2

\* So does one that only takes roots away; a workspace is excepted no more
\* once it names nothing.
LEMMA ResidentShrink ==
  ASSUME HeadsResident, UntornRootsResident, resident' = resident,
         torn' = torn,
         (snapshots \cup Leased)' \subseteq snapshots \cup Leased,
         \A w \in Workspaces :
           head'[w] \cup orphan'[w] \subseteq head[w] \cup orphan[w],
         \A w \in mistaken \ mistaken' : head'[w] \cup orphan'[w] = {}
  PROVE  HeadsResident' /\ UntornRootsResident'
<1>1. HeadsResident'
  BY DEF HeadsResident
<1>2. UntornRootsResident'
  BY DEF UntornRootsResident, Closure
<1> QED
  BY <1>1, <1>2

\* The steps of a call outside every transaction.
LEMMA LocalStep ==
  ASSUME RootsOK, UNCHANGED <<dbVars, pins, writer>>,
         resident \subseteq resident', PcsKept
  PROVE  RootsOK'
<1>1. RootsKept /\ UNCHANGED <<epoch, writer>>
  BY DEF RootsKept, dbVars
<1>2. LockInv'
  BY <1>1 DEF RootsOK, LockInv, PcsKept
<1>3. MarkInv'
  BY <1>1, RootedFrame DEF RootsOK, MarkInv, PcsKept, RootsKept
<1> QED
  BY <1>1, <1>2, <1>3, ResidentFrame DEF RootsOK

\* A whole write transaction in one step: no pass is running.
LEMMA TransactStep ==
  ASSUME LockInv, Transact, writer' = writer,
         \A k \in Clients : pc'[k] \in TxPcs => pc[k] \in TxPcs
  PROVE  LockInv' /\ MarkInv'
  BY DEF LockInv, MarkInv, Transact, TxPcs

\* The end of the write transaction that c holds.
LEMMA ReleaseStep ==
  ASSUME LockInv, NEW c \in Clients, pc[c] \in TxPcs, writer' = None,
         PcReturns(c)
  PROVE  LockInv' /\ MarkInv'
<1>1. writer = c
  BY DEF LockInv
<1>2. ASSUME NEW k \in Clients PROVE pc'[k] \notin TxPcs
  BY <1>1 DEF LockInv, PcReturns, TxPcs, GcPcs
<1> QED
  BY <1>2 DEF LockInv, MarkInv, TxPcs

\* What Return does to the program counters and the marks.
LEMMA ReturnPcs ==
  ASSUME TypeOK, NEW c \in Clients, Return(c)
  PROVE  PcReturns(c)
  BY DEF Return, TypeOK, CallTypes, PcReturns

\* Lock, marks and resident roots survive admission.
LEMMA AdmitRoots ==
  ASSUME RootsOK, NEW d \in Data, Admit(d)
  PROVE  RootsOK'
<1>1. /\ UNCHANGED <<dbVars, pins, writer>> /\ resident \subseteq resident'
      /\ UNCHANGED <<pc, gcVars>>
  BY Zenon DEF Admit
<1> QED
  BY <1>1, LocalStep DEF PcsKept, gcVars

\* Lock, marks and resident roots survive the transactions that only take
\* roots away: create_workspace, delete_workspace, release_lease of unlinked
\* files and delete_snapshot.
LEMMA TableStepRoots ==
  ASSUME TypeOK, RootsOK,
         \/ \E w \in Workspaces : CreateWorkspace(w) \/ DeleteWorkspace(w)
         \/ \E w \in Workspaces, left \in SUBSET Data :
              ReleaseUnlinked(w, left)
         \/ \E m \in Manifests : DeleteSnapshot(m)
  PROVE  RootsOK'
<1>1. Transact /\ UNCHANGED <<resident, leaked, torn, pins, writer, pc>>
  BY Zenon DEF CreateWorkspace, DeleteWorkspace, ReleaseUnlinked,
       DeleteSnapshot
<1>2. \A w \in Workspaces :
        head'[w] \cup orphan'[w] \subseteq head[w] \cup orphan[w]
  BY SMTT(30) DEF CreateWorkspace, DeleteWorkspace, ReleaseUnlinked,
       DeleteSnapshot, TypeOK, TableTypes
<1>3. /\ snapshots' \subseteq snapshots
      /\ \A w \in mistaken \ mistaken' : head'[w] \cup orphan'[w] = {}
  <2>1. ASSUME NEW w \in Workspaces, DeleteWorkspace(w)
        PROVE  /\ snapshots' = snapshots /\ mistaken' = mistaken \ {w}
               /\ head'[w] = {} /\ orphan'[w] = {}
    BY <2>1 DEF DeleteWorkspace, TypeOK, TableTypes
  <2>2. ASSUME \/ \E w \in Workspaces : CreateWorkspace(w)
               \/ \E w \in Workspaces, left \in SUBSET Data :
                    ReleaseUnlinked(w, left)
               \/ \E m \in Manifests : DeleteSnapshot(m)
        PROVE  snapshots' \subseteq snapshots /\ mistaken' = mistaken
    BY <2>2 DEF CreateWorkspace, ReleaseUnlinked, DeleteSnapshot
  <2> QED
    BY <2>1, <2>2
<1>4. LockInv' /\ MarkInv'
  BY <1>1, TransactStep DEF RootsOK
<1> QED
  BY <1>1, <1>2, <1>3, <1>4, ResidentShrink DEF RootsOK, Leased

\* Lock, marks and resident roots survive commit_generation: the objects the
\* new head names were all resident inside the transaction.
LEMMA CommitRoots ==
  ASSUME TypeOK, CallInv, RootsOK, NEW c \in Clients, Commit(c)
  PROVE  RootsOK'
<1>1. ASSUME \/ \E w \in Workspaces, digests \in SUBSET Data :
                  CommitBegin(c, w, digests)
             \/ \E d \in Data : CommitVerify(c, d)
      PROVE  RootsOK'
  <2>1. UNCHANGED <<dbVars, pins, writer>> /\ resident \subseteq resident'
    BY <1>1, Zenon DEF CommitBegin, CommitVerify
  <2>2. PcsKept
    BY <1>1, SMTT(30) DEF CommitBegin, CommitVerify, Start, TypeOK, CallTypes,
         PcsKept, TxPcs, GcPcs, gcVars
  <2> QED
    BY <2>1, <2>2, LocalStep
<1>2. ASSUME NEW kept \in SUBSET Data, NEW held \in SUBSET Data,
             CommitTx(c, kept, held)
      PROVE  RootsOK'
  <2>1. /\ Transact /\ Return(c)
        /\ UNCHANGED <<resident, snapshots, leaked, torn, mistaken, pins,
                       writer>>
    BY <1>2, Zenon DEF CommitTx
  <2>2. PcReturns(c)
    BY <2>1, ReturnPcs
  <2>3. LockInv' /\ MarkInv'
    BY <2>1, <2>2, TransactStep DEF RootsOK, PcReturns, TxPcs, GcPcs
  <2>4. HeadsResident'
    <3>1. /\ refs[c] \subseteq resident /\ kept \subseteq head[argW[c]]
          /\ held \subseteq head[argW[c]]
      BY <1>2 DEF CommitTx, StillResident
    <3>2. ASSUME NEW w \in Workspaces
          PROVE  /\ head'[w] = IF w = argW[c] THEN kept \cup refs[c] ELSE head[w]
                 /\ orphan'[w] = IF w = argW[c] THEN orphan[w] \cup held
                                ELSE orphan[w]
      <4>1. /\ head' = [head EXCEPT ![argW[c]] = kept \cup refs[c]]
            /\ orphan' = [orphan EXCEPT ![argW[c]] = @ \cup held]
        BY <1>2, Zenon DEF CommitTx
      <4> QED
        BY <4>1 DEF TypeOK, TableTypes
    <3>3. ASSUME NEW w \in Workspaces, w \notin mistaken
          PROVE  head'[w] \cup orphan'[w] \subseteq resident
      <4>1. head[w] \cup orphan[w] \subseteq resident
        BY <3>3 DEF RootsOK, HeadsResident
      <4> QED
        BY <3>1, <3>2, <4>1
    <3> QED
      BY <2>1, <3>3 DEF HeadsResident
  <2>5. UntornRootsResident'
    BY <2>1, SMTT(20) DEF RootsOK, UntornRootsResident, Leased, Closure
  <2> QED
    BY <2>3, <2>4, <2>5 DEF RootsOK
<1> QED
  BY <1>1, <1>2 DEF Commit

\* Lock, marks and resident roots survive seal_snapshot before its commit.
LEMMA SealStepRoots ==
  ASSUME TypeOK, RootsOK, NEW c \in Clients, Seal(c), ~SealCommit(c)
  PROVE  RootsOK'
<1>1. ASSUME \/ \E w \in Workspaces : SealBegin(c, w)
             \/ SealTree(c)
             \/ \E stale, reuse, fresh \in SUBSET Data, jobs \in BOOLEAN :
                  SealPlan(c, stale, reuse, fresh, jobs)
      PROVE  RootsOK'
  <2>1. UNCHANGED <<dbVars, pins, writer>> /\ resident \subseteq resident'
    BY <1>1, Zenon DEF SealBegin, SealTree, SealPlan
  <2>2. PcsKept
    <3>1. ASSUME NEW w \in Workspaces, SealBegin(c, w) PROVE PcsKept
      BY <3>1, SMT DEF SealBegin, Start, TypeOK, CallTypes, PcsKept, TxPcs,
           GcPcs, gcVars
    <3>2. ASSUME SealTree(c) PROVE PcsKept
      <4>1. Goto(c, "sealTree", "sealPlan") /\ marks' = marks
        BY <3>2, Zenon DEF SealTree, gcVars
      <4> QED  BY <4>1, GotoPcs DEF TxPcs, GcPcs
    <3>3. CASE \E stale, reuse, fresh \in SUBSET Data, jobs \in BOOLEAN :
                 SealPlan(c, stale, reuse, fresh, jobs)
      <4>1. PICK stale \in SUBSET Data, reuse \in SUBSET Data,
                 fresh \in SUBSET Data, jobs \in BOOLEAN :
                   SealPlan(c, stale, reuse, fresh, jobs)
        BY <3>3, Zenon
      <4>2. Goto(c, "sealPlan", "sealAdmit") /\ marks' = marks
        BY <4>1, Zenon DEF SealPlan, gcVars
      <4> QED  BY <4>2, GotoPcs DEF TxPcs, GcPcs
    <3> QED  BY <1>1, <3>1, <3>2, <3>3, Zenon
  <2> QED
    BY <2>1, <2>2, LocalStep
<1>2. ASSUME \/ \E d \in Data : SealAdmit(c, d)
             \/ SealRetry(c)
             \/ \E m \in Manifests : SealPut(c, m)
      PROVE  RootsOK'
  <2>1. UNCHANGED <<dbVars, pins, writer>> /\ resident \subseteq resident'
    BY <1>2, Zenon DEF SealAdmit, SealRetry, SealPut
  <2>2. PcsKept
    <3>1. ASSUME NEW d \in Data, SealAdmit(c, d) PROVE PcsKept
      BY <3>1, SMT DEF SealAdmit, Goto, TypeOK, CallTypes, PcsKept, TxPcs,
           GcPcs, gcVars
    <3>2. ASSUME SealRetry(c) PROVE PcsKept
      <4>1. Goto(c, "sealAdmit", "sealTree") /\ marks' = marks
        BY <3>2, Zenon DEF SealRetry, gcVars
      <4> QED  BY <4>1, GotoPcs DEF TxPcs, GcPcs
    <3>3. ASSUME NEW m \in Manifests, SealPut(c, m) PROVE PcsKept
      <4>1. Goto(c, "sealPut", "sealCommit") /\ marks' = marks
        BY <3>3, Zenon DEF SealPut, gcVars
      <4> QED  BY <4>1, GotoPcs DEF TxPcs, GcPcs
    <3> QED  BY <1>2, <3>1, <3>2, <3>3, Zenon
  <2> QED
    BY <2>1, <2>2, LocalStep
<1>3. ASSUME NEW lost \in SUBSET Data, SealTx(c, lost) PROVE RootsOK'
  <2>1. /\ Transact /\ writer' = c /\ resident' = resident /\ RootsKept
        /\ \A k \in Clients : pc'[k] = IF k = c THEN "sealPut" ELSE pc[k]
    BY <1>3 DEF SealTx, Goto, TypeOK, CallTypes, RootsKept, dbVars
  <2>2. LockInv' /\ MarkInv'
    BY <2>1 DEF RootsOK, LockInv, MarkInv, Transact, TxPcs, GcPcs
  <2> QED
    BY <2>1, <2>2, ResidentFrame DEF RootsOK
<1> QED
  BY <1>1, <1>2, <1>3 DEF Seal

\* Lock, marks and resident roots survive phase C's commit: what it keeps
\* the old head names, what it adds was resident, and the manifest is there,
\* unless the workspace is or becomes a mistaken one.
LEMMA SealCommitRoots ==
  ASSUME TypeOK, CallInv, RootsOK, NEW c \in Clients, SealCommit(c)
  PROVE  RootsOK'
<1>1. /\ pc[c] = "sealCommit" /\ Return(c) /\ writer' = None
      /\ UNCHANGED <<resident, orphan, leaked, pins>>
      /\ snapshots' = snapshots \cup {argM[c]}
      /\ head' = [head EXCEPT ![argW[c]] = SealedHead(c)]
  BY Zenon DEF SealCommit
<1>2. /\ mistaken' = IF Mistakes(c) THEN mistaken \cup {argW[c]} ELSE mistaken
      /\ torn' = IF argW[c] \in mistaken'
                 THEN torn \cup {argM[c]} ELSE torn \ {argM[c]}
  BY Zenon DEF SealCommit
<1>3. LockInv' /\ MarkInv'
  BY <1>1, ReturnPcs, ReleaseStep DEF RootsOK, TxPcs
<1>4. /\ argW[c] \in Workspaces /\ argM[c] \in resident
      /\ Refs[argM[c]] = SealedHead(c) /\ refs[c] \subseteq resident
      /\ seenInc[c] = created[argW[c]] => keep[c] \subseteq head[argW[c]]
  BY <1>1 DEF CallInv, ArgOK, SeenOK, SealOK, HeadUnmoved, StillResident,
       SealPcs
<1>5. argW[c] \notin mistaken' => SealedHead(c) \subseteq resident
  <2> SUFFICES ASSUME argW[c] \notin mistaken'
               PROVE  SealedHead(c) \subseteq resident
    OBVIOUS
  <2>1. argW[c] \notin mistaken /\ keep[c] \subseteq head[argW[c]]
    BY <1>2, <1>4, Zenon DEF Mistakes
  <2> QED
    BY <1>4, <2>1 DEF SealedHead, RootsOK, HeadsResident
<1>6. HeadsResident'
  BY <1>1, <1>2, <1>4, <1>5, SMT DEF RootsOK, HeadsResident, TypeOK,
     TableTypes
<1>7. UntornRootsResident'
  BY <1>1, <1>2, <1>4, <1>5, SMT DEF RootsOK, UntornRootsResident, Leased,
     Closure
<1> QED
  BY <1>3, <1>6, <1>7 DEF RootsOK

\* Lock, marks and resident roots survive adopt_snapshot: a row over missing
\* bytes is a torn root.
LEMMA AdoptRoots ==
  ASSUME TypeOK, RootsOK, NEW c \in Clients, Adopt(c)
  PROVE  RootsOK'
<1>1. ASSUME \/ \E m \in Remote : AdoptBegin(c, m)
             \/ \E d \in Data : AdoptStat(c, d)
             \/ AdoptPut(c)
      PROVE  RootsOK'
  <2>1. UNCHANGED <<dbVars, pins, writer>> /\ resident \subseteq resident'
    BY <1>1, Zenon DEF AdoptBegin, AdoptStat, AdoptPut
  <2>2. PcsKept
    BY <1>1, SMTT(30) DEF AdoptBegin, AdoptStat, AdoptPut, Start, Goto,
         TypeOK, CallTypes, PcsKept, TxPcs, GcPcs, gcVars
  <2> QED
    BY <2>1, <2>2, LocalStep
<1>2. ASSUME AdoptRow(c) PROVE RootsOK'
  <2>1. /\ Transact /\ Return(c)
        /\ UNCHANGED <<resident, head, orphan, leaked, mistaken, pins, writer>>
    BY <1>2, Zenon DEF AdoptRow
  <2>2. /\ snapshots' = snapshots \cup {argM[c]}
        /\ torn' = IF Closure(argM[c]) \subseteq resident
                   THEN torn \ {argM[c]} ELSE torn \cup {argM[c]}
    BY <1>2, Zenon DEF AdoptRow
  <2>3. LockInv' /\ MarkInv'
    BY <2>1, ReturnPcs, TransactStep DEF RootsOK, PcReturns, TxPcs, GcPcs
  <2>4. HeadsResident' /\ UntornRootsResident'
    BY <2>1, <2>2, SMT DEF RootsOK, HeadsResident, UntornRootsResident, Leased,
         Closure
  <2> QED
    BY <2>3, <2>4 DEF RootsOK
<1> QED
  BY <1>1, <1>2 DEF Adopt

\* Lock, marks and resident roots survive a push's lease: it pins a snapshot
\* whose row stands.
LEMMA PushRoots ==
  ASSUME TypeOK, RootsOK, NEW c \in Clients, Push(c)
  PROVE  RootsOK'
<1>1. /\ Transact /\ writer' = writer
      /\ UNCHANGED <<resident, head, orphan, snapshots, leaked, torn,
                     mistaken>>
  BY DEF Push, PushBegin, PushEnd, dbVars
<1>2. \A k \in Clients : pc'[k] \in TxPcs => pc[k] \in TxPcs
  BY SMTT(30) DEF Push, PushBegin, PushEnd, Start, Goto, TypeOK, CallTypes,
       TxPcs, GcPcs
<1>3. \A k \in Clients :
        pins'[k] \in snapshots \/ pins'[k] = pins[k] \/ pins'[k] = None
  BY DEF Push, PushBegin, PushEnd, TypeOK
<1>4. LockInv' /\ MarkInv'
  BY <1>1, <1>2, TransactStep DEF RootsOK
<1>5. (snapshots \cup Leased)' \subseteq snapshots \cup Leased
  BY <1>1, <1>3 DEF Leased
<1> QED
  BY <1>1, <1>4, <1>5, ResidentShrink DEF RootsOK

\* A pass removes only what it has not marked, so nothing rooted.
LEMMA DoomedUnrooted ==
  ASSUME MarkInv, NEW c \in Clients, NEW o \in Objects, CollectDelete(c, o)
  PROVE  o \notin Rooted
  BY DEF CollectDelete, Doomed, MarkInv, GcPcs

\* Lock, marks and resident roots survive a pass's removal of one file.
LEMMA CollectDeleteRoots ==
  ASSUME TypeOK, RootsOK, NEW c \in Clients, NEW o \in Objects,
         CollectDelete(c, o)
  PROVE  RootsOK'
<1>1. /\ UNCHANGED <<dbVars, pins, writer, pc, marks>>
      /\ resident' = resident \ {o}
  BY Zenon DEF CollectDelete
<1>2. RootsKept /\ epoch' = epoch
  BY <1>1 DEF RootsKept, dbVars
<1>3. LockInv' /\ MarkInv'
  <2>1. Rooted' = Rooted
    BY <1>2, RootedFrame, Zenon DEF RootsKept
  <2>2. LockInv'
    BY <1>1, Zenon DEF RootsOK, LockInv
  <2> QED
    BY <1>1, <1>2, <2>1, <2>2 DEF RootsOK, MarkInv
<1>4. o \notin Rooted
  BY DoomedUnrooted DEF RootsOK
<1>5. HeadsResident'
  BY <1>1, <1>2, <1>4, SMT DEF RootsOK, RootsKept, HeadsResident, Rooted,
       HeadObjects
<1>6. UntornRootsResident'
  BY <1>1, <1>2, <1>4, SMT DEF RootsOK, RootsKept, UntornRootsResident, Leased,
       Closure, Rooted, LeasedObjects
<1> QED
  BY <1>3, <1>5, <1>6 DEF RootsOK

\* Lock, marks and resident roots survive a collection pass: its marks are
\* the root set, and the lock it holds keeps the root set still.
LEMMA CollectRoots ==
  ASSUME TypeOK, RootsOK, NEW c \in Clients, Collect(c)
  PROVE  RootsOK'
<1>1. ASSUME CollectBegin(c) PROVE RootsOK'
  <2>1. /\ Transact /\ writer' = c /\ UNCHANGED <<resident, dbVars, pins>>
        /\ epoch < MaxEpoch
    BY <1>1, Zenon DEF CollectBegin
  <2>2. /\ \A k \in Clients : pc'[k] = IF k = c THEN "gcList" ELSE pc[k]
        /\ marks'[c] = Rooted
    BY <1>1 DEF CollectBegin, Start, TypeOK, CallTypes
  <2>3. RootsKept /\ epoch' = epoch
    BY <2>1 DEF RootsKept, dbVars
  <2>4. LockInv'
    BY <2>1, <2>2 DEF RootsOK, LockInv, Transact, TxPcs, GcPcs
  <2>5. MarkInv'
    <3>1. Rooted' = Rooted
      BY <2>3, RootedFrame DEF RootsKept
    <3>2. ASSUME NEW k \in Clients \ {c} PROVE pc'[k] \notin GcPcs
      BY <2>1, <2>2 DEF RootsOK, LockInv, Transact, TxPcs
    <3> QED
      BY <2>1, <2>2, <2>3, <3>1, <3>2, SMT DEF MarkInv
  <2> QED
    BY <2>1, <2>3, <2>4, <2>5, ResidentFrame DEF RootsOK
<1>2. ASSUME NEW late \in SUBSET Objects, CollectList(c, late) PROVE RootsOK'
  <2>1. UNCHANGED <<dbVars, pins, writer>> /\ resident \subseteq resident'
    BY <1>2, Zenon DEF CollectList
  <2>2. PcsKept
    BY <1>2, SMTT(30) DEF CollectList, Goto, TypeOK, CallTypes, PcsKept,
         TxPcs, GcPcs
  <2> QED
    BY <2>1, <2>2, LocalStep
<1>3. ASSUME CollectCommit(c) PROVE RootsOK'
  <2>1. /\ pc[c] = "gcSweep" /\ Return(c) /\ writer' = None
        /\ UNCHANGED <<resident, head, orphan, snapshots, leaked, torn,
                       mistaken, pins>>
    BY <1>3, Zenon DEF CollectCommit
  <2>2. LockInv' /\ MarkInv'
    BY <2>1, ReturnPcs, ReleaseStep DEF RootsOK, TxPcs, GcPcs
  <2> QED
    BY <2>1, <2>2, ResidentFrame DEF RootsOK, RootsKept
<1> QED
  BY <1>1, <1>2, <1>3, CollectDeleteRoots DEF Collect

\* Lock, marks and resident roots survive an error return or the death of a
\* caller: a dead pusher's lease still pins what it pinned.
LEMMA AbandonRoots ==
  ASSUME TypeOK, RootsOK, NEW c \in Clients, Abandon(c)
  PROVE  RootsOK'
<1>1. /\ Return(c) /\ writer' = IF writer = c THEN None ELSE writer
      /\ leaked' = IF pins[c] = None THEN leaked ELSE leaked \cup {pins[c]}
      /\ pins' = [pins EXCEPT ![c] = None]
      /\ UNCHANGED <<resident, head, orphan, snapshots, epoch, torn,
                     mistaken>>
  BY Zenon DEF Abandon
<1>2. PcReturns(c)
  BY <1>1, ReturnPcs
<1>3. Leased' = Leased
  BY <1>1 DEF Leased, TypeOK
<1>4. Rooted' = Rooted
  BY <1>1, <1>3 DEF Rooted, HeadObjects, LeasedObjects, Closure
<1>5. LockInv' /\ MarkInv'
  BY <1>1, <1>2, <1>4 DEF RootsOK, LockInv, MarkInv, PcReturns, TxPcs, GcPcs
<1> QED
  BY <1>1, <1>3, <1>5, ResidentShrink DEF RootsOK

\* Lock, marks and resident roots survive every step of the system.
LEMMA RootsInductive ==
  ASSUME IndInv, Next
  PROVE  RootsOK'
<1>1. TypeOK /\ CallInv /\ RootsOK
  BY DEF IndInv, RootsOK
<1>2. ASSUME NEW c \in Clients, Commit(c) \/ Seal(c) PROVE RootsOK'
  BY <1>1, <1>2, CommitRoots, SealStepRoots, SealCommitRoots
<1>3. ASSUME NEW c \in Clients,
             Adopt(c) \/ Push(c) \/ Collect(c) \/ Abandon(c)
      PROVE  RootsOK'
  BY <1>1, <1>3, AdoptRoots, PushRoots, CollectRoots, AbandonRoots
<1> QED
  BY <1>1, <1>2, <1>3, AdmitRoots, TableStepRoots DEF Next

\* The empty store satisfies the inductive invariant.
LEMMA InitInd == Init => IndInv
<1> SUFFICES ASSUME Init PROVE IndInv
  OBVIOUS
<1>1. TypeOK
  BY SMT DEF Init, TypeOK, TableTypes, CallTypes, Pcs, MaxAttempts
<1>2. LockInv /\ MarkInv
  BY DEF Init, LockInv, MarkInv, TxPcs, GcPcs
<1>3. CallInv
  BY DEF Init, CallInv, ArgOK, SeenOK, SealOK, SealPcs
<1>4. HeadsResident /\ UntornRootsResident
  BY DEF Init, HeadsResident, UntornRootsResident, Leased
<1> QED
  BY <1>1, <1>2, <1>3, <1>4 DEF IndInv

\* A step that changes nothing keeps the inductive invariant.
LEMMA StutterInd == IndInv /\ UNCHANGED vars => IndInv'
<1> SUFFICES ASSUME IndInv, UNCHANGED vars PROVE IndInv'
  OBVIOUS
<1>1. UNCHANGED <<resident, dbVars, pins, writer, pc, callVars, todo, gcVars>>
  BY Zenon DEF vars
<1>2. TypeOK'
  <2>1. TypeOK
    BY Zenon DEF IndInv
  <2>2. TableTypes' /\ CallTypes'
    BY <1>1, <2>1, TablesFrame, CallsFrame, Zenon
  <2> QED
    BY <1>1, <2>1, <2>2, TypesJoin, Zenon DEF TypeOK
<1>3. RootsOK'
  BY <1>1, LocalStep DEF IndInv, RootsOK, PcsKept, gcVars
<1>4. CallInv'
  <2>1. TablesKept /\ \A k \in Clients : LocalsKept(k)
    BY <1>1, Zenon DEF dbVars, callVars, TablesKept, LocalsKept
  <2> QED
    BY <1>1, <2>1, KeptCall, Zenon DEF IndInv, CallInv, CallOK, TablesKept
<1> QED
  BY <1>2, <1>3, <1>4 DEF IndInv, RootsOK

\* IndInv is an invariant: the lock excludes every other root change from a
\* running pass, and a seal's generation check pins the tree it read, as long
\* as the workspace is the one it read.
THEOREM Inductive == Spec => []IndInv
<1>1. IndInv /\ [Next]_vars => IndInv'
  BY TypesInductive, RootsInductive, CallsInductive, StutterInd
     DEF IndInv, RootsOK
<1> QED
  BY <1>1, InitInd, PTL DEF Spec

\* The tables, the lock and every call's locals keep their types; above all
\* the epoch, the generations and a seal's attempts stay within their bounds.
THEOREM TypesHold == Spec => []TypeOK
<1>1. IndInv => TypeOK
  BY DEF IndInv
<1> QED
  BY <1>1, Inductive, PTL

\* commit_generation, seal_snapshot and collect together never leave a
\* workspace head or a leased unlinked file naming bytes that are gone, but
\* for a workspace that took the seal of an earlier one of its name.
THEOREM HeadsStayResident == Spec => []HeadsResident
<1>1. IndInv => HeadsResident
  BY DEF IndInv
<1> QED
  BY <1>1, Inductive, PTL

\* A sealed snapshot, and whatever a push has leased, keeps its manifest and
\* every object it names; only adopt_snapshot and the seal of such a
\* workspace can break a root.
THEOREM UntornRootsStayResident == Spec => []UntornRootsResident
<1>1. IndInv => UntornRootsResident
  BY DEF IndInv
<1> QED
  BY <1>1, Inductive, PTL

\* Only a pass's removals take files away.
LEMMA OnlyCollectDeletes ==
  ASSUME Next, ~ resident \subseteq resident'
  PROVE  \E c \in Clients, o \in Objects :
           CollectDelete(c, o) /\ resident' = resident \ {o}
<1>1. ASSUME NEW c \in Clients, Commit(c) \/ Push(c) \/ Abandon(c)
      PROVE  resident' = resident
  BY <1>1, Zenon DEF Commit, CommitBegin, CommitVerify, CommitTx, Push,
       PushBegin, PushEnd, Abandon
<1>2. ASSUME NEW c \in Clients, Seal(c) \/ Adopt(c)
      PROVE  resident \subseteq resident'
  BY <1>2, Zenon DEF Seal, SealBegin, SealTree, SealPlan, SealAdmit,
       SealRetry, SealTx, SealPut, SealCommit, Adopt, AdoptBegin, AdoptStat,
       AdoptPut, AdoptRow
<1>3. ASSUME \/ \E d \in Data : Admit(d)
             \/ \E w \in Workspaces : CreateWorkspace(w) \/ DeleteWorkspace(w)
             \/ \E w \in Workspaces, left \in SUBSET Data :
                  ReleaseUnlinked(w, left)
             \/ \E m \in Manifests : DeleteSnapshot(m)
      PROVE  resident \subseteq resident'
  BY <1>3, Zenon DEF Admit, CreateWorkspace, DeleteWorkspace,
       ReleaseUnlinked, DeleteSnapshot
<1>4. PICK c \in Clients : Collect(c)
  BY <1>1, <1>2, <1>3, Zenon DEF Next
<1>5. PICK o \in Objects : CollectDelete(c, o)
  BY <1>4 DEF Collect, CollectBegin, CollectList, CollectCommit
<1> QED
  BY <1>5, Zenon DEF CollectDelete

\* collect: "a live object can never enter the delete set".
THEOREM LiveIsNeverDeleted == Spec => LiveNeverDeleted
<1>1. IndInv /\ [Next]_vars
        => [\A o \in Rooted \cap resident : o \in resident']_vars
  BY OnlyCollectDeletes, DoomedUnrooted DEF IndInv
<1> QED
  BY <1>1, Inductive, PTL DEF LiveNeverDeleted, Spec

\* Only the commit of a pass moves the epoch, the quarantine rows and the
\* history beside them.
LEMMA QuarantineFrame ==
  ASSUME Next, \A c \in Clients : ~CollectCommit(c)
  PROVE  UNCHANGED <<epoch, quarantine, unrooted>>
<1>1. ASSUME NEW c \in Clients, Commit(c) \/ Push(c) \/ Abandon(c) \/ Adopt(c)
      PROVE  UNCHANGED <<epoch, quarantine, unrooted>>
  BY <1>1, Zenon DEF Commit, CommitBegin, CommitVerify, CommitTx, Push,
       PushBegin, PushEnd, Abandon, Adopt, AdoptBegin, AdoptStat, AdoptPut,
       AdoptRow, dbVars
<1>2. ASSUME NEW c \in Clients, Seal(c)
      PROVE  UNCHANGED <<epoch, quarantine, unrooted>>
  BY <1>2, Zenon DEF Seal, SealBegin, SealTree, SealPlan, SealAdmit,
       SealRetry, SealTx, SealPut, SealCommit, dbVars
<1>3. ASSUME \/ \E d \in Data : Admit(d)
             \/ \E w \in Workspaces : CreateWorkspace(w) \/ DeleteWorkspace(w)
             \/ \E w \in Workspaces, left \in SUBSET Data :
                  ReleaseUnlinked(w, left)
             \/ \E m \in Manifests : DeleteSnapshot(m)
      PROVE  UNCHANGED <<epoch, quarantine, unrooted>>
  BY <1>3, Zenon DEF Admit, CreateWorkspace, DeleteWorkspace,
       ReleaseUnlinked, DeleteSnapshot, dbVars
<1>4. ASSUME NEW c \in Clients, Collect(c)
      PROVE  UNCHANGED <<epoch, quarantine, unrooted>>
  BY <1>4, Zenon DEF Collect, CollectBegin, CollectList, CollectDelete, dbVars
<1> QED
  BY <1>1, <1>2, <1>3, <1>4 DEF Next

\* A row's epoch tells how many passes in a row found its object without a
\* root: at most two.
THEOREM QuarantineCounts == Spec => []QuarantineInv
<1>1. Init => QuarantineInv
  BY SMT DEF Init, QuarantineInv
<1>2. QuarantineInv /\ UNCHANGED <<epoch, quarantine, unrooted>>
        => QuarantineInv'
  BY DEF QuarantineInv
<1>3. ASSUME QuarantineInv, NEW c \in Clients, CollectCommit(c)
      PROVE  QuarantineInv'
  <2>1. /\ Doomed(c) = {} /\ epoch' = epoch + 1
        /\ quarantine' = NextQuarantine(c)
        /\ unrooted' = [o \in Objects |-> IF o \in listed[c] \ marks[c]
                                          THEN unrooted[o] + 1 ELSE 0]
    BY <1>3, Zenon DEF CollectCommit
  <2>2. ASSUME NEW o \in Objects, o \in listed[c] \ marks[c]
        PROVE  quarantine[o] = 0 \/ unrooted[o] <= 1
    BY <1>3, <2>1, <2>2, SMT DEF Doomed, QuarantineInv
  <2> QED
    BY <1>3, <2>1, <2>2, SMT DEF NextQuarantine, QuarantineInv
<1>4. QuarantineInv /\ [Next]_vars => QuarantineInv'
  <2>1. UNCHANGED vars => UNCHANGED <<epoch, quarantine, unrooted>>
    BY DEF vars, dbVars
  <2> QED
    BY <1>2, <1>3, <2>1, QuarantineFrame
<1> QED
  BY <1>1, <1>4, PTL DEF Spec

\* A pass removes only what the two passes before it both found without a
\* root, whatever is re-created, crashed or adopted in between.
THEOREM QuarantineLastsTwoPasses == Spec => TwoPassesBeforeDelete
<1>1. QuarantineInv /\ [Next]_vars
        => [\A o \in resident \ resident' : unrooted[o] >= 2]_vars
  <2> SUFFICES ASSUME QuarantineInv, Next, NEW o \in resident \ resident'
               PROVE  unrooted[o] >= 2
    OBVIOUS
  <2>1. PICK c \in Clients, x \in Objects :
          CollectDelete(c, x) /\ resident' = resident \ {x}
    BY OnlyCollectDeletes
  <2> QED
    BY <2>1, SMT DEF CollectDelete, Doomed, QuarantineInv
<1> QED
  BY <1>1, QuarantineCounts, PTL DEF TwoPassesBeforeDelete, Spec

\* And nothing stays resident and without a root over three passes.
THEOREM GarbageIsBounded == Spec => []NoGarbageOutlivesThreePasses
<1>1. QuarantineInv => NoGarbageOutlivesThreePasses
  BY SMT DEF QuarantineInv, NoGarbageOutlivesThreePasses
<1> QED
  BY <1>1, QuarantineCounts, PTL

-----------------------------------------------------------------------------
\* A step inserts or deletes at most one snapshot row.
LEMMA RowsMoveSingly ==
  ASSUME Next
  PROVE  \E m : \/ snapshots' = snapshots
                \/ snapshots' = snapshots \cup {m}
                \/ snapshots' = snapshots \ {m}
<1>1. ASSUME NEW c \in Clients,
             SealCommit(c) \/ AdoptRow(c)
      PROVE  \E m : snapshots' = snapshots \cup {m}
  BY <1>1, Zenon DEF SealCommit, AdoptRow
<1>2. ASSUME NEW m \in Manifests, DeleteSnapshot(m)
      PROVE  snapshots' = snapshots \ {m}
  BY <1>2, Zenon DEF DeleteSnapshot
<1>3. ASSUME NEW c \in Clients,
             \/ Commit(c) \/ Push(c) \/ Collect(c) \/ Abandon(c)
      PROVE  snapshots' = snapshots
  BY <1>3, Zenon DEF Commit, CommitBegin, CommitVerify, CommitTx, Push,
       PushBegin, PushEnd, Collect, CollectBegin, CollectList, CollectDelete,
       CollectCommit, Abandon, dbVars
<1>4. ASSUME NEW c \in Clients, Seal(c), ~SealCommit(c)
      PROVE  snapshots' = snapshots
  BY <1>4, Zenon DEF Seal, SealBegin, SealTree, SealPlan, SealAdmit,
       SealRetry, SealTx, SealPut, dbVars
<1>5. ASSUME NEW c \in Clients, Adopt(c), ~AdoptRow(c)
      PROVE  snapshots' = snapshots
  BY <1>5, Zenon DEF Adopt, AdoptBegin, AdoptStat, AdoptPut, dbVars
<1>6. ASSUME \/ \E d \in Data : Admit(d)
             \/ \E w \in Workspaces : CreateWorkspace(w) \/ DeleteWorkspace(w)
             \/ \E w \in Workspaces, left \in SUBSET Data :
                  ReleaseUnlinked(w, left)
      PROVE  snapshots' = snapshots
  BY <1>6, Zenon DEF Admit, CreateWorkspace, DeleteWorkspace,
       ReleaseUnlinked, dbVars
<1> QED
  BY <1>1, <1>2, <1>3, <1>4, <1>5, <1>6, Zenon DEF Next

\* usage counts roots: with finitely many rows, an object of snapshot m is
\* reached once exactly when nothing but m reaches it.
LEMMA CountedOnce ==
  ASSUME IsFiniteSet(snapshots), NEW m \in snapshots, NEW o \in Closure(m)
  PROVE  ReachedBy(o) = 1 <=>
           o \notin HeadObjects \cup LeasedObjects
                      \cup UNION {Closure(n) : n \in snapshots \ {m}}
<1> DEFINE R == {n \in snapshots : o \in Closure(n)}
<1>1. IsFiniteSet(R) /\ Cardinality(R) \in Nat /\ m \in R
  BY FS_Subset, FS_CardinalityType, Zenon
<1>2. Cardinality(R) # 0
  BY <1>1, FS_EmptySet, Zenon
<1>3. Cardinality(R) = 1 <=> R = {m}
  <2> HIDE DEF R
  <2>1. Cardinality({m}) = 1
    BY FS_Singleton, Zenon
  <2>2. ASSUME Cardinality(R) = 1 PROVE R = {m}
    <3>1. PICK x : R = {x}
      BY <1>1, <2>2, FS_Singleton, Zenon
    <3> QED
      BY <1>1, <3>1, Zenon
  <2> QED
    BY <2>1, <2>2, Zenon
<1>4. R = {m} <=> o \notin UNION {Closure(n) : n \in snapshots \ {m}}
  BY <1>1, Zenon
<1> DEFINE k == Cardinality(R)
           h == IF o \in HeadObjects THEN 1 ELSE 0
           l == IF o \in LeasedObjects THEN 1 ELSE 0
<1>5. ReachedBy(o) = k + h + l
  BY Zenon DEF ReachedBy
<1>6. /\ h \in Nat /\ (h = 0 <=> o \notin HeadObjects)
      /\ l \in Nat /\ (l = 0 <=> o \notin LeasedObjects)
  BY SMT
<1>7. k \in Nat /\ k # 0
  BY <1>1, <1>2, Zenon
<1> HIDE DEF k, h, l
<1>8. k + h + l = 1 <=> k = 1 /\ h = 0 /\ l = 0
  BY <1>6, <1>7, SMT
<1>9. k = 1 <=> R = {m}
  BY <1>3, Zenon DEF k
<1> HIDE DEF R
<1> QED
  BY <1>4, <1>5, <1>6, <1>8, <1>9, Zenon

\* The rows stay finitely many.
LEMMA RowsFinite == Spec => []IsFiniteSet(snapshots)
<1>1. Init => IsFiniteSet(snapshots)
  BY FS_EmptySet, Zenon DEF Init
<1>2. IsFiniteSet(snapshots) /\ [Next]_vars => IsFiniteSet(snapshots)'
  <2>1. SUFFICES ASSUME IsFiniteSet(snapshots), [Next]_vars
                 PROVE  IsFiniteSet(snapshots')
    OBVIOUS
  <2>2. \A m : /\ IsFiniteSet(snapshots \cup {m})
               /\ IsFiniteSet(snapshots \ {m})
    BY <2>1, FS_AddElement, FS_RemoveElement, Zenon
  <2>3. CASE Next
    BY <2>1, <2>2, <2>3, RowsMoveSingly, Zenon
  <2>4. CASE UNCHANGED vars
    BY <2>1, <2>4, Zenon DEF vars, dbVars
  <2> QED
    BY <2>1, <2>3, <2>4
<1> QED
  BY <1>1, <1>2, PTL DEF Spec

\* Only a lease on the snapshot itself gives its manifest a second root.
LEMMA ManifestRoots ==
  ASSUME TypeOK, NEW m \in snapshots
  PROVE  /\ m \notin HeadObjects
         /\ m \notin UNION {Closure(n) : n \in snapshots \ {m}}
         /\ m \in LeasedObjects <=> m \in Leased
<1>1. m \in Manifests /\ m \notin Data
  BY DEF TypeOK, TableTypes
<1>2. ASSUME NEW n \in Manifests PROVE m \in Closure(n) <=> m = n
  BY <1>1, <1>2, SMT DEF Closure
<1>3. Leased \subseteq Manifests /\ snapshots \subseteq Manifests
  BY SMT DEF Leased, TypeOK, TableTypes
<1>4. m \notin HeadObjects
  BY <1>1, SMT DEF HeadObjects, TypeOK, TableTypes
<1> QED
  BY <1>2, <1>3, <1>4, SMT DEF LeasedObjects

\* What usage reports as exclusive to a snapshot is what deleting its row
\* would free, for any number of snapshots, heads, leases and objects: its
\* manifest, unless it is gone or a lease pins the snapshot, and nothing in
\* that case.
THEOREM UsageTellsWhatIsFreed == Spec => []ExclusiveIsFreed
<1>1. ASSUME TypeOK, IsFiniteSet(snapshots), NEW m \in snapshots
      PROVE  /\ Exclusive(m) =
                  (resident \cap Closure(m))
                    \ (HeadObjects \cup LeasedObjects
                         \cup UNION {Closure(n) : n \in snapshots \ {m}})
             /\ m \in Exclusive(m) <=> m \in resident \ Leased
             /\ m \in Leased => Exclusive(m) = {}
  <2>1. Exclusive(m) =
          (resident \cap Closure(m))
            \ (HeadObjects \cup LeasedObjects
                 \cup UNION {Closure(n) : n \in snapshots \ {m}})
    BY <1>1, CountedOnce, Zenon DEF Exclusive
  <2>2. m \in Exclusive(m) <=> m \in resident \ Leased
    BY <1>1, <2>1, ManifestRoots, Zenon DEF Closure
  <2>3. m \in Leased => Closure(m) \subseteq LeasedObjects
    BY Zenon DEF LeasedObjects
  <2> QED
    BY <2>1, <2>2, <2>3, Zenon
<1>2. TypeOK /\ IsFiniteSet(snapshots) => ExclusiveIsFreed
  BY <1>1, Zenon DEF ExclusiveIsFreed
<1> QED
  BY <1>2, TypesHold, RowsFinite, PTL
==============================================================================
