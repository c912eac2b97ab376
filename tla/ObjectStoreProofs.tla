------------------------- MODULE ObjectStoreProofs -------------------------
(***************************************************************************)
(* IndInv survives every step of a writer, the removals, the temp          *)
(* collector and the environment, so it is an invariant, for any number of *)
(* writers, digests and temps and any set of faults.  The properties of    *)
(* the runs and the refinement of Cas follow.                              *)
(***************************************************************************)
EXTENDS ObjectStore, TLAPS

\* Zenon is the default prover; the leaves that need arithmetic or functions
\* built by EXCEPT cite SMT.
USE StoreAssumption, Zenon
    DEF tempVars, objectVars, callVars, ackVars, reapVars, gcVars, Temps,
        Goto, Return, Unlock, WriterPcs

----------------------------------------------------------------------------
(* The steps of a writer.                                                  *)

\* IndInv survives: ObjectStore::writer creates its temp.
LEMMA CreateInd ==
  ASSUME IndInv, NEW w \in Writers, NEW d \in Digests,
         NEW e \in Claims, Create(w, d, e)
  PROVE  IndInv'
<1>1. TempSets'
  BY SMT DEF IndInv, TypeOK, TempSets, CallInv, Create
<1>2. TempTypes'
  BY DEF IndInv, TypeOK, TempSets, TempTypes, CallTypes, CallInv, Create
<1>3. ObjectTypes'
  BY SMT DEF IndInv, TypeOK, TempSets, TempTypes, ObjectTypes, CallTypes,
     CallInv, Create
<1>4. CallTypes' /\ CollectorTypes'
  BY SMT DEF IndInv, TypeOK, TempSets, TempTypes, ObjectTypes, CallTypes,
     CollectorTypes, CallInv, Create
<1>5. CallInv'
  BY SMT DEF IndInv, TypeOK, TempSets, TempTypes, CallTypes, CallInv, Create
<1>6. WholeInv'
  BY DEF IndInv, TypeOK, TempSets, TempTypes, ObjectTypes, CallTypes,
     CallInv, WholeInv, Create
<1>7. LeaseInv'
  BY SMT DEF IndInv, TypeOK, TempSets, TempTypes, CollectorTypes, CallTypes,
     CallInv, LeaseInv, Create
<1>8. SealInv'
  BY DEF IndInv, TypeOK, TempSets, TempTypes, ObjectTypes, CallTypes,
     CallInv, SealInv, Create
<1> QED
  BY <1>1, <1>2, <1>3, <1>4, <1>5, <1>6, <1>7, <1>8 DEF IndInv, TypeOK

\* IndInv survives: the writer takes its lease.
LEMMA LockInd ==
  ASSUME IndInv, NEW w \in Writers, Lock(w)
  PROVE  IndInv'
<1>1. TempSets'
  BY DEF IndInv, TypeOK, TempSets, CallInv, Lock
<1>2. TempTypes'
  BY DEF IndInv, TypeOK, TempSets, TempTypes, CallTypes, CallInv, Lock
<1>3. ObjectTypes'
  BY DEF IndInv, TypeOK, TempSets, TempTypes, ObjectTypes, CallTypes,
     CallInv, Lock
<1>4. CallTypes' /\ CollectorTypes'
  BY DEF IndInv, TypeOK, TempSets, TempTypes, ObjectTypes, CallTypes,
     CollectorTypes, CallInv, Lock
<1>5. CallInv'
  BY DEF IndInv, TypeOK, TempSets, TempTypes, CallTypes, CallInv, Lock
<1>6. WholeInv'
  BY DEF IndInv, TypeOK, TempSets, TempTypes, ObjectTypes, CallTypes,
     CallInv, WholeInv, Lock
<1>7. LeaseInv'
  BY SMT DEF IndInv, TypeOK, TempSets, TempTypes, CollectorTypes, CallTypes,
     CallInv, LeaseInv, Lock
<1>8. SealInv'
  BY DEF IndInv, TypeOK, TempSets, TempTypes, ObjectTypes, CallTypes,
     CallInv, SealInv, Lock
<1> QED
  BY <1>1, <1>2, <1>3, <1>4, <1>5, <1>6, <1>7, <1>8 DEF IndInv, TypeOK

\* IndInv survives: the lease is refused.
LEMMA LockRefusedInd ==
  ASSUME IndInv, NEW w \in Writers, LockRefused(w)
  PROVE  IndInv'
<1>1. TempSets'
  BY DEF IndInv, TypeOK, TempSets, CallInv, LockRefused
<1>2. TempTypes'
  BY DEF IndInv, TypeOK, TempSets, TempTypes, CallTypes, CallInv,
     LockRefused
<1>3. ObjectTypes'
  BY DEF IndInv, TypeOK, TempSets, TempTypes, ObjectTypes, CallTypes,
     CallInv, LockRefused
<1>4. CallTypes' /\ CollectorTypes'
  BY SMT DEF IndInv, TypeOK, TempSets, TempTypes, ObjectTypes, CallTypes,
     CollectorTypes, CallInv, LockRefused
<1>5. CallInv'
  BY DEF IndInv, TypeOK, TempSets, TempTypes, CallTypes, CallInv,
     LockRefused
<1>6. WholeInv'
  BY DEF IndInv, TypeOK, TempSets, TempTypes, ObjectTypes, CallTypes,
     CallInv, WholeInv, LockRefused
<1>7. LeaseInv'
  BY DEF IndInv, TypeOK, TempSets, TempTypes, CollectorTypes, CallTypes,
     CallInv, LeaseInv, LockRefused
<1>8. SealInv'
  BY DEF IndInv, TypeOK, TempSets, TempTypes, ObjectTypes, CallTypes,
     CallInv, SealInv, LockRefused
<1> QED
  BY <1>1, <1>2, <1>3, <1>4, <1>5, <1>6, <1>7, <1>8 DEF IndInv, TypeOK

\* IndInv survives: the bytes are written.
LEMMA WriteInd ==
  ASSUME IndInv, NEW w \in Writers, Write(w)
  PROVE  IndInv'
<1>1. TempSets'
  BY DEF IndInv, TypeOK, TempSets, Write
<1>2. TempTypes'
  BY DEF IndInv, TypeOK, TempSets, TempTypes, CallTypes, CallInv, Write
<1>3. ObjectTypes'
  BY DEF IndInv, TypeOK, TempSets, TempTypes, ObjectTypes, CallTypes,
     CallInv, Write
<1>4. CallTypes' /\ CollectorTypes'
  BY DEF IndInv, TypeOK, TempSets, TempTypes, ObjectTypes, CallTypes,
     CollectorTypes, CallInv, Write
<1>5. CallInv'
  BY SMT DEF IndInv, TypeOK, TempSets, TempTypes, CallTypes, CallInv, Write
<1>6. WholeInv'
  BY SMT DEF IndInv, TypeOK, TempSets, TempTypes, ObjectTypes, CallTypes,
     CallInv, WholeInv, Write
<1>7. LeaseInv'
  BY DEF IndInv, TypeOK, TempSets, TempTypes, CollectorTypes, CallTypes,
     CallInv, LeaseInv, Write
<1>8. SealInv'
  BY DEF IndInv, TypeOK, TempSets, TempTypes, ObjectTypes, CallTypes,
     CallInv, SealInv, Write
<1> QED
  BY <1>1, <1>2, <1>3, <1>4, <1>5, <1>6, <1>7, <1>8 DEF IndInv, TypeOK

\* IndInv survives: the writer is dropped.
LEMMA DropUnfinishedInd ==
  ASSUME IndInv, NEW w \in Writers, DropUnfinished(w)
  PROVE  IndInv'
<1>1. TempSets'
  BY DEF IndInv, TypeOK, TempSets, DropUnfinished, Fail
<1>2. TempTypes'
  BY DEF IndInv, TypeOK, TempSets, TempTypes, CallTypes, CallInv,
     DropUnfinished, Fail
<1>3. ObjectTypes'
  BY DEF IndInv, TypeOK, TempSets, TempTypes, ObjectTypes, CallTypes,
     CallInv, DropUnfinished, Fail
<1>4. CallTypes' /\ CollectorTypes'
  BY SMT DEF IndInv, TypeOK, TempSets, TempTypes, ObjectTypes, CallTypes,
     CollectorTypes, CallInv, DropUnfinished, Fail
<1>5. CallInv'
  BY DEF IndInv, TypeOK, TempSets, TempTypes, CallTypes, CallInv,
     DropUnfinished, Fail
<1>6. WholeInv'
  BY DEF IndInv, TypeOK, TempSets, TempTypes, ObjectTypes, CallTypes,
     CallInv, WholeInv, DropUnfinished, Fail
<1>7. LeaseInv'
  BY SMT DEF IndInv, TypeOK, TempSets, TempTypes, CollectorTypes, CallTypes,
     CallInv, LeaseInv, DropUnfinished, Fail
<1>8. SealInv'
  BY SMT DEF IndInv, TypeOK, TempSets, TempTypes, ObjectTypes, CallTypes,
     CallInv, SealInv, DropUnfinished, Fail
<1> QED
  BY <1>1, <1>2, <1>3, <1>4, <1>5, <1>6, <1>7, <1>8 DEF IndInv, TypeOK

\* IndInv survives: finish syncs the bytes.
LEMMA FinishInd ==
  ASSUME IndInv, NEW w \in Writers, Finish(w)
  PROVE  IndInv'
<1>1. TempSets'
  BY DEF IndInv, TypeOK, TempSets, CallInv, Finish
<1>2. TempTypes'
  BY DEF IndInv, TypeOK, TempSets, TempTypes, CallTypes, CallInv, Finish
<1>3. ObjectTypes'
  BY DEF IndInv, TypeOK, TempSets, TempTypes, ObjectTypes, CallTypes,
     CallInv, Finish
<1>4. CallTypes' /\ CollectorTypes'
  BY DEF IndInv, TypeOK, TempSets, TempTypes, ObjectTypes, CallTypes,
     CollectorTypes, CallInv, Finish
<1>5. CallInv'
  BY DEF IndInv, TypeOK, TempSets, TempTypes, CallTypes, CallInv, Finish
<1>6. WholeInv'
  BY DEF IndInv, TypeOK, TempSets, TempTypes, ObjectTypes, CallTypes,
     CallInv, WholeInv, Finish
<1>7. LeaseInv'
  BY DEF IndInv, TypeOK, TempSets, TempTypes, CollectorTypes, CallTypes,
     CallInv, LeaseInv, Finish
<1>8. SealInv'
  BY DEF IndInv, TypeOK, TempSets, TempTypes, ObjectTypes, CallTypes,
     CallInv, SealInv, Finish
<1> QED
  BY <1>1, <1>2, <1>3, <1>4, <1>5, <1>6, <1>7, <1>8 DEF IndInv, TypeOK

\* IndInv survives: finish_expecting refuses.
LEMMA MismatchInd ==
  ASSUME IndInv, NEW w \in Writers, Mismatch(w)
  PROVE  IndInv'
<1>1. TempSets'
  BY DEF IndInv, TypeOK, TempSets, Mismatch, Fail
<1>2. TempTypes'
  BY DEF IndInv, TypeOK, TempSets, TempTypes, CallTypes, CallInv, Mismatch,
     Fail
<1>3. ObjectTypes'
  BY DEF IndInv, TypeOK, TempSets, TempTypes, ObjectTypes, CallTypes,
     CallInv, Mismatch, Fail
<1>4. CallTypes' /\ CollectorTypes'
  BY SMT DEF IndInv, TypeOK, TempSets, TempTypes, ObjectTypes, CallTypes,
     CollectorTypes, CallInv, Mismatch, Fail
<1>5. CallInv'
  BY DEF IndInv, TypeOK, TempSets, TempTypes, CallTypes, CallInv, Mismatch,
     Fail
<1>6. WholeInv'
  BY DEF IndInv, TypeOK, TempSets, TempTypes, ObjectTypes, CallTypes,
     CallInv, WholeInv, Mismatch, Fail
<1>7. LeaseInv'
  BY SMT DEF IndInv, TypeOK, TempSets, TempTypes, CollectorTypes, CallTypes,
     CallInv, LeaseInv, Mismatch, Fail
<1>8. SealInv'
  BY DEF IndInv, TypeOK, TempSets, TempTypes, ObjectTypes, CallTypes,
     CallInv, SealInv, Mismatch, Fail
<1> QED
  BY <1>1, <1>2, <1>3, <1>4, <1>5, <1>6, <1>7, <1>8 DEF IndInv, TypeOK

\* IndInv survives: install finds its temp gone.
LEMMA NameLostInd ==
  ASSUME IndInv, NEW w \in Writers, NameLost(w)
  PROVE  IndInv'
<1>1. TempSets'
  BY DEF IndInv, TypeOK, TempSets, NameLost, Fail
<1>2. TempTypes'
  BY DEF IndInv, TypeOK, TempSets, TempTypes, CallTypes, CallInv, NameLost,
     Fail
<1>3. ObjectTypes'
  BY DEF IndInv, TypeOK, TempSets, TempTypes, ObjectTypes, CallTypes,
     CallInv, NameLost, Fail
<1>4. CallTypes' /\ CollectorTypes'
  BY SMT DEF IndInv, TypeOK, TempSets, TempTypes, ObjectTypes, CallTypes,
     CollectorTypes, CallInv, NameLost, Fail
<1>5. CallInv'
  BY DEF IndInv, TypeOK, TempSets, TempTypes, CallTypes, CallInv, NameLost,
     Fail
<1>6. WholeInv'
  BY DEF IndInv, TypeOK, TempSets, TempTypes, ObjectTypes, CallTypes,
     CallInv, WholeInv, NameLost, Fail
<1>7. LeaseInv'
  BY SMT DEF IndInv, TypeOK, TempSets, TempTypes, CollectorTypes, CallTypes,
     CallInv, LeaseInv, NameLost, Fail
<1>8. SealInv'
  BY DEF IndInv, TypeOK, TempSets, TempTypes, ObjectTypes, CallTypes,
     CallInv, SealInv, NameLost, Fail
<1> QED
  BY <1>1, <1>2, <1>3, <1>4, <1>5, <1>6, <1>7, <1>8 DEF IndInv, TypeOK

\* IndInv survives: install links the object.
LEMMA LinkInd ==
  ASSUME IndInv, NEW w \in Writers, Link(w)
  PROVE  IndInv'
<1>1. TempSets'
  BY DEF IndInv, TypeOK, TempSets, CallInv, Link
<1>2. TempTypes'
  BY DEF IndInv, TypeOK, TempSets, TempTypes, CallTypes, CallInv, Link
<1>3. ObjectTypes'
  BY DEF IndInv, TypeOK, TempSets, TempTypes, ObjectTypes, CallTypes,
     CallInv, Link
<1>4. CallTypes' /\ CollectorTypes'
  BY DEF IndInv, TypeOK, TempSets, TempTypes, ObjectTypes, CallTypes,
     CollectorTypes, CallInv, Link
<1>5. CallInv'
  BY DEF IndInv, TypeOK, TempSets, TempTypes, CallTypes, CallInv, Link
<1>6. WholeInv'
  BY SMT DEF IndInv, TypeOK, TempSets, TempTypes, ObjectTypes, CallTypes,
     CallInv, WholeInv, Link
<1>7. LeaseInv'
  BY DEF IndInv, TypeOK, TempSets, TempTypes, CollectorTypes, CallTypes,
     CallInv, LeaseInv, Link
<1>8. SealInv'
  BY SMT DEF IndInv, TypeOK, TempSets, TempTypes, ObjectTypes, CallTypes,
     CallInv, SealInv, Link
<1> QED
  BY <1>1, <1>2, <1>3, <1>4, <1>5, <1>6, <1>7, <1>8 DEF IndInv, TypeOK

\* IndInv survives: install syncs the directories.
LEMMA SealDirectoriesInd ==
  ASSUME IndInv, NEW w \in Writers, SealDirectories(w)
  PROVE  IndInv'
<1>1. TempSets'
  BY DEF IndInv, TypeOK, TempSets, CallInv, SealDirectories, SyncDirectory
<1>2. TempTypes'
  BY DEF IndInv, TypeOK, TempSets, TempTypes, CallTypes, CallInv,
     SealDirectories, SyncDirectory
<1>3. ObjectTypes'
  BY DEF IndInv, TypeOK, TempSets, TempTypes, ObjectTypes, CallTypes,
     CallInv, SealDirectories, SyncDirectory
<1>4. CallTypes' /\ CollectorTypes'
  BY DEF IndInv, TypeOK, TempSets, TempTypes, ObjectTypes, CallTypes,
     CollectorTypes, CallInv, SealDirectories, SyncDirectory
<1>5. CallInv'
  BY DEF IndInv, TypeOK, TempSets, TempTypes, CallTypes, CallInv,
     SealDirectories, SyncDirectory
<1>6. WholeInv'
  BY SMT DEF IndInv, TypeOK, TempSets, TempTypes, ObjectTypes, CallTypes,
     CallInv, WholeInv, SealDirectories, SyncDirectory
<1>7. LeaseInv'
  BY DEF IndInv, TypeOK, TempSets, TempTypes, CollectorTypes, CallTypes,
     CallInv, LeaseInv, SealDirectories, SyncDirectory
<1>8. SealInv'
  BY DEF IndInv, TypeOK, TempSets, TempTypes, ObjectTypes, CallTypes,
     CallInv, SealInv, SealDirectories, SyncDirectory
<1> QED
  BY <1>1, <1>2, <1>3, <1>4, <1>5, <1>6, <1>7, <1>8 DEF IndInv, TypeOK

\* IndInv survives: install returns a fresh object.
LEMMA InstalledInd ==
  ASSUME IndInv, NEW w \in Writers, Installed(w)
  PROVE  IndInv'
<1>1. TempSets'
  BY DEF IndInv, TypeOK, TempSets, Installed, Acknowledge
<1>2. TempTypes'
  BY DEF IndInv, TypeOK, TempSets, TempTypes, CallTypes, CallInv, Installed,
     Acknowledge
<1>3. ObjectTypes'
  BY DEF IndInv, TypeOK, TempSets, TempTypes, ObjectTypes, CallTypes,
     CallInv, Installed, Acknowledge
<1>4. CallTypes' /\ CollectorTypes'
  BY SMT DEF IndInv, TypeOK, TempSets, TempTypes, ObjectTypes, CallTypes,
     CollectorTypes, CallInv, Installed, Acknowledge
<1>5. CallInv'
  BY DEF IndInv, TypeOK, TempSets, TempTypes, CallTypes, CallInv, Installed,
     Acknowledge
<1>6. WholeInv'
  BY DEF IndInv, TypeOK, TempSets, TempTypes, ObjectTypes, CallTypes,
     CallInv, WholeInv, Installed, Acknowledge
<1>7. LeaseInv'
  BY SMT DEF IndInv, TypeOK, TempSets, TempTypes, CollectorTypes, CallTypes,
     CallInv, LeaseInv, Installed, Acknowledge
<1>8. SealInv'
  BY SMT DEF IndInv, TypeOK, TempSets, TempTypes, ObjectTypes, CallTypes,
     CallInv, SealInv, Installed, Acknowledge
<1> QED
  BY <1>1, <1>2, <1>3, <1>4, <1>5, <1>6, <1>7, <1>8 DEF IndInv, TypeOK

\* IndInv survives: install meets a resident object.
LEMMA AlreadyExistsInd ==
  ASSUME IndInv, NEW w \in Writers, AlreadyExists(w)
  PROVE  IndInv'
<1>1. TempSets'
  BY DEF IndInv, TypeOK, TempSets, CallInv, AlreadyExists
<1>2. TempTypes'
  BY DEF IndInv, TypeOK, TempSets, TempTypes, CallTypes, CallInv,
     AlreadyExists
<1>3. ObjectTypes'
  BY DEF IndInv, TypeOK, TempSets, TempTypes, ObjectTypes, CallTypes,
     CallInv, AlreadyExists
<1>4. CallTypes' /\ CollectorTypes'
  BY DEF IndInv, TypeOK, TempSets, TempTypes, ObjectTypes, CallTypes,
     CollectorTypes, CallInv, AlreadyExists
<1>5. CallInv'
  BY DEF IndInv, TypeOK, TempSets, TempTypes, CallTypes, CallInv,
     AlreadyExists
<1>6. WholeInv'
  BY DEF IndInv, TypeOK, TempSets, TempTypes, ObjectTypes, CallTypes,
     CallInv, WholeInv, AlreadyExists
<1>7. LeaseInv'
  BY SMT DEF IndInv, TypeOK, TempSets, TempTypes, CollectorTypes, CallTypes,
     CallInv, LeaseInv, AlreadyExists
<1>8. SealInv'
  BY DEF IndInv, TypeOK, TempSets, TempTypes, ObjectTypes, CallTypes,
     CallInv, SealInv, AlreadyExists
<1> QED
  BY <1>1, <1>2, <1>3, <1>4, <1>5, <1>6, <1>7, <1>8 DEF IndInv, TypeOK

\* IndInv survives: verify opens the resident.
LEMMA OpenResidentInd ==
  ASSUME IndInv, NEW w \in Writers, OpenResident(w)
  PROVE  IndInv'
<1>1. TempSets'
  BY DEF IndInv, TypeOK, TempSets, CallInv, OpenResident
<1>2. TempTypes'
  BY DEF IndInv, TypeOK, TempSets, TempTypes, CallTypes, CallInv,
     OpenResident
<1>3. ObjectTypes'
  BY DEF IndInv, TypeOK, TempSets, TempTypes, ObjectTypes, CallTypes,
     CallInv, OpenResident
<1>4. CallTypes' /\ CollectorTypes'
  BY DEF IndInv, TypeOK, TempSets, TempTypes, ObjectTypes, CallTypes,
     CollectorTypes, CallInv, OpenResident
<1>5. CallInv'
  BY DEF IndInv, TypeOK, TempSets, TempTypes, CallTypes, CallInv,
     OpenResident
<1>6. WholeInv'
  BY DEF IndInv, TypeOK, TempSets, TempTypes, ObjectTypes, CallTypes,
     CallInv, WholeInv, OpenResident
<1>7. LeaseInv'
  BY DEF IndInv, TypeOK, TempSets, TempTypes, CollectorTypes, CallTypes,
     CallInv, LeaseInv, OpenResident
<1>8. SealInv'
  BY DEF IndInv, TypeOK, TempSets, TempTypes, ObjectTypes, CallTypes,
     CallInv, SealInv, OpenResident
<1> QED
  BY <1>1, <1>2, <1>3, <1>4, <1>5, <1>6, <1>7, <1>8 DEF IndInv, TypeOK

\* IndInv survives: verify finds no resident.
LEMMA ResidentGoneInd ==
  ASSUME IndInv, NEW w \in Writers, ResidentGone(w)
  PROVE  IndInv'
<1>1. TempSets'
  BY DEF IndInv, TypeOK, TempSets, ResidentGone, Fail
<1>2. TempTypes'
  BY DEF IndInv, TypeOK, TempSets, TempTypes, CallTypes, CallInv,
     ResidentGone, Fail
<1>3. ObjectTypes'
  BY DEF IndInv, TypeOK, TempSets, TempTypes, ObjectTypes, CallTypes,
     CallInv, ResidentGone, Fail
<1>4. CallTypes' /\ CollectorTypes'
  BY DEF IndInv, TypeOK, TempSets, TempTypes, ObjectTypes, CallTypes,
     CollectorTypes, CallInv, ResidentGone, Fail
<1>5. CallInv'
  BY DEF IndInv, TypeOK, TempSets, TempTypes, CallTypes, CallInv,
     ResidentGone, Fail
<1>6. WholeInv'
  BY DEF IndInv, TypeOK, TempSets, TempTypes, ObjectTypes, CallTypes,
     CallInv, WholeInv, ResidentGone, Fail
<1>7. LeaseInv'
  BY SMT DEF IndInv, TypeOK, TempSets, TempTypes, CollectorTypes, CallTypes,
     CallInv, LeaseInv, ResidentGone, Fail
<1>8. SealInv'
  BY DEF IndInv, TypeOK, TempSets, TempTypes, ObjectTypes, CallTypes,
     CallInv, SealInv, ResidentGone, Fail
<1> QED
  BY <1>1, <1>2, <1>3, <1>4, <1>5, <1>6, <1>7, <1>8 DEF IndInv, TypeOK

\* IndInv survives: the resident is accepted.
LEMMA AcceptInd ==
  ASSUME IndInv, NEW w \in Writers, Accept(w)
  PROVE  IndInv'
<1>1. TempSets'
  BY DEF IndInv, TypeOK, TempSets, Accept, Acknowledge, Intact
<1>2. TempTypes'
  BY DEF IndInv, TypeOK, TempSets, TempTypes, CallTypes, CallInv, Accept,
     Acknowledge, Intact
<1>3. ObjectTypes'
  BY DEF IndInv, TypeOK, TempSets, TempTypes, ObjectTypes, CallTypes,
     CallInv, Accept, Acknowledge, Intact
<1>4. CallTypes' /\ CollectorTypes'
  BY SMT DEF IndInv, TypeOK, TempSets, TempTypes, ObjectTypes, CallTypes,
     CollectorTypes, CallInv, Accept, Acknowledge, Intact
<1>5. CallInv'
  BY DEF IndInv, TypeOK, TempSets, TempTypes, CallTypes, CallInv, Accept,
     Acknowledge, Intact
<1>6. WholeInv'
  BY DEF IndInv, TypeOK, TempSets, TempTypes, ObjectTypes, CallTypes,
     CallInv, WholeInv, Accept, Acknowledge, Intact
<1>7. LeaseInv'
  BY DEF IndInv, TypeOK, TempSets, TempTypes, CollectorTypes, CallTypes,
     CallInv, LeaseInv, Accept, Acknowledge, Intact
<1>8. SealInv'
  BY DEF IndInv, TypeOK, TempSets, TempTypes, ObjectTypes, CallTypes,
     CallInv, SealInv, Accept, Acknowledge, Intact
<1> QED
  BY <1>1, <1>2, <1>3, <1>4, <1>5, <1>6, <1>7, <1>8 DEF IndInv, TypeOK

\* IndInv survives: the resident is refused.
LEMMA CorruptResidentInd ==
  ASSUME IndInv, NEW w \in Writers, CorruptResident(w)
  PROVE  IndInv'
<1>1. TempSets'
  BY DEF IndInv, TypeOK, TempSets, CorruptResident, Fail
<1>2. TempTypes'
  BY DEF IndInv, TypeOK, TempSets, TempTypes, CallTypes, CallInv,
     CorruptResident, Fail
<1>3. ObjectTypes'
  BY DEF IndInv, TypeOK, TempSets, TempTypes, ObjectTypes, CallTypes,
     CallInv, CorruptResident, Fail
<1>4. CallTypes' /\ CollectorTypes'
  BY SMT DEF IndInv, TypeOK, TempSets, TempTypes, ObjectTypes, CallTypes,
     CollectorTypes, CallInv, CorruptResident, Fail
<1>5. CallInv'
  BY DEF IndInv, TypeOK, TempSets, TempTypes, CallTypes, CallInv,
     CorruptResident, Fail
<1>6. WholeInv'
  BY DEF IndInv, TypeOK, TempSets, TempTypes, ObjectTypes, CallTypes,
     CallInv, WholeInv, CorruptResident, Fail
<1>7. LeaseInv'
  BY SMT DEF IndInv, TypeOK, TempSets, TempTypes, CollectorTypes, CallTypes,
     CallInv, LeaseInv, CorruptResident, Fail
<1>8. SealInv'
  BY DEF IndInv, TypeOK, TempSets, TempTypes, ObjectTypes, CallTypes,
     CallInv, SealInv, CorruptResident, Fail
<1> QED
  BY <1>1, <1>2, <1>3, <1>4, <1>5, <1>6, <1>7, <1>8 DEF IndInv, TypeOK

----------------------------------------------------------------------------
(* Removals, the temp collector and the environment.                       *)

\* IndInv survives: remove_object unlinks.
LEMMA RemoveUnlinkInd ==
  ASSUME IndInv, NEW d \in Digests, RemoveUnlink(d)
  PROVE  IndInv'
<1>1. TempSets'
  BY DEF IndInv, TypeOK, TempSets, CallInv, RemoveUnlink
<1>2. TempTypes'
  BY DEF IndInv, TypeOK, TempSets, TempTypes, CallTypes, CallInv,
     RemoveUnlink
<1>3. ObjectTypes'
  BY SMT DEF IndInv, TypeOK, TempSets, TempTypes, ObjectTypes, CallTypes,
     CallInv, RemoveUnlink
<1>4. CallTypes' /\ CollectorTypes'
  BY DEF IndInv, TypeOK, TempSets, TempTypes, ObjectTypes, CallTypes,
     CollectorTypes, CallInv, RemoveUnlink
<1>5. CallInv'
  BY DEF IndInv, TypeOK, TempSets, TempTypes, CallTypes, CallInv,
     RemoveUnlink
<1>6. WholeInv'
  BY SMT DEF IndInv, TypeOK, TempSets, TempTypes, ObjectTypes, CallTypes,
     CallInv, WholeInv, RemoveUnlink
<1>7. LeaseInv'
  BY DEF IndInv, TypeOK, TempSets, TempTypes, CollectorTypes, CallTypes,
     CallInv, LeaseInv, RemoveUnlink
<1>8. SealInv'
  BY DEF IndInv, TypeOK, TempSets, TempTypes, ObjectTypes, CallTypes,
     CallInv, SealInv, RemoveUnlink
<1> QED
  BY <1>1, <1>2, <1>3, <1>4, <1>5, <1>6, <1>7, <1>8 DEF IndInv, TypeOK

\* IndInv survives: remove_object syncs the directory.
LEMMA RemoveSyncInd ==
  ASSUME IndInv, RemoveSync
  PROVE  IndInv'
<1>1. TempSets'
  BY DEF IndInv, TypeOK, TempSets, CallInv, RemoveSync, SyncDirectory
<1>2. TempTypes'
  BY DEF IndInv, TypeOK, TempSets, TempTypes, CallTypes, CallInv,
     RemoveSync, SyncDirectory
<1>3. ObjectTypes'
  BY DEF IndInv, TypeOK, TempSets, TempTypes, ObjectTypes, CallTypes,
     CallInv, RemoveSync, SyncDirectory
<1>4. CallTypes' /\ CollectorTypes'
  BY DEF IndInv, TypeOK, TempSets, TempTypes, ObjectTypes, CallTypes,
     CollectorTypes, CallInv, RemoveSync, SyncDirectory
<1>5. CallInv'
  BY DEF IndInv, TypeOK, TempSets, TempTypes, CallTypes, CallInv,
     RemoveSync, SyncDirectory
<1>6. WholeInv'
  BY SMT DEF IndInv, TypeOK, TempSets, TempTypes, ObjectTypes, CallTypes,
     CallInv, WholeInv, RemoveSync, SyncDirectory
<1>7. LeaseInv'
  BY DEF IndInv, TypeOK, TempSets, TempTypes, CollectorTypes, CallTypes,
     CallInv, LeaseInv, RemoveSync, SyncDirectory
<1>8. SealInv'
  BY DEF IndInv, TypeOK, TempSets, TempTypes, ObjectTypes, CallTypes,
     CallInv, SealInv, RemoveSync, SyncDirectory
<1> QED
  BY <1>1, <1>2, <1>3, <1>4, <1>5, <1>6, <1>7, <1>8 DEF IndInv, TypeOK

\* IndInv survives: the temp collector lists a temp.
LEMMA ReapListInd ==
  ASSUME IndInv, NEW t \in Temps, ReapList(t)
  PROVE  IndInv'
<1>1. TempSets'
  BY DEF IndInv, TypeOK, TempSets, CallInv, ReapList
<1>2. TempTypes'
  BY DEF IndInv, TypeOK, TempSets, TempTypes, CallTypes, CallInv, ReapList
<1>3. ObjectTypes'
  BY DEF IndInv, TypeOK, TempSets, TempTypes, ObjectTypes, CallTypes,
     CallInv, ReapList
<1>4. CallTypes' /\ CollectorTypes'
  BY SMT DEF IndInv, TypeOK, TempSets, TempTypes, ObjectTypes, CallTypes,
     CollectorTypes, CallInv, ReapList
<1>5. CallInv'
  BY DEF IndInv, TypeOK, TempSets, TempTypes, CallTypes, CallInv, ReapList
<1>6. WholeInv'
  BY DEF IndInv, TypeOK, TempSets, TempTypes, ObjectTypes, CallTypes,
     CallInv, WholeInv, ReapList
<1>7. LeaseInv'
  BY DEF IndInv, TypeOK, TempSets, TempTypes, CollectorTypes, CallTypes,
     CallInv, LeaseInv, ReapList
<1>8. SealInv'
  BY DEF IndInv, TypeOK, TempSets, TempTypes, ObjectTypes, CallTypes,
     CallInv, SealInv, ReapList
<1> QED
  BY <1>1, <1>2, <1>3, <1>4, <1>5, <1>6, <1>7, <1>8 DEF IndInv, TypeOK

\* IndInv survives: the temp collector decides on it.
LEMMA ReapTempInd ==
  ASSUME IndInv, ReapTemp
  PROVE  IndInv'
<1>1. TempSets'
  BY DEF IndInv, TypeOK, TempSets, ReapTemp, ReapOpen, ReapLock, ReapRestat,
     ReapUnlink, ReapSkip
<1>2. TempTypes'
  <2>1. CASE ReapOpen \/ ReapRestat
    BY <2>1 DEF IndInv, TypeOK, TempTypes, ReapOpen, ReapRestat
  <2>2. CASE ReapLock
    <3>1. /\ bytes' = bytes
          /\ holder' = [holder EXCEPT ![kTemp] = Collector]
      BY <2>2 DEF ReapLock
    <3>2. holder' \in [Temps -> Writers \cup {None, Collector}]
      BY <3>1 DEF IndInv, TypeOK, TempTypes
    <3> QED
      BY <3>1, <3>2 DEF IndInv, TypeOK, TempTypes
  <2>3. CASE ReapUnlink \/ ReapSkip
    <3>1. bytes' = bytes /\ Unlock(Collector)
      BY <2>3 DEF ReapUnlink, ReapSkip
    <3> QED
      BY <3>1 DEF IndInv, TypeOK, TempTypes
  <2> QED
    BY <2>1, <2>2, <2>3 DEF ReapTemp
<1>3. ObjectTypes'
  BY DEF IndInv, TypeOK, TempSets, TempTypes, ObjectTypes, CallTypes,
     CallInv, ReapTemp, ReapOpen, ReapLock, ReapRestat, ReapUnlink, ReapSkip
<1>4. CallTypes' /\ CollectorTypes'
  BY SMT DEF IndInv, TypeOK, TempSets, TempTypes, ObjectTypes, CallTypes,
     CollectorTypes, CallInv, ReapTemp, ReapOpen, ReapLock, ReapRestat,
     ReapUnlink, ReapSkip
<1>5. CallInv'
  BY DEF IndInv, TypeOK, TempSets, TempTypes, CallTypes, CallInv, ReapTemp,
     ReapOpen, ReapLock, ReapRestat, ReapUnlink, ReapSkip
<1>6. WholeInv'
  BY DEF IndInv, TypeOK, TempSets, TempTypes, ObjectTypes, CallTypes,
     CallInv, WholeInv, ReapTemp, ReapOpen, ReapLock, ReapRestat, ReapUnlink,
     ReapSkip
<1>7. LeaseInv'
  BY SMT DEF IndInv, TypeOK, TempSets, TempTypes, CollectorTypes, CallTypes,
     CallInv, LeaseInv, ReapTemp, ReapOpen, ReapLock, ReapRestat, ReapUnlink,
     ReapSkip
<1>8. SealInv'
  BY SMT DEF IndInv, TypeOK, TempSets, TempTypes, ObjectTypes, CallTypes,
     CallInv, SealInv, ReapTemp, ReapOpen, ReapLock, ReapRestat, ReapUnlink,
     ReapSkip
<1> QED
  BY <1>1, <1>2, <1>3, <1>4, <1>5, <1>6, <1>7, <1>8 DEF IndInv, TypeOK

\* IndInv survives: a temp ages.
LEMMA AgeInd ==
  ASSUME IndInv, NEW t \in Temps, Age(t)
  PROVE  IndInv'
<1>1. TempSets'
  BY DEF IndInv, TypeOK, TempSets, Age
<1>2. TempTypes'
  BY DEF IndInv, TypeOK, TempSets, TempTypes, CallTypes, CallInv, Age
<1>3. ObjectTypes'
  BY DEF IndInv, TypeOK, TempSets, TempTypes, ObjectTypes, CallTypes,
     CallInv, Age
<1>4. CallTypes' /\ CollectorTypes'
  BY DEF IndInv, TypeOK, TempSets, TempTypes, ObjectTypes, CallTypes,
     CollectorTypes, CallInv, Age
<1>5. CallInv'
  BY DEF IndInv, TypeOK, TempSets, TempTypes, CallTypes, CallInv, Age
<1>6. WholeInv'
  BY DEF IndInv, TypeOK, TempSets, TempTypes, ObjectTypes, CallTypes,
     CallInv, WholeInv, Age
<1>7. LeaseInv'
  BY DEF IndInv, TypeOK, TempSets, TempTypes, CollectorTypes, CallTypes,
     CallInv, LeaseInv, Age
<1>8. SealInv'
  BY DEF IndInv, TypeOK, TempSets, TempTypes, ObjectTypes, CallTypes,
     CallInv, SealInv, Age
<1> QED
  BY <1>1, <1>2, <1>3, <1>4, <1>5, <1>6, <1>7, <1>8 DEF IndInv, TypeOK

\* IndInv survives: a writing process dies.
LEMMA KillInd ==
  ASSUME IndInv, NEW w \in Writers, Kill(w)
  PROVE  IndInv'
<1>1. TempSets'
  BY DEF IndInv, TypeOK, TempSets, CallInv, Kill
<1>2. TempTypes'
  BY DEF IndInv, TypeOK, TempSets, TempTypes, CallTypes, CallInv, Kill
<1>3. ObjectTypes'
  BY DEF IndInv, TypeOK, TempSets, TempTypes, ObjectTypes, CallTypes,
     CallInv, Kill
<1>4. CallTypes' /\ CollectorTypes'
  BY SMT DEF IndInv, TypeOK, TempSets, TempTypes, ObjectTypes, CallTypes,
     CollectorTypes, CallInv, Kill
<1>5. CallInv'
  BY DEF IndInv, TypeOK, TempSets, TempTypes, CallTypes, CallInv, Kill
<1>6. WholeInv'
  BY DEF IndInv, TypeOK, TempSets, TempTypes, ObjectTypes, CallTypes,
     CallInv, WholeInv, Kill
<1>7. LeaseInv'
  BY SMT DEF IndInv, TypeOK, TempSets, TempTypes, CollectorTypes, CallTypes,
     CallInv, LeaseInv, Kill
<1>8. SealInv'
  BY DEF IndInv, TypeOK, TempSets, TempTypes, ObjectTypes, CallTypes,
     CallInv, SealInv, Kill
<1> QED
  BY <1>1, <1>2, <1>3, <1>4, <1>5, <1>6, <1>7, <1>8 DEF IndInv, TypeOK

\* IndInv survives: a collecting process dies.
LEMMA KillReaperInd ==
  ASSUME IndInv, KillReaper
  PROVE  IndInv'
<1>1. TempSets'
  BY DEF IndInv, TypeOK, TempSets, KillReaper
<1>2. TempTypes'
  BY DEF IndInv, TypeOK, TempSets, TempTypes, CallTypes, CallInv, KillReaper
<1>3. ObjectTypes'
  BY DEF IndInv, TypeOK, TempSets, TempTypes, ObjectTypes, CallTypes,
     CallInv, KillReaper
<1>4. CallTypes' /\ CollectorTypes'
  BY SMT DEF IndInv, TypeOK, TempSets, TempTypes, ObjectTypes, CallTypes,
     CollectorTypes, CallInv, KillReaper
<1>5. CallInv'
  BY DEF IndInv, TypeOK, TempSets, TempTypes, CallTypes, CallInv, KillReaper
<1>6. WholeInv'
  BY DEF IndInv, TypeOK, TempSets, TempTypes, ObjectTypes, CallTypes,
     CallInv, WholeInv, KillReaper
<1>7. LeaseInv'
  BY DEF IndInv, TypeOK, TempSets, TempTypes, CollectorTypes, CallTypes,
     CallInv, LeaseInv, KillReaper
<1>8. SealInv'
  BY DEF IndInv, TypeOK, TempSets, TempTypes, ObjectTypes, CallTypes,
     CallInv, SealInv, KillReaper
<1> QED
  BY <1>1, <1>2, <1>3, <1>4, <1>5, <1>6, <1>7, <1>8 DEF IndInv, TypeOK

\* IndInv survives: a removing process dies.
LEMMA KillRemoverInd ==
  ASSUME IndInv, KillRemover
  PROVE  IndInv'
<1>1. TempSets'
  BY DEF IndInv, TypeOK, TempSets, KillRemover
<1>2. TempTypes'
  BY DEF IndInv, TypeOK, TempSets, TempTypes, CallTypes, CallInv,
     KillRemover
<1>3. ObjectTypes'
  BY DEF IndInv, TypeOK, TempSets, TempTypes, ObjectTypes, CallTypes,
     CallInv, KillRemover
<1>4. CallTypes' /\ CollectorTypes'
  BY DEF IndInv, TypeOK, TempSets, TempTypes, ObjectTypes, CallTypes,
     CollectorTypes, CallInv, KillRemover
<1>5. CallInv'
  BY DEF IndInv, TypeOK, TempSets, TempTypes, CallTypes, CallInv,
     KillRemover
<1>6. WholeInv'
  BY DEF IndInv, TypeOK, TempSets, TempTypes, ObjectTypes, CallTypes,
     CallInv, WholeInv, KillRemover
<1>7. LeaseInv'
  BY DEF IndInv, TypeOK, TempSets, TempTypes, CollectorTypes, CallTypes,
     CallInv, LeaseInv, KillRemover
<1>8. SealInv'
  BY DEF IndInv, TypeOK, TempSets, TempTypes, ObjectTypes, CallTypes,
     CallInv, SealInv, KillRemover
<1> QED
  BY <1>1, <1>2, <1>3, <1>4, <1>5, <1>6, <1>7, <1>8 DEF IndInv, TypeOK

\* IndInv survives: an object decays.
LEMMA DecayInd ==
  ASSUME IndInv, NEW t \in Temps, Decay(t)
  PROVE  IndInv'
<1>1. TempSets'
  <2>1. t \in 1..made
    BY SMT DEF IndInv, TypeOK, TempSets, ObjectTypes, Decay
  <2> QED
    BY <2>1 DEF IndInv, TypeOK, TempSets, Decay
<1>2. TempTypes'
  BY DEF IndInv, TypeOK, TempSets, TempTypes, CallTypes, CallInv, Decay
<1>3. ObjectTypes'
  BY DEF IndInv, TypeOK, TempSets, TempTypes, ObjectTypes, CallTypes,
     CallInv, Decay
<1>4. CallTypes' /\ CollectorTypes'
  BY DEF IndInv, TypeOK, TempSets, TempTypes, ObjectTypes, CallTypes,
     CollectorTypes, CallInv, Decay
<1>5. CallInv'
  BY DEF IndInv, TypeOK, TempSets, TempTypes, CallTypes, CallInv, Decay
<1>6. WholeInv'
  BY DEF IndInv, TypeOK, TempSets, TempTypes, ObjectTypes, CallTypes,
     CallInv, WholeInv, Decay
<1>7. LeaseInv'
  BY DEF IndInv, TypeOK, TempSets, TempTypes, CollectorTypes, CallTypes,
     CallInv, LeaseInv, Decay
<1>8. SealInv'
  BY DEF IndInv, TypeOK, TempSets, TempTypes, ObjectTypes, CallTypes,
     CallInv, SealInv, Decay
<1> QED
  BY <1>1, <1>2, <1>3, <1>4, <1>5, <1>6, <1>7, <1>8 DEF IndInv, TypeOK

\* IndInv survives: the power fails.
LEMMA PowerLossInd ==
  ASSUME IndInv, NEW left \in [Digests -> 0..made],
         NEW kept \in SUBSET (1..made),
         NEW torn \in SUBSET (1..made), PowerLoss(left, kept, torn)
  PROVE  IndInv'
<1>1. TempSets'
  BY DEF IndInv, TypeOK, TempSets, CallInv, PowerLoss, Survives
<1>2. TempTypes'
  BY DEF IndInv, TypeOK, TempSets, TempTypes, CallTypes, CallInv, PowerLoss,
     Survives
<1>3. ObjectTypes'
  BY DEF IndInv, TypeOK, TempSets, TempTypes, ObjectTypes, CallTypes,
     CallInv, PowerLoss, Survives
<1>4. CallTypes' /\ CollectorTypes'
  BY SMT DEF IndInv, TypeOK, TempSets, TempTypes, ObjectTypes, CallTypes,
     CollectorTypes, CallInv, PowerLoss, Survives
<1>5. CallInv'
  BY DEF IndInv, TypeOK, TempSets, TempTypes, CallTypes, CallInv, PowerLoss,
     Survives
<1>6. WholeInv'
  <2>1. synced' = synced /\ object' = left /\ disk' = left
    BY DEF PowerLoss
  <2>2. ASSUME NEW t \in synced PROVE bytes'[t] = bytes[t]
    BY <2>2, SMT DEF IndInv, TypeOK, TempSets, TempTypes, PowerLoss
  <2>3. ASSUME NEW d \in Digests, left[d] # 0
        PROVE  left[d] \in synced /\ bytes[left[d]] = d
    BY <2>3 DEF IndInv, WholeInv, PowerLoss, Survives
  <2> QED
    BY <2>1, <2>2, <2>3 DEF WholeInv
<1>7. LeaseInv'
  BY DEF IndInv, TypeOK, TempSets, TempTypes, CollectorTypes, CallTypes,
     CallInv, LeaseInv, PowerLoss, Survives
<1>8. SealInv'
  BY DEF IndInv, TypeOK, TempSets, TempTypes, ObjectTypes, CallTypes,
     CallInv, SealInv, PowerLoss, Survives
<1> QED
  BY <1>1, <1>2, <1>3, <1>4, <1>5, <1>6, <1>7, <1>8 DEF IndInv, TypeOK

\* IndInv holds of an empty store.
LEMMA InitInd == Init => IndInv
<1> SUFFICES ASSUME Init PROVE IndInv
  OBVIOUS
<1>1. TempSets /\ TempTypes
  BY SMT DEF Init, TempSets, TempTypes
<1>2. ObjectTypes /\ CallTypes /\ CollectorTypes
  BY SMT DEF Init, ObjectTypes, CallTypes, CollectorTypes
<1>3. CallInv /\ WholeInv /\ LeaseInv /\ SealInv
  BY DEF Init, CallInv, WholeInv, LeaseInv, SealInv
<1> QED
  BY <1>1, <1>2, <1>3 DEF IndInv, TypeOK

\* IndInv mentions nothing but the state variables.
LEMMA StutterInd == IndInv /\ UNCHANGED vars => IndInv'
  BY SMT DEF vars, IndInv, TypeOK, TempSets, TempTypes, ObjectTypes,
     CallTypes, CollectorTypes, CallInv, WholeInv, LeaseInv, SealInv

\* IndInv survives every step: writers, collectors and the environment.
THEOREM Inductive == Spec => []IndInv
<1>1. ASSUME IndInv, [Next]_vars PROVE IndInv'
  <2>1. ASSUME NEW w \in Writers, Admission(w) PROVE IndInv'
    BY <2>1, <1>1, CreateInd, LockInd, LockRefusedInd, WriteInd,
         DropUnfinishedInd, FinishInd, MismatchInd, NameLostInd, LinkInd,
         SealDirectoriesInd, InstalledInd, AlreadyExistsInd, OpenResidentInd,
         ResidentGoneInd, AcceptInd, CorruptResidentInd DEF Admission
  <2>2. CASE Removal
    BY <2>2, <1>1, RemoveUnlinkInd, RemoveSyncInd DEF Removal
  <2>3. CASE Environment
    BY <2>3, <1>1, AgeInd, KillInd, KillReaperInd, KillRemoverInd, DecayInd,
         PowerLossInd DEF Environment
  <2> QED
    BY <1>1, <2>1, <2>2, <2>3, ReapListInd, ReapTempInd, StutterInd DEF Next
<1> QED
  BY <1>1, InitInd, PTL DEF Spec

----------------------------------------------------------------------------
(* What IndInv is for: the properties of the model-checking runs, for all  *)
(* constants, and the step simulation that shows the admission protocol to *)
(* implement Cas.                                                          *)

\* The directories, the leases and every call's locals keep their types.
THEOREM TypesHold == Spec => []TypeOK
<1>1. IndInv => TypeOK
  BY DEF IndInv
<1> QED
  BY <1>1, Inductive, PTL

\* install fsyncs before it links, so a digest path always leads to the whole
\* bytes, after a power loss as before it.
THEOREM PathsStayWhole == Spec => []ResidentWhole
<1>1. IndInv => ResidentWhole
  BY DEF IndInv, WholeInv, ResidentWhole, Resident
<1> QED
  BY <1>1, Inductive, PTL

\* Cas does not see a step that leaves the paths and the promises alone.
LEMMA PathsFrame ==
  ASSUME object' = object
  PROVE  Resident' = Resident
  BY DEF Resident

\* The steps that change neither a path nor a fresh promise.
LEMMA QuietSteps ==
  ASSUME Next
  PROVE  \/ object' = object /\ sealed' = sealed
         \/ \E w \in Writers : Link(w) \/ Installed(w)
         \/ \E d \in Digests : RemoveUnlink(d)
         \/ \E left \in [Digests -> 0..made], kept, torn \in SUBSET (1..made) :
              PowerLoss(left, kept, torn)
<1>1. ASSUME NEW w \in Writers, Admission(w), ~Link(w), ~Installed(w)
      PROVE  object' = object /\ sealed' = sealed
  BY <1>1, Zenon DEF Admission, Create, Lock, LockRefused, Write,
       DropUnfinished, Finish, Mismatch, NameLost, SealDirectories,
       AlreadyExists, OpenResident, ResidentGone, Accept, Acknowledge,
       CorruptResident, Fail
<1>2. ASSUME RemoveSync PROVE object' = object /\ sealed' = sealed
  BY <1>2 DEF RemoveSync
<1>3. ASSUME NEW t \in Temps, ReapList(t) \/ Age(t) \/ Decay(t)
      PROVE  object' = object /\ sealed' = sealed
  BY <1>3 DEF ReapList, Age, Decay
<1>4. ASSUME ReapTemp PROVE object' = object /\ sealed' = sealed
  BY <1>4 DEF ReapTemp, ReapOpen, ReapLock, ReapRestat, ReapUnlink, ReapSkip
<1>5. ASSUME NEW w \in Writers, Kill(w)
      PROVE  object' = object /\ sealed' = sealed
  BY <1>5 DEF Kill
<1>6. ASSUME KillReaper \/ KillRemover
      PROVE  object' = object /\ sealed' = sealed
  BY <1>6 DEF KillReaper, KillRemover
<1> QED
  BY <1>1, <1>2, <1>3, <1>4, <1>5, <1>6, Zenon DEF Next, Removal, Environment

\* Every step of the store is a step, or no step, of Cas with the promises of
\* freshly installing calls.
LEMMA DurableSimulation ==
  ASSUME IndInv, [Next]_vars
  PROVE  [Durable!Next]_<<Resident, sealed>>
<1>1. CASE UNCHANGED vars
  BY <1>1, PathsFrame DEF vars
<1>2. CASE object' = object /\ sealed' = sealed
  BY <1>2, PathsFrame
<1>3. ASSUME NEW w \in Writers, Link(w) PROVE Durable!Next
  <2>1. src[w] \in Digests /\ temp[w] # 0 /\ sealed' = sealed
    BY <1>3, SMT DEF Link, IndInv, CallInv, TypeOK, TempSets
  <2>2. Resident' = Resident \cup {src[w]}
    BY <1>3, <2>1 DEF Link, Resident, IndInv, TypeOK, ObjectTypes
  <2> QED
    BY <2>1, <2>2 DEF Durable!Next, Durable!Install
<1>4. ASSUME NEW w \in Writers, Installed(w)
      PROVE  [Durable!Next]_<<Resident, sealed>>
  <2>1. Resident' = Resident
    BY <1>4, PathsFrame DEF Installed
  <2>2. CASE overlapped[w]
    BY <1>4, <2>1, <2>2 DEF Installed, Acknowledge
  <2>3. CASE ~overlapped[w]
    <3>1. src[w] \in Resident
      BY <1>4, <2>3 DEF Installed, Resident, IndInv, CallInv, SealInv
    <3>2. sealed' = sealed \cup {src[w]}
      BY <1>4, <2>3 DEF Installed, Acknowledge
    <3> QED
      BY <2>1, <3>1, <3>2 DEF Durable!Next, Durable!Acknowledge, Resident
  <2> QED
    BY <2>2, <2>3
<1>5. ASSUME NEW d \in Digests, RemoveUnlink(d) PROVE Durable!Next
  <2>1. Resident' = Resident \ {d}
    BY <1>5 DEF RemoveUnlink, Resident, IndInv, TypeOK, ObjectTypes
  <2>2. sealed' = sealed \ {d}
    BY <1>5 DEF RemoveUnlink
  <2> QED
    BY <2>1, <2>2 DEF Durable!Next, Durable!Remove
<1>6. ASSUME NEW left \in [Digests -> 0..made],
             NEW kept \in SUBSET (1..made), NEW torn \in SUBSET (1..made),
             PowerLoss(left, kept, torn)
      PROVE  Durable!Next
  <2>1. Resident' \in SUBSET Digests
    BY DEF Resident
  <2>2. sealed \subseteq Resident' /\ sealed' = sealed
    BY <1>6 DEF PowerLoss, Survives, Resident, IndInv, SealInv, TypeOK,
         ObjectTypes
  <2> QED
    BY <2>1, <2>2 DEF Durable!Next, Durable!PowerLoss
<1> QED
  BY <1>1, <1>2, <1>3, <1>4, <1>5, <1>6, QuietSteps

\* Whatever faults occur, power losses included, the store keeps the promise
\* of Cas to every call that returned preexisting = false.
THEOREM FreshInstallsAreDurable == Spec => ImplementsDurableCas
<1>1. Init => Durable!Init
  BY DEF Init, Durable!Init, Resident
<1> QED
  BY <1>1, DurableSimulation, Inductive, PTL
     DEF ImplementsDurableCas, Durable!Spec, Spec


\* A step that takes the name of a leased temp ends its writer's call.
LEMMA LeaseStep ==
  ASSUME IndInv, Next, NEW w \in Writers,
         temp[w] \in named \ named', holder[temp[w]] = w
  PROVE  pc'[w] = "idle"
<1>1. ASSUME NEW v \in Writers, pc[v] # "idle", named' = named \ {temp[v]},
             pc' = [pc EXCEPT ![v] = "idle"]
      PROVE  pc'[w] = "idle"
  <2>1. temp[v] = temp[w]
    BY <1>1
  <2> QED
    BY <1>1, <2>1 DEF IndInv, CallInv, TypeOK, CallTypes
<1>2. ASSUME NEW v \in Writers,
             \/ DropUnfinished(v) \/ Mismatch(v) \/ NameLost(v)
             \/ ResidentGone(v) \/ CorruptResident(v)
      PROVE  pc'[w] = "idle"
  <2>1. pc[v] # "idle" /\ Fail(v)
    BY <1>2 DEF DropUnfinished, Mismatch, NameLost, ResidentGone,
         CorruptResident
  <2> QED
    BY <1>1, <2>1, Zenon DEF Fail
<1>3. ASSUME NEW v \in Writers, Installed(v) \/ Accept(v)
      PROVE  pc'[w] = "idle"
  <2>1. /\ pc[v] # "idle" /\ named' = named \ {temp[v]}
        /\ pc' = [pc EXCEPT ![v] = "idle"]
    BY <1>3, Zenon DEF Installed, Accept
  <2> QED
    BY <1>1, <2>1, Zenon
<1>4. ASSUME NEW v \in Writers, Admission(v) PROVE pc'[w] = "idle"
  <2>1. ASSUME \/ \E d \in Digests, e \in Claims : Create(v, d, e)
               \/ Lock(v) \/ LockRefused(v) \/ Write(v) \/ Finish(v)
               \/ Link(v) \/ SealDirectories(v) \/ AlreadyExists(v)
               \/ OpenResident(v)
        PROVE  named \subseteq named'
    BY <2>1 DEF Create, Lock, LockRefused, Write, Finish, Link,
         SealDirectories, AlreadyExists, OpenResident
  <2> QED
    BY <1>2, <1>3, <1>4, <2>1, Zenon DEF Admission
<1>5. CASE ReapTemp
  <2>1. ReapUnlink
    BY <1>5, Zenon DEF ReapTemp, ReapOpen, ReapLock, ReapRestat, ReapSkip
  <2>2. kTemp = temp[w] /\ kpc = "stated"
    BY <2>1 DEF ReapUnlink
  <2> QED
    BY <2>2 DEF IndInv, LeaseInv
<1>6. CASE Environment
  <2>1. ASSUME NEW left \in [Digests -> 0..made],
               NEW kept \in SUBSET (1..made), NEW torn \in SUBSET (1..made),
               PowerLoss(left, kept, torn)
        PROVE  pc'[w] = "idle"
    BY <2>1 DEF PowerLoss
  <2>2. ASSUME \/ \E t \in Temps : Age(t) \/ Decay(t)
               \/ \E v \in Writers : Kill(v)
               \/ KillReaper \/ KillRemover
        PROVE  named' = named
    BY <2>2 DEF Age, Decay, Kill, KillReaper, KillRemover
  <2> QED
    BY <1>6, <2>1, <2>2, Zenon DEF Environment
<1>7. ASSUME Removal \/ \E t \in Temps : ReapList(t) PROVE named' = named
  BY <1>7 DEF Removal, RemoveUnlink, RemoveSync, ReapList
<1> QED
  BY <1>4, <1>5, <1>6, <1>7, Zenon DEF Next

\* collect_abandoned_temps never takes a temp from under a writer that holds
\* its lease.
THEOREM LeasedTempsAreKept == Spec => LeasedTempKept
<1>1. ASSUME IndInv, [Next]_vars
      PROVE  [\A w \in Writers :
                temp[w] \in named \ named' /\ holder[temp[w]] = w
                  => pc'[w] = "idle"]_vars
  BY <1>1, LeaseStep
<1> QED
  BY <1>1, Inductive, PTL DEF LeasedTempKept, Spec


\* Without power losses AckInv survives every step.
LEMMA AckInductive ==
  ASSUME IndInv, AckInv, [Next]_vars, "power" \notin Faults
  PROVE  AckInv'
<1>1. ASSUME NEW w \in Writers, Admission(w) PROVE AckInv'
  <2>1. ASSUME \/ \E d \in Digests, e \in Claims : Create(w, d, e)
               \/ Lock(w) \/ LockRefused(w) \/ Write(w) \/ Finish(w)
               \/ AlreadyExists(w)
        PROVE  AckInv'
    <3>1. CASE \E d \in Digests, e \in Claims : Create(w, d, e)
      BY <3>1, SMTT(30) DEF Create, AckInv, IndInv, TypeOK, CallTypes
    <3>2. CASE LockRefused(w)
      BY <3>2, SMTT(30) DEF LockRefused, AckInv, IndInv, TypeOK, CallTypes
    <3>3. ASSUME Lock(w) \/ Write(w) \/ Finish(w) \/ AlreadyExists(w)
          PROVE  /\ UNCHANGED <<object, acked, overlapped, src>>
                 /\ \E next \in {"writing", "written", "synced", "exists"} :
                      pc' = [pc EXCEPT ![w] = next]
      BY <3>3, Zenon DEF Lock, Write, Finish, AlreadyExists
    <3> QED
      BY <2>1, <3>1, <3>2, <3>3, SMTT(30) DEF AckInv, IndInv, TypeOK, CallTypes
  <2>2. ASSUME \/ DropUnfinished(w) \/ Mismatch(w) \/ NameLost(w)
               \/ ResidentGone(w) \/ CorruptResident(w)
        PROVE  AckInv'
    <3>1. Fail(w)
      BY <2>2, Zenon DEF DropUnfinished, Mismatch, NameLost, ResidentGone,
           CorruptResident
    <3> QED
      BY <3>1 DEF Fail, AckInv, IndInv, TypeOK, CallTypes
  <2>3. CASE Link(w)
    BY <2>3, SMT DEF Link, AckInv, IndInv, CallInv, TypeOK, TempSets, CallTypes,
         ObjectTypes
  <2>4. CASE SealDirectories(w) \/ OpenResident(w)
    BY <2>4 DEF SealDirectories, OpenResident, AckInv, IndInv, TypeOK,
         CallTypes
  <2>5. CASE Installed(w) \/ Accept(w)
    <3>1. /\ object' = object /\ pc[w] \in {"sealed", "hashing"}
          /\ acked' = IF overlapped[w] THEN acked ELSE acked \cup {src[w]}
          /\ Return(w)
      BY <2>5, Zenon DEF Installed, Accept, Acknowledge
    <3> QED
      BY <3>1, SMTT(30) DEF AckInv, IndInv, TypeOK, CallTypes
  <2> QED
    BY <1>1, <2>1, <2>2, <2>3, <2>4, <2>5, Zenon DEF Admission
<1>2. ASSUME NEW d \in Digests, RemoveUnlink(d) PROVE AckInv'
  BY <1>2 DEF RemoveUnlink, AckInv, IndInv, CallInv, TypeOK, CallTypes,
       ObjectTypes
<1>3. ASSUME NEW w \in Writers, Kill(w) PROVE AckInv'
  BY <1>3 DEF Kill, AckInv, IndInv, TypeOK, CallTypes
<1>4. ASSUME \/ RemoveSync \/ ReapTemp \/ KillReaper \/ KillRemover
             \/ \E t \in Temps : ReapList(t) \/ Age(t) \/ Decay(t)
      PROVE  AckInv'
  <2>1. UNCHANGED <<object, acked, overlapped, pc, src>>
    BY <1>4, Zenon DEF RemoveSync, ReapTemp, ReapOpen, ReapLock, ReapRestat,
         ReapUnlink, ReapSkip, KillReaper, KillRemover, ReapList, Age, Decay
  <2> QED
    BY <2>1 DEF AckInv
<1>5. ASSUME UNCHANGED vars PROVE AckInv'
  BY <1>5, Zenon DEF vars, AckInv
<1>6. ASSUME NEW left \in [Digests -> 0..made],
             NEW kept \in SUBSET (1..made), NEW torn \in SUBSET (1..made),
             PowerLoss(left, kept, torn)
      PROVE  FALSE
  BY <1>6, Zenon DEF PowerLoss
<1> QED
  BY <1>1, <1>2, <1>3, <1>4, <1>5, <1>6, Zenon DEF Next, Removal, Environment

\* Every step of the store is a step, or no step, of Cas with the promises of
\* all calls.
LEMMA ServedSimulation ==
  ASSUME IndInv, AckInv, [Next]_vars, "power" \notin Faults
  PROVE  [Served!Next]_<<Resident, acked>>
<1>1. ASSUME UNCHANGED <<object, acked>>
      PROVE  [Served!Next]_<<Resident, acked>>
  BY <1>1, PathsFrame
<1>2. ASSUME NEW w \in Writers, Link(w) PROVE Served!Next
  <2>1. src[w] \in Digests /\ temp[w] # 0 /\ acked' = acked
    BY <1>2, SMT DEF Link, IndInv, CallInv, TypeOK, TempSets
  <2>2. Resident' = Resident \cup {src[w]}
    BY <1>2, <2>1 DEF Link, Resident, IndInv, TypeOK, ObjectTypes
  <2> QED
    BY <2>1, <2>2 DEF Served!Next, Served!Install
<1>3. ASSUME NEW w \in Writers, Installed(w) \/ Accept(w)
      PROVE  [Served!Next]_<<Resident, acked>>
  <2>1. /\ Resident' = Resident
        /\ acked' = IF overlapped[w] THEN acked ELSE acked \cup {src[w]}
    BY <1>3, PathsFrame DEF Installed, Accept, Acknowledge
  <2>2. CASE overlapped[w]
    BY <2>1, <2>2
  <2>3. CASE ~overlapped[w]
    <3>1. src[w] \in Resident
      BY <1>3, <2>3, Zenon DEF Installed, Accept, Resident, IndInv, CallInv,
           AckInv
    <3> QED
      BY <2>1, <2>3, <3>1 DEF Served!Next, Served!Acknowledge, Resident
  <2> QED
    BY <2>2, <2>3
<1>4. ASSUME NEW d \in Digests, RemoveUnlink(d) PROVE Served!Next
  <2>1. Resident' = Resident \ {d} /\ acked' = acked \ {d}
    BY <1>4 DEF RemoveUnlink, Resident, IndInv, TypeOK, ObjectTypes
  <2> QED
    BY <2>1 DEF Served!Next, Served!Remove
<1>5. ASSUME NEW w \in Writers, Admission(w), ~Link(w), ~Installed(w),
             ~Accept(w)
      PROVE  UNCHANGED <<object, acked>>
  BY <1>5, Zenon DEF Admission, Create, Lock, LockRefused, Write,
       DropUnfinished, Finish, Mismatch, NameLost, SealDirectories,
       AlreadyExists, OpenResident, ResidentGone, CorruptResident, Fail
<1>6. ASSUME \/ RemoveSync \/ ReapTemp \/ KillReaper \/ KillRemover
             \/ \E t \in Temps : ReapList(t) \/ Age(t) \/ Decay(t)
             \/ \E w \in Writers : Kill(w)
             \/ UNCHANGED vars
      PROVE  UNCHANGED <<object, acked>>
  BY <1>6 DEF RemoveSync, ReapTemp, ReapOpen, ReapLock, ReapRestat,
       ReapUnlink, ReapSkip, KillReaper, KillRemover, ReapList, Age, Decay,
       Kill, vars
<1>7. ASSUME NEW left \in [Digests -> 0..made],
             NEW kept \in SUBSET (1..made), NEW torn \in SUBSET (1..made),
             PowerLoss(left, kept, torn)
      PROVE  FALSE
  BY <1>7, Zenon DEF PowerLoss
<1> QED
  BY <1>1, <1>2, <1>3, <1>4, <1>5, <1>6, <1>7, Zenon
     DEF Next, Removal, Environment

\* As long as the power holds, the store keeps the promise of Cas to every
\* call, one that accepted a resident object included.
THEOREM AdmissionsAreServed ==
  ASSUME "power" \notin Faults
  PROVE  Spec => ImplementsCas
<1>1. Init => Served!Init
  BY DEF Init, Served!Init, Resident
<1>2. Init => AckInv
  BY DEF Init, AckInv
<1>3. ASSUME IndInv, AckInv, [Next]_vars PROVE AckInv'
  BY <1>3, AckInductive
<1>4. ASSUME IndInv, AckInv, [Next]_vars
      PROVE  [Served!Next]_<<Resident, acked>>
  BY <1>4, ServedSimulation
<1>5. Spec => []AckInv
  BY <1>2, <1>3, Inductive, PTL DEF Spec
<1> QED
  BY <1>1, <1>4, <1>5, Inductive, PTL DEF ImplementsCas, Served!Spec, Spec
=============================================================================
