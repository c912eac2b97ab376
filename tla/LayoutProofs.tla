---------------------------- MODULE LayoutProofs ----------------------------
(***************************************************************************)
(* Layout's safety for any clients, ids, names, sizes and bounds: whole    *)
(* trees, live scratch that nobody touches, and scrubs that spare live     *)
(* roots.  The steps that create, rename and remove files come first:      *)
(* leases, then removals, then the creators.                               *)
(***************************************************************************)
EXTENDS LayoutCallProofs

USE LayoutAssumption, Zenon

-----------------------------------------------------------------------------
(* Actions on leases.                                                      *)

\* What a step that touches only lease files and locks must leave alone.
LEMMA LeaseStep ==
  ASSUME IndInv, NEW c \in Clients, Settles(c),
         UNCHANGED <<building, staged, removed, content, tree, ref>>,
         leaseFile' \subseteq leaseFile, swept \subseteq swept',
         holder' \in [Tokens -> Clients \cup {None}],
         \A b \in Clients \ {c} : Working(b) =>
           /\ pc[b] # "created" => holder'[tok[b]] = holder[tok[b]]
           /\ tok[b] \in leaseFile /\ tok[b] \notin swept' =>
                tok[b] \in leaseFile'
  PROVE  /\ Gentle(c) /\ DiskTypes' /\ PlaceInv' /\ Blank'
         /\ LeasedTreesWhole'
<1>1. UNCHANGED <<issued, idOf>>
  BY DEF Settles, tokenVars
<1>2. DiskTypes'
  BY <1>1 DEF IndInv, DiskTypes
<1>3. PlaceInv' /\ Blank'
  BY <1>1 DEF IndInv, PlaceInv, Placed, Blank
<1>4. LeasedTreesWhole'
  BY <1>1 DEF IndInv, LeasedTreesWhole, Whole
<1>5. Moved(c)
  BY DEF Moved
<1>6. ASSUME NEW b \in Clients \ {c}, Working(b) PROVE Spared(b)
  BY <1>1, <1>6 DEF Spared
<1>7. Gentle(c)
  BY <1>5, <1>6, SettlesGently
<1> QED
  BY <1>2, <1>3, <1>4, <1>7

\* A client lets go of its own locks only.
LEMMA Unlocked ==
  ASSUME IndInv, NEW c \in Clients, Unlock(c)
  PROVE  /\ holder' \in [Tokens -> Clients \cup {None}]
         /\ \A b \in Clients \ {c} : Working(b) /\ pc[b] # "created" =>
              holder'[tok[b]] = holder[tok[b]]
<1>1. DiskTypes /\ \A b \in Clients : CallOK(b)
  BY DEF IndInv, Calls
<1>2. holder' \in [Tokens -> Clients \cup {None}]
  BY <1>1 DEF DiskTypes, Unlock
<1>3. ASSUME NEW b \in Clients \ {c}, Working(b), pc[b] # "created"
      PROVE  holder'[tok[b]] = holder[tok[b]]
  <2>1. tok[b] \in Tokens /\ holder[tok[b]] = b
    BY <1>1, <1>3, SMT DEF CallOK, DiskTypes, Tokens
  <2> QED
    BY <2>1 DEF Unlock
<1> QED
  BY <1>2, <1>3

\* A creator gives up its lease and removes the file.
LEMMA LeaseEnds ==
  ASSUME IndInv, NEW c \in Clients, DropLease(c) \/ RemoveLease(c)
  PROVE  IndInv'
<1> USE DEF WipePcs, Sampling, ReapLoops
<1>1. ASSUME DropLease(c) PROVE IndInv'
  <2>1. /\ pc[c] = "unlease" /\ pc' = [pc EXCEPT ![c] = "unleased"]
        /\ UNCHANGED <<back, id, tok, victim, written, todo, tokenVars,
                       writer, rooted>>
        /\ UNCHANGED <<leaseFile, building, staged, removed, content, tree,
                       ref, swept>>
        /\ Unlock(c)
    BY <1>1 DEF DropLease, Goto, argVars, loopVars, wipeVars, rootVars
  <2>2. Settles(c) /\ pc'[c] = "unleased" /\ victim'[c] = 0
    BY <2>1, Went, NoVictim
  <2>3. /\ Gentle(c) /\ DiskTypes' /\ PlaceInv' /\ Blank'
        /\ LeasedTreesWhole'
    BY <2>1, <2>2, Unlocked, LeaseStep
  <2>4. Loop(c)' = "unleased"
    BY <2>2 DEF Loop
  <2>5. TodoOK(c)' /\ Serial(c) /\ ScrubOK(c)'
    BY <2>1, <2>4, OutsideScrub DEF TodoOK
  <2> QED
    BY <2>2, <2>3, <2>5, RestingVictim, Settled
<1>2. ASSUME RemoveLease(c) PROVE IndInv'
  <2>1. /\ leaseFile' = leaseFile \ {tok[c]} /\ Return(c)
        /\ UNCHANGED <<holder, building, staged, removed, content, tree, ref,
                       swept>>
        /\ UNCHANGED <<tokenVars, writer, rooted>>
    BY <1>2 DEF RemoveLease, rootVars
  <2>2. Settles(c) /\ pc'[c] = "idle" /\ victim'[c] = 0
    BY <2>1, Returned
  <2>3. /\ holder' \in [Tokens -> Clients \cup {None}]
        /\ \A b \in Clients \ {c} : Working(b) => tok[b] # tok[c]
    BY <2>1 DEF IndInv, DiskTypes, OwnTokens, Calls, CallOK
  <2>4. /\ Gentle(c) /\ DiskTypes' /\ PlaceInv' /\ Blank'
        /\ LeasedTreesWhole'
    BY <2>1, <2>2, <2>3, LeaseStep
  <2>5. Loop(c)' = "idle"
    BY <2>2 DEF Loop
  <2>6. TodoOK(c)' /\ Serial(c) /\ ScrubOK(c)'
    BY <2>1, <2>5, OutsideScrub DEF TodoOK
  <2> QED
    BY <2>2, <2>4, <2>6, RestingVictim, Settled
<1> QED
  BY <1>1, <1>2

\* A free lease is one no creator past its lock holds.
LEMMA SampleFreeKeeps ==
  ASSUME IndInv, NEW c \in Clients, NEW t \in Tokens, SampleFree(c, t)
  PROVE  IndInv'
<1>1. /\ pc[c] \in {"reapTrees", "reapSwaps", "reapLeases"}
      /\ t \in todo[c] /\ holder[t] = None
      /\ todo' = [todo EXCEPT ![c] = todo[c] \ {t}]
      /\ victim' = [victim EXCEPT ![c] = t]
      /\ back' = [back EXCEPT ![c] = pc[c]]
      /\ pc' = [pc EXCEPT ![c] = "sampled"]
      /\ UNCHANGED <<id, tok, written, tokenVars, writer, rooted>>
  BY DEF SampleFree, argVars, rootVars
<1>2. /\ holder' = [holder EXCEPT ![t] = c]
      /\ UNCHANGED <<leaseFile, building, staged, removed, content, tree,
                     ref, swept>>
  BY DEF SampleFree
<1>3. /\ Settles(c) /\ TodoOK(c)' /\ Loop(c)' = pc[c]
      /\ pc'[c] = "sampled" /\ back'[c] = pc[c] /\ victim'[c] = t
      /\ t \in 1..issued
  BY <1>1, Sampled DEF Sampling
<1>4. ASSUME NEW k \in Clients, Working(k), pc[k] # "created" PROVE tok[k] # t
  BY <1>1, <1>4, SMT DEF IndInv, Calls, CallOK
<1>5. holder' \in [Tokens -> Clients \cup {None}]
      /\ \A b \in Clients \ {c} : Working(b) /\ pc[b] # "created" =>
           holder'[tok[b]] = holder[tok[b]]
  <2>1. holder \in [Tokens -> Clients \cup {None}]
        /\ \A b \in Clients : Working(b) => tok[b] \in Tokens
    BY SMT DEF IndInv, Calls, CallOK, DiskTypes, Tokens
  <2> QED
    BY <1>2, <1>4, <2>1
<1>6. Gentle(c) /\ DiskTypes' /\ PlaceInv' /\ Blank' /\ LeasedTreesWhole'
  BY <1>2, <1>3, <1>5, LeaseStep
<1>7. ASSUME NEW k \in Clients, Working(k)', tok'[k] = t
      PROVE  back'[c] = "reapLeases"
  <2>1. k # c /\ Working(k) /\ tok[k] = t
    BY <1>3, <1>7 DEF Settles, LocalsKept, Working
  <2>2. pc[k] = "created"
    BY <1>4, <2>1
  <2>3. Fresh(k) /\ TodoOK(c) /\ Loop(c) = pc[c]
    BY <1>1, <2>2 DEF IndInv, Calls, Fresh, Loop, WipePcs, Sampling
  <2> QED
    BY <1>1, <1>3, <2>1, <2>3 DEF TodoOK
<1>8. VictimOK(c)'
  BY <1>1, <1>3, <1>7, SMT DEF VictimOK, WipePcs, Sampling, tokenVars
<1> QED
  BY <1>1, <1>3, <1>6, <1>8, Settled, OutsideScrub

\* The sample lets go; only then does the reap act on it.
LEMMA SampleDropKeeps ==
  ASSUME IndInv, NEW c \in Clients, SampleDrop(c)
  PROVE  IndInv'
<1>1. /\ pc[c] = "sampled" /\ pc' = [pc EXCEPT ![c] = "doomed"]
      /\ UNCHANGED <<back, id, tok, victim, written, todo, tokenVars, writer,
                     rooted>>
      /\ UNCHANGED <<leaseFile, building, staged, removed, content, tree,
                     ref, swept>>
      /\ Unlock(c)
  BY DEF SampleDrop, Goto, argVars, loopVars, wipeVars, rootVars
<1>2. /\ Settles(c) /\ pc'[c] = "doomed" /\ victim'[c] = victim[c]
      /\ back'[c] = back[c] /\ todo'[c] = todo[c]
  BY <1>1, Went
<1>3. Gentle(c) /\ DiskTypes' /\ PlaceInv' /\ Blank' /\ LeasedTreesWhole'
  BY <1>1, <1>2, Unlocked, LeaseStep
<1>4. Loop(c)' = Loop(c)
  BY <1>1, <1>2 DEF Loop, Sampling
<1>5. \A k \in Clients : Working(k)' => Working(k) /\ tok'[k] = tok[k]
  BY <1>2 DEF Settles, LocalsKept, Working
<1>6. VictimOK(c)'
  BY <1>1, <1>2, <1>5 DEF IndInv, Calls, VictimOK, WipePcs, Sampling, tokenVars
<1> QED
  BY <1>1, <1>2, <1>3, <1>4, <1>6, ShrinkingTodo, SameScrub, Settled

\* The last sweep removes a lease file; if its creator still works, the
\* token is swept.
LEMMA ReapLeaseKeeps ==
  ASSUME IndInv, NEW c \in Clients, ReapLease(c)
  PROVE  IndInv'
<1>1. /\ pc[c] = "doomed" /\ WipeDone(c)
      /\ UNCHANGED <<id, tok, written, todo, tokenVars, writer, rooted>>
      /\ UNCHANGED <<holder, building, staged, removed, content, tree, ref>>
  BY DEF ReapLease, argVars, loopVars, rootVars
<1>2. /\ leaseFile' = leaseFile \ {victim[c]} /\ swept \subseteq swept'
      /\ Owned(victim[c]) => victim[c] \in swept'
  BY DEF ReapLease
<1>3. /\ Settles(c) /\ victim'[c] = 0 /\ pc'[c] \notin WipePcs \cup Sampling
      /\ Loop(c)' = Loop(c) /\ todo'[c] = todo[c]
  BY <1>1, WipedOut DEF Sampling
<1>4. \A b \in Clients : Working(b) => Owned(tok[b])
  BY DEF Working, Owned
<1>5. holder' \in [Tokens -> Clients \cup {None}]
  BY <1>1 DEF IndInv, DiskTypes
<1>6. Gentle(c) /\ DiskTypes' /\ PlaceInv' /\ Blank' /\ LeasedTreesWhole'
  BY <1>1, <1>2, <1>3, <1>4, <1>5, LeaseStep
<1> QED
  BY <1>1, <1>3, <1>6, ShrinkingTodo, SameScrub, RestingVictim, Settled

\* A dead client's locks and transaction go; its files stay.
LEMMA DieKeeps ==
  ASSUME IndInv, NEW c \in Clients, Die(c)
  PROVE  IndInv'
<1>1. /\ Unlock(c) /\ Return(c)
      /\ writer' = IF writer = c THEN None ELSE writer
      /\ UNCHANGED <<tokenVars, rooted>>
      /\ UNCHANGED <<leaseFile, building, staged, removed, content, tree,
                     ref, swept>>
  BY DEF Die
<1>2. Settles(c) /\ pc'[c] = "idle" /\ victim'[c] = 0
  BY <1>1, Returned
<1>3. Gentle(c) /\ DiskTypes' /\ PlaceInv' /\ Blank' /\ LeasedTreesWhole'
  BY <1>1, <1>2, Unlocked, LeaseStep
<1>4. Loop(c)' = "idle" /\ pc'[c] \notin WipePcs \cup Sampling
  BY <1>2 DEF Loop, WipePcs, Sampling
<1>5. TodoOK(c)' /\ ScrubOK(c)'
  BY <1>4 DEF TodoOK, ScrubOK
<1>6. Serial(c)
  BY <1>1 DEF Serial, IndInv
<1> QED
  BY <1>2, <1>3, <1>4, <1>5, <1>6, RestingVictim, Settled

-----------------------------------------------------------------------------
(* Removals.                                                               *)

\* A removal empties and unlinks nobody's scratch and no tree in place.
LEMMA WipeKeeps ==
  ASSUME IndInv, NEW c \in Clients,
         (\E e \in Entries : WipeEntry(c, e)) \/ WipeRoot(c)
  PROVE  IndInv'
<1>0. /\ LocalTypes /\ DiskTypes /\ PlaceInv /\ Blank /\ LeasedTreesWhole
      /\ VictimOK(c) /\ pc[c] = "wiping"
      /\ \A k \in Clients : CallOK(k) /\ FillOK(k)
  BY DEF IndInv, Calls, WipeEntry, WipeRoot
<1>1. ASSUME NEW b \in Clients, Working(b), tok[b] \notin swept
      PROVE  tok[b] # victim[c]
  BY <1>0, <1>1 DEF VictimOK, Sampling
<1>2. ASSUME NEW e \in Entries, WipeEntry(c, e) PROVE IndInv'
  <2>1. /\ e \in content[victim[c]]
        /\ content' = [content EXCEPT ![victim[c]] = content[victim[c]] \ {e}]
        /\ UNCHANGED <<leaseFile, holder, building, staged, removed, tree,
                       ref, swept>>
        /\ UNCHANGED <<pc, back, id, tok, victim, written, todo, tokenVars,
                       writer, rooted>>
    BY <1>2 DEF WipeEntry, argVars, loopVars, wipeVars, rootVars
  <2>2. Settles(c)
    BY <1>0, <2>1 DEF Settles, LocalsKept, LocalTypes, Working
  <2>3. Loop(c)' = Loop(c) /\ todo'[c] = todo[c]
    BY <2>1 DEF Loop
  <2>4. /\ content' \in [Tokens -> SUBSET Entries]
        /\ \A t \in Tokens : content'[t] \subseteq content[t]
        /\ \A t \in Tokens : t # victim[c] => content'[t] = content[t]
    BY <1>0, <2>1 DEF DiskTypes
  <2>5. issued' = issued /\ idOf' = idOf
    BY <2>1 DEF tokenVars
  <2>6. DiskTypes' /\ PlaceInv' /\ Blank'
    BY <1>0, <2>1, <2>4, <2>5 DEF DiskTypes, PlaceInv, Placed, Blank
  <2>7. LeasedTreesWhole'
    <3>1. ASSUME NEW i \in Ids, tree[i] # 0, tree[i] \notin swept
          PROVE  tree[i] \in Tokens /\ tree[i] # victim[c]
      BY <1>0, <3>1, SMT DEF DiskTypes, VictimOK, Tokens
    <3> QED
      BY <1>0, <2>1, <2>4, <2>5, <3>1 DEF LeasedTreesWhole, Whole
  <2>8. ASSUME NEW b \in Clients \ {c}, Working(b) PROVE Spared(b)
    <3>1. tok[b] \in Tokens
      BY <1>0, <2>8, SMT DEF CallOK, DiskTypes, Tokens
    <3>2. Fresh(b) => content'[tok[b]] = content[tok[b]]
      BY <1>0, <2>1, <2>4, <3>1 DEF FillOK
    <3> QED
      BY <1>1, <2>1, <2>4, <2>5, <2>8, <3>1, <3>2 DEF Spared
  <2>9. Gentle(c)
    <3>1. Moved(c)
      BY <2>1 DEF Moved
    <3> QED
      BY <2>1, <2>2, <2>8, <3>1, SettlesGently
  <2>10. VictimOK(c)'
    BY <1>0, <2>1, <2>5 DEF VictimOK, Working
  <2> QED
    BY <2>1, <2>2, <2>3, <2>6, <2>7, <2>9, <2>10, ShrinkingTodo, SameScrub,
       Settled
<1>3. ASSUME WipeRoot(c) PROVE IndInv'
  <2>1. /\ building' = building \ {victim[c]}
        /\ removed' = removed \ {victim[c]}
        /\ UNCHANGED <<leaseFile, holder, staged, content, tree, ref, swept>>
        /\ WipeDone(c)
        /\ UNCHANGED <<id, tok, written, todo, tokenVars, writer, rooted>>
    BY <1>3 DEF WipeRoot, argVars, loopVars, rootVars
  <2>2. /\ Settles(c) /\ victim'[c] = 0
        /\ pc'[c] \notin WipePcs \cup Sampling
        /\ Loop(c)' = Loop(c) /\ todo'[c] = todo[c]
    BY <1>0, <2>1, WipedOut DEF WipePcs
  <2>3. issued' = issued /\ idOf' = idOf
    BY <2>1 DEF tokenVars
  <2>4. DiskTypes' /\ PlaceInv' /\ Blank'
    BY <1>0, <2>1, <2>3 DEF DiskTypes, PlaceInv, Placed, Blank
  <2>5. LeasedTreesWhole'
    BY <1>0, <2>1, <2>3 DEF LeasedTreesWhole, Whole
  <2>6. ASSUME NEW b \in Clients \ {c}, Working(b) PROVE Spared(b)
    BY <1>1, <2>1, <2>3, <2>6 DEF Spared
  <2>7. Moved(c)
    BY <2>1 DEF Moved
  <2>8. Gentle(c)
    BY <2>1, <2>2, <2>6, <2>7, SettlesGently
  <2> QED
    BY <2>1, <2>2, <2>4, <2>5, <2>8, ShrinkingTodo, SameScrub, RestingVictim,
       Settled
<1> QED
  BY <1>2, <1>3

\* A dead creator's staged ref goes.
LEMMA ReapSwapKeeps ==
  ASSUME IndInv, NEW c \in Clients, ReapSwap(c)
  PROVE  IndInv'
<1>1. /\ pc[c] = "doomed" /\ staged' = staged \ {victim[c]}
      /\ UNCHANGED <<leaseFile, holder, building, removed, content, tree,
                     ref, swept>>
      /\ WipeDone(c)
      /\ UNCHANGED <<id, tok, written, todo, tokenVars, writer, rooted>>
  BY DEF ReapSwap, argVars, loopVars, rootVars
<1>2. /\ Settles(c) /\ victim'[c] = 0 /\ pc'[c] \notin WipePcs \cup Sampling
      /\ Loop(c)' = Loop(c) /\ todo'[c] = todo[c]
  BY <1>1, WipedOut DEF Sampling
<1>3. issued' = issued /\ idOf' = idOf
  BY <1>1 DEF tokenVars
<1>4. DiskTypes' /\ PlaceInv' /\ Blank'
  BY <1>1, <1>3 DEF IndInv, DiskTypes, PlaceInv, Placed, Blank
<1>5. LeasedTreesWhole'
  BY <1>1, <1>3 DEF IndInv, LeasedTreesWhole, Whole
<1>6. ASSUME NEW b \in Clients \ {c} PROVE Spared(b)
  BY <1>1, <1>3 DEF Spared
<1>7. Moved(c)
  BY <1>1 DEF Moved
<1>8. Gentle(c)
  BY <1>1, <1>2, <1>6, <1>7, SettlesGently
<1> QED
  BY <1>1, <1>2, <1>4, <1>5, <1>8, ShrinkingTodo, SameScrub, RestingVictim,
     Settled

\* The rename to a .removed- name takes an inode that is nobody's scratch.
LEMMA Unlinked ==
  ASSUME IndInv, NEW c \in Clients, Settles(c), NEW t,
         \/ \E i \in Ids : /\ t = tree[i] /\ tree' = [tree EXCEPT ![i] = 0]
                           /\ ref' = ref
         \/ \E n \in Names : /\ t = ref[n] /\ ref' = [ref EXCEPT ![n] = 0]
                             /\ tree' = tree,
         t # 0, removed' = removed \cup {t},
         UNCHANGED <<leaseFile, holder, building, staged, content, swept>>
  PROVE  /\ Gentle(c) /\ DiskTypes' /\ PlaceInv' /\ Blank'
         /\ LeasedTreesWhole'
         /\ t \in 1..issued /\ \A k \in Clients : Working(k) => tok[k] # t
<1>0. /\ DiskTypes /\ PlaceInv /\ Blank /\ LeasedTreesWhole
      /\ issued' = issued /\ idOf' = idOf
      /\ \A k \in Clients : HomeOK(k)
  BY DEF IndInv, Calls, Settles, tokenVars
<1>1. t \in 1..issued /\ Placed(t)
  BY <1>0, SMT DEF DiskTypes, Placed
<1>2. \A k \in Clients : Working(k) => tok[k] # t
  BY <1>0, <1>1 DEF HomeOK
<1>3. /\ tree' \in [Ids -> 0..issued] /\ ref' \in [Names -> 0..issued]
      /\ \A i \in Ids : tree'[i] = IF tree[i] = t THEN 0 ELSE tree[i]
      /\ \A n \in Names : ref'[n] = IF ref[n] = t THEN 0 ELSE ref[n]
  <2>1. ASSUME NEW i \in Ids, t = tree[i], tree' = [tree EXCEPT ![i] = 0],
               ref' = ref
        PROVE  <1>3!:
    BY <1>0, <2>1, SMT DEF DiskTypes, PlaceInv
  <2>2. ASSUME NEW n \in Names, t = ref[n], ref' = [ref EXCEPT ![n] = 0],
               tree' = tree
        PROVE  <1>3!:
    BY <1>0, <2>2, SMT DEF DiskTypes, PlaceInv
  <2> QED
    BY <2>1, <2>2
<1>4. DiskTypes'
  BY <1>0, <1>1, <1>3 DEF DiskTypes
<1>5. PlaceInv'
  <2>1. t \notin building \cup staged \cup removed
    BY <1>0, <1>1 DEF PlaceInv
  <2>2. 0 \notin building \cup staged \cup removed
    BY <1>0, SMT DEF DiskTypes
  <2>3. \A u \in building \cup staged \cup removed' : ~Placed(u)'
    BY <1>0, <1>3, <2>1, <2>2, SMT DEF PlaceInv, Placed
  <2>4. /\ \A i, j \in Ids : tree'[i] = tree'[j] /\ tree'[i] # 0 => i = j
        /\ \A m, n \in Names : ref'[m] = ref'[n] /\ ref'[m] # 0 => m = n
        /\ \A i \in Ids, n \in Names : tree'[i] = ref'[n] => tree'[i] = 0
    BY <1>0, <1>3, SMT DEF PlaceInv
  <2>5. /\ building \cap staged = {} /\ building \cap removed' = {}
        /\ staged \cap removed' = {}
    BY <1>0, <2>1 DEF PlaceInv
  <2> QED
    BY <2>3, <2>4, <2>5 DEF PlaceInv
<1>6. Blank'
  BY <1>0 DEF Blank
<1>7. LeasedTreesWhole'
  BY <1>0, <1>3 DEF LeasedTreesWhole, Whole
<1>8. Moved(c)
  <2>1. \A i \in Ids : tree'[i] \in {0, tree[i]}
    BY <1>3
  <2>2. \A n \in Names : ref'[n] \in {0, ref[n]}
    BY <1>3
  <2> QED
    BY <1>1, <2>1, <2>2 DEF Moved
<1>9. ASSUME NEW b \in Clients \ {c} PROVE Spared(b)
  BY <1>0 DEF Spared
<1>10. Gentle(c)
  BY <1>0, <1>8, <1>9, SettlesGently
<1> QED
  BY <1>1, <1>2, <1>4, <1>5, <1>6, <1>7, <1>10

\* A removal that goes on in the same loop, or out of scrub's transaction.
LEMMA RemovalKeeps ==
  ASSUME IndInv, NEW c \in Clients, Settles(c), Gentle(c), DiskTypes',
         PlaceInv', Blank', LeasedTreesWhole', VictimOK(c)',
         todo'[c] \subseteq todo[c], UNCHANGED <<writer, rooted>>,
         Loop(c)' \in {"delList", "delRefs", "scrubTrees", "scrubRefs"},
         Loop(c)' = "scrubTrees" => Loop(c) = "scrubTrees",
         Loop(c)' = "scrubRefs" => Loop(c) = "dangling"
  PROVE  IndInv'
<1>1. TodoOK(c)'
  BY DEF TodoOK
<1>2. Serial(c) /\ ScrubOK(c)'
  BY DEF IndInv, Calls, Serial, ScrubOK
<1> QED
  BY <1>1, <1>2, Settled

\* unlink_scratch of a tree.
LEMMA TreeRemovalKeeps ==
  ASSUME IndInv, NEW c \in Clients, NEW i \in Ids,
         NEW next \in {"delList", "scrubTrees"}, RemoveTree(c, i, next),
         pc[c] \in {"delTree", "scrubTrees"},
         next = "scrubTrees" => pc[c] = "scrubTrees",
         NEW td, td \subseteq todo[c], todo' = [todo EXCEPT ![c] = td],
         UNCHANGED <<leaseFile, holder, building, staged, ref, swept>>,
         UNCHANGED <<id, tok, written, tokenVars, writer, rooted>>
  PROVE  IndInv'
<1>1. Loop(c) = pc[c]
  BY DEF Loop, WipePcs, Sampling
<1>2. CASE tree[i] # 0
  <2>1. /\ tree' = [tree EXCEPT ![i] = 0] /\ removed' = removed \cup {tree[i]}
        /\ Wipe(c, tree[i], next) /\ content' = content
    BY <1>2 DEF RemoveTree
  <2>2. tree[i] \in Nat
    BY SMT DEF IndInv, DiskTypes
  <2>3. /\ Settles(c) /\ pc'[c] = "open" /\ victim'[c] = tree[i]
        /\ back'[c] = next /\ todo'[c] = td
    BY <2>1, <2>2, Wiped, ZenonT(30)
  <2>4. /\ Gentle(c) /\ DiskTypes' /\ PlaceInv' /\ Blank'
        /\ LeasedTreesWhole'
        /\ tree[i] \in 1..issued
        /\ \A k \in Clients : Working(k) => tok[k] # tree[i]
    BY <1>2, <2>1, <2>3, Unlinked
  <2>5. VictimOK(c)' /\ Loop(c)' = next
    BY <2>3, <2>4, WipeStarts, SMT
  <2> QED
    BY <1>1, <2>3, <2>4, <2>5, RemovalKeeps
<1>3. CASE tree[i] = 0
  <2>1. /\ pc' = [pc EXCEPT ![c] = next]
        /\ UNCHANGED <<content, tree, removed, back, victim>>
    BY <1>3 DEF RemoveTree, wipeVars
  <2>2. td \in SUBSET (Ids \cup Names \cup Tokens)
    BY DEF IndInv, LocalTypes
  <2>3. /\ Settles(c) /\ pc'[c] = next /\ victim'[c] = victim[c]
        /\ todo'[c] = td
    BY <2>1, <2>2, Relisted
  <2>4. /\ victim'[c] = 0 /\ pc'[c] \notin WipePcs \cup Sampling
        /\ Loop(c)' = next
    BY <2>3, NoVictim DEF WipePcs, Sampling, Loop
  <2>5. /\ Gentle(c) /\ DiskTypes' /\ PlaceInv' /\ Blank'
        /\ LeasedTreesWhole'
    BY <2>1, <2>3, Quiet DEF diskVars
  <2> QED
    BY <1>1, <2>3, <2>4, <2>5, RestingVictim, RemovalKeeps
<1> QED
  BY <1>2, <1>3

\* unlink_scratch of a ref.
LEMMA RefRemovalKeeps ==
  ASSUME IndInv, NEW c \in Clients, NEW n \in Names,
         NEW next \in {"delRefs", "scrubRefs"}, RemoveRef(c, n, next),
         pc[c] \in {"delRefs", "dangling"},
         next = "scrubRefs" => pc[c] = "dangling",
         UNCHANGED <<leaseFile, holder, building, staged, content, tree>>,
         UNCHANGED <<swept, id, tok, written, todo, tokenVars, writer, rooted>>
  PROVE  IndInv'
<1>1. Loop(c) = pc[c] /\ todo' = [todo EXCEPT ![c] = todo[c]]
  BY DEF Loop, WipePcs, Sampling, IndInv, LocalTypes
<1>2. CASE ref[n] # 0
  <2>1. /\ ref' = [ref EXCEPT ![n] = 0] /\ removed' = removed \cup {ref[n]}
        /\ Wipe(c, ref[n], next)
    BY <1>2 DEF RemoveRef
  <2>2. ref[n] \in Nat
    BY SMT DEF IndInv, DiskTypes
  <2>3. /\ Settles(c) /\ pc'[c] = "open" /\ victim'[c] = ref[n]
        /\ back'[c] = next /\ todo'[c] = todo[c]
    BY <1>1, <2>1, <2>2, Wiped
  <2>4. /\ Gentle(c) /\ DiskTypes' /\ PlaceInv' /\ Blank'
        /\ LeasedTreesWhole'
        /\ ref[n] \in 1..issued
        /\ \A k \in Clients : Working(k) => tok[k] # ref[n]
    BY <1>2, <2>1, <2>3, Unlinked
  <2>5. VictimOK(c)' /\ Loop(c)' = next
    BY <2>3, <2>4, WipeStarts, SMT
  <2> QED
    BY <1>1, <2>3, <2>4, <2>5, RemovalKeeps
<1>3. CASE ref[n] = 0
  <2>1. /\ pc' = [pc EXCEPT ![c] = next]
        /\ UNCHANGED <<ref, removed, back, victim>>
    BY <1>3 DEF RemoveRef, wipeVars
  <2>2. /\ Settles(c) /\ pc'[c] = next /\ victim'[c] = victim[c]
        /\ todo'[c] = todo[c]
    BY <2>1, Went
  <2>3. /\ victim'[c] = 0 /\ pc'[c] \notin WipePcs \cup Sampling
        /\ Loop(c)' = next
    BY <2>2, NoVictim DEF WipePcs, Sampling, Loop
  <2>4. /\ Gentle(c) /\ DiskTypes' /\ PlaceInv' /\ Blank'
        /\ LeasedTreesWhole'
    BY <2>1, <2>2, Quiet DEF diskVars
  <2> QED
    BY <1>1, <2>2, <2>3, <2>4, RestingVictim, RemovalKeeps
<1> QED
  BY <1>2, <1>3

\* delete_snapshot's and scrub's removals.
LEMMA RemoveKeeps ==
  ASSUME IndInv, NEW c \in Clients,
         \/ DeleteTree(c) \/ \E i \in Ids : ScrubTree(c, i)
         \/ \E n \in Names : DeleteRef(c, n) \/ ScrubRef(c, n)
  PROVE  IndInv'
<1>1. ASSUME DeleteTree(c) PROVE IndInv'
  <2>1. id[c] \in Ids /\ (todo' = todo => todo' = [todo EXCEPT ![c] = todo[c]])
    BY <1>1 DEF DeleteTree, IndInv, Calls, CallOK, LocalTypes
  <2> QED
    BY <1>1, <2>1, TreeRemovalKeeps DEF DeleteTree, argVars, loopVars, rootVars
<1>2. ASSUME NEW i \in Ids, ScrubTree(c, i) PROVE IndInv'
  <2>1. todo[c] \ {i} \subseteq todo[c]
    OBVIOUS
  <2> QED
    BY <1>2, <2>1, TreeRemovalKeeps DEF ScrubTree, argVars, rootVars
<1>3. ASSUME NEW n \in Names, DeleteRef(c, n) PROVE IndInv'
  BY <1>3, RefRemovalKeeps DEF DeleteRef, argVars, rootVars
<1>4. ASSUME NEW n \in Names, ScrubRef(c, n) PROVE IndInv'
  BY <1>4, RefRemovalKeeps DEF ScrubRef, argVars, rootVars
<1> QED
  BY <1>1, <1>2, <1>3, <1>4

-----------------------------------------------------------------------------
(* Creators.                                                               *)

\* A creator removes nothing and is in no loop.
LEMMA Creates ==
  ASSUME IndInv, NEW c \in Clients, Gentle(c), UNCHANGED <<writer, rooted>>,
         DiskTypes', LocalTypes', PlaceInv', Blank', LeasedTreesWhole',
         tok'[c] = tok[c] \/ tok'[c] > issued, victim'[c] = 0, Working(c)',
         CallOK(c)', HomeOK(c)', FillOK(c)'
  PROVE  IndInv'
<1>1. pc'[c] \in {"created", "leased", "fill", "swap"}
  BY DEF Working
<1>2. Loop(c)' = pc'[c] /\ pc'[c] \notin WipePcs \cup Sampling
  BY <1>1 DEF Loop, WipePcs, Sampling
<1>3. Serial(c) /\ ScrubOK(c)'
  BY <1>1, <1>2, OutsideScrub
<1>4. TodoOK(c)'
  BY <1>1, <1>2 DEF TodoOK
<1>5. \A k \in Clients : Working(k)' => tok'[k] # 0
  BY OthersKeep DEF CallOK
<1>6. VictimOK(c)'
  BY <1>1, <1>2, <1>5, SMT DEF VictimOK, WipePcs, Sampling, Gentle
<1> QED
  BY <1>3, <1>4, <1>6, Assemble DEF Calls

\* The creator's call goes on from a new place.
LEMMA Advances ==
  ASSUME IndInv, NEW c \in Clients, NEW to, pc' = [pc EXCEPT ![c] = to],
         UNCHANGED <<back, id, tok, victim, written, todo>>, Working(c)
  PROVE  /\ LocalTypes' /\ pc'[c] = to /\ victim'[c] = 0
         /\ \A b \in Clients \ {c} : LocalsKept(b)
         /\ tok[c] \in 1..issued /\ tok[c] \in Tokens
         /\ \A b \in Clients \ {c} :
              Working(b) => tok[b] \in Tokens /\ tok[b] # tok[c]
<1>1. LocalTypes' /\ pc'[c] = to
  BY DEF IndInv, LocalTypes
<1>2. \A b \in Clients \ {c} : LocalsKept(b)
  BY DEF IndInv, LocalTypes, LocalsKept
<1>3. victim'[c] = 0
  BY NoVictim DEF Working, WipePcs, Sampling
<1>4. \A b \in Clients :
        Working(b) => tok[b] \in 1..issued /\ tok[b] \in Tokens
  BY SMT DEF IndInv, Calls, CallOK, DiskTypes, Tokens
<1> QED
  BY <1>1, <1>2, <1>3, <1>4, SMT DEF IndInv, OwnTokens

\* The lock on the creator's own lease file.
LEMMA LeaseLockKeeps ==
  ASSUME IndInv, NEW c \in Clients, LeaseLock(c)
  PROVE  IndInv'
<1>1. /\ pc[c] = "created" /\ pc' = [pc EXCEPT ![c] = "leased"]
      /\ holder' = [holder EXCEPT ![tok[c]] = c]
      /\ UNCHANGED <<leaseFile, building, staged, removed, content, tree,
                     ref, swept, issued, idOf>>
      /\ UNCHANGED <<back, id, tok, victim, written, todo, writer, rooted>>
  BY DEF LeaseLock, Goto, rootVars, tokenVars, argVars, loopVars, wipeVars
<1>2. Working(c) /\ Fresh(c) /\ Calls(c) /\ DiskTypes
  BY <1>1 DEF Working, Fresh, IndInv
<1>3. /\ LocalTypes' /\ pc'[c] = "leased" /\ victim'[c] = 0
      /\ \A b \in Clients \ {c} : LocalsKept(b)
      /\ tok[c] \in 1..issued /\ tok[c] \in Tokens
      /\ \A b \in Clients \ {c} :
           Working(b) => tok[b] \in Tokens /\ tok[b] # tok[c]
  BY <1>1, <1>2, Advances
<1>4. /\ holder' \in [Tokens -> Clients \cup {None}] /\ holder'[tok[c]] = c
      /\ \A b \in Clients \ {c} :
           Working(b) => holder'[tok[b]] = holder[tok[b]]
  BY <1>1, <1>2, <1>3 DEF DiskTypes
<1>5. DiskTypes' /\ PlaceInv' /\ Blank' /\ LeasedTreesWhole'
  BY <1>1, <1>4
     DEF IndInv, DiskTypes, PlaceInv, Placed, Blank, LeasedTreesWhole, Whole
<1>6. Working(c)' /\ Fresh(c)'
  BY <1>3 DEF Working, Fresh
<1>7. CallOK(c)' /\ HomeOK(c)' /\ FillOK(c)'
  BY <1>1, <1>2, <1>3, <1>4, <1>6 DEF Calls, CallOK, HomeOK, FillOK, Placed
<1>8. Moved(c)
  BY <1>1 DEF Moved
<1>9. Gentle(c)
  <2>1. \A b \in Clients \ {c} : Working(b) => Spared(b)
    BY <1>1, <1>4 DEF Spared
  <2> QED
    BY <1>1, <1>2, <1>3, <1>8, <2>1, Gently
<1> QED
  BY <1>1, <1>3, <1>5, <1>6, <1>7, <1>9, Creates

\* The scratch directory, or the staged ref, under the creator's token.
LEMMA ScratchKeeps ==
  ASSUME IndInv, NEW c \in Clients, MakeDirectory(c) \/ Stage(c)
  PROVE  IndInv'
<1> DEFINE to == IF MakeDirectory(c) THEN "fill" ELSE "swap"
<1>1. /\ pc[c] = "leased" /\ pc' = [pc EXCEPT ![c] = to]
      /\ UNCHANGED <<leaseFile, holder, removed, content, tree, ref, swept,
                     issued, idOf>>
      /\ UNCHANGED <<back, id, tok, victim, written, todo, writer, rooted>>
      /\ to \in {"fill", "swap"}
  BY DEF MakeDirectory, Stage, Goto, rootVars, tokenVars, argVars, loopVars,
         wipeVars
<1>2. \/ to = "fill" /\ building' = building \cup {tok[c]} /\ staged' = staged
      \/ to = "swap" /\ staged' = staged \cup {tok[c]} /\ building' = building
  BY DEF MakeDirectory, Stage
<1> HIDE DEF to
<1>3. Working(c) /\ Fresh(c) /\ Calls(c) /\ DiskTypes /\ PlaceInv
  BY <1>1 DEF Working, Fresh, IndInv
<1>4. /\ LocalTypes' /\ pc'[c] = to /\ victim'[c] = 0
      /\ \A b \in Clients \ {c} : LocalsKept(b)
      /\ tok[c] \in 1..issued
      /\ \A b \in Clients \ {c} : Working(b) => tok[b] # tok[c]
  BY <1>1, <1>3, Advances
<1>5. tok[c] \notin building \cup staged \cup removed /\ ~Placed(tok[c])
  BY <1>3 DEF Calls, HomeOK
<1>6. DiskTypes'
  BY <1>1, <1>2, <1>3, <1>4 DEF DiskTypes
<1>7. PlaceInv'
  BY <1>1, <1>2, <1>3, <1>5, SMT DEF PlaceInv, Placed
<1>8. Blank' /\ LeasedTreesWhole'
  BY <1>1 DEF IndInv, Blank, LeasedTreesWhole, Whole
<1>9. Working(c)' /\ ~Fresh(c)'
  BY <1>1, <1>4 DEF Working, Fresh
<1>10. CallOK(c)'
  BY <1>1, <1>3, <1>4, <1>9 DEF Calls, CallOK
<1>11. HomeOK(c)'
  BY <1>1, <1>2, <1>4, <1>5, <1>9 DEF HomeOK, Placed
<1>12. FillOK(c)'
  <2>1. content[tok[c]] = {} /\ written[c] = 0
    BY <1>3 DEF Calls, FillOK, CallOK
  <2> QED
    <3>1. 1..written[c] = {} /\ content'[tok'[c]] = {} /\ written'[c] = 0
      BY <1>1, <2>1, SMT
    <3>2. to = "fill" => tok'[c] \in building'
      BY <1>1, <1>2
    <3> QED
      BY <1>1, <1>4, <1>9, <2>1, <3>1, <3>2 DEF FillOK
<1>13. Moved(c)
  BY <1>1, <1>2 DEF Moved
<1>14. ASSUME NEW b \in Clients \ {c} PROVE Spared(b)
  BY <1>1, <1>2 DEF Spared
<1>15. Gentle(c)
  BY <1>1, <1>3, <1>4, <1>9, <1>13, <1>14, Gently
<1> QED
  BY <1>1, <1>4, <1>6, <1>7, <1>8, <1>9, <1>10, <1>11, <1>12, <1>15, Creates

\* One more entry, in the creator's own scratch.
LEMMA FillKeeps ==
  ASSUME IndInv, NEW c \in Clients, Fill(c)
  PROVE  IndInv'
<1>1. /\ pc[c] = "fill" /\ written[c] < Size
      /\ written' = [written EXCEPT ![c] = written[c] + 1]
      /\ content' = [content EXCEPT ![tok[c]] =
                       content[tok[c]] \cup {written[c] + 1}]
      /\ UNCHANGED <<leaseFile, holder, building, staged, removed, tree, ref,
                     swept, issued, idOf>>
      /\ UNCHANGED <<pc, back, id, tok, victim, todo, writer, rooted>>
  BY DEF Fill, rootVars, tokenVars, loopVars, wipeVars
<1>2. /\ Working(c) /\ Calls(c) /\ DiskTypes /\ LocalTypes /\ Blank
      /\ LeasedTreesWhole
  BY <1>1 DEF Working, IndInv
<1>3. \A b \in Clients :
        Working(b) => tok[b] \in 1..issued /\ tok[b] \in Tokens
  <2>1. issued \in 0..MaxTokens /\ \A b \in Clients :
          Working(b) => tok[b] \in 0..issued /\ tok[b] # 0
    BY DEF IndInv, Calls, CallOK, DiskTypes
  <2> QED
    BY <2>1, SMT DEF Tokens
<1>4. \A b \in Clients \ {c} : Working(b) => tok[b] # tok[c]
  BY <1>3, SMT DEF IndInv, OwnTokens
<1>5. /\ written[c] \in Nat /\ written'[c] = written[c] + 1 /\ LocalTypes'
      /\ \A b \in Clients \ {c} : LocalsKept(b)
  BY <1>1, <1>2, SMT DEF LocalTypes, LocalsKept
<1>6. victim'[c] = 0
  BY <1>1, NoVictim DEF WipePcs, Sampling
<1>7. /\ content' \in [Tokens -> SUBSET Entries]
      /\ content'[tok[c]] = content[tok[c]] \cup {written[c] + 1}
      /\ \A t \in Tokens : t # tok[c] => content'[t] = content[t]
  <2>1. written[c] + 1 \in Entries
    <3>1. written[c] < Size /\ written[c] \in Nat
      BY <1>1, <1>5
    <3> QED
      BY <3>1, SMT DEF Entries
  <2>2. tok[c] \in Tokens /\ content \in [Tokens -> SUBSET Entries]
    BY <1>2, <1>3 DEF DiskTypes
  <2> QED
    BY <1>1, <2>1, <2>2
<1>8. DiskTypes'
  BY <1>1, <1>2, <1>7 DEF DiskTypes
<1>9. PlaceInv'
  BY <1>1 DEF IndInv, PlaceInv, Placed
<1>10. Blank'
  <2>1. issued' = issued /\ \A t \in Tokens : t > issued => content[t] = {}
    BY <1>1, <1>2 DEF Blank
  <2>2. ~(tok[c] > issued)
    <3>1. tok[c] \in 1..issued /\ issued \in 0..MaxTokens
      BY <1>2, <1>3 DEF DiskTypes
    <3> QED
      BY <3>1, SMT
  <2> QED
    BY <1>7, <2>1, <2>2 DEF Blank
<1>11. LeasedTreesWhole'
  <2>1. ASSUME NEW i \in Ids, tree[i] # 0
        PROVE  tree[i] # tok[c] /\ tree[i] \in Tokens
    BY <1>2, <2>1, SMT DEF Calls, HomeOK, Placed, DiskTypes, Tokens
  <2> QED
    BY <1>1, <1>2, <1>7, <2>1 DEF LeasedTreesWhole, Whole
<1>12. Working(c)' /\ ~Fresh(c)'
  BY <1>1 DEF Working, Fresh
<1>13. CallOK(c)' /\ HomeOK(c)'
  BY <1>1, <1>2, <1>12 DEF Calls, CallOK, HomeOK, Placed, Working, Fresh
<1>14. FillOK(c)'
  <2>1. tok[c] \notin swept =>
          tok[c] \in building /\ content[tok[c]] = 1..written[c]
    BY <1>1, <1>2 DEF Calls, FillOK
  <2>2. (1..written[c]) \cup {written[c] + 1} = 1..(written[c] + 1)
    BY <1>5, SMT
  <2> QED
    BY <1>1, <1>5, <1>7, <1>12, <2>1, <2>2 DEF FillOK
<1>15. Moved(c)
  BY <1>1 DEF Moved
<1>16. ASSUME NEW b \in Clients \ {c}, Working(b) PROVE Spared(b)
  BY <1>1, <1>3, <1>4, <1>7, <1>16 DEF Spared
<1>17. Gentle(c)
  BY <1>1, <1>2, <1>5, <1>12, <1>15, <1>16, Gently
<1> QED
  BY <1>1, <1>5, <1>6, <1>8, <1>9, <1>10, <1>11, <1>12, <1>13, <1>14, <1>17,
     Creates

\* project's rename: a whole tree goes to its name, unless it was swept.
LEMMA RenameKeeps ==
  ASSUME IndInv, NEW c \in Clients, Rename(c)
  PROVE  IndInv'
<1>1. /\ pc[c] = "fill" /\ pc' = [pc EXCEPT ![c] = "cleanup"]
      /\ written[c] = Size /\ tok[c] \in building
      /\ tree' = [tree EXCEPT ![id[c]] = tok[c]]
      /\ building' = building \ {tok[c]}
      /\ UNCHANGED <<leaseFile, holder, staged, removed, content, ref, swept,
                     issued, idOf>>
      /\ UNCHANGED <<back, id, tok, victim, written, todo, writer, rooted>>
  BY DEF Rename, Goto, rootVars, tokenVars, argVars, loopVars, wipeVars
<1>2. /\ Working(c) /\ Calls(c) /\ DiskTypes /\ PlaceInv /\ Blank
      /\ LeasedTreesWhole
  BY <1>1 DEF Working, IndInv
<1>3. Settles(c) /\ pc'[c] = "cleanup" /\ victim'[c] = victim[c]
  BY <1>1, Went DEF tokenVars
<1>4. /\ victim'[c] = 0 /\ pc'[c] \notin WipePcs \cup Sampling
      /\ Loop(c)' = "cleanup"
  BY <1>1, <1>3, NoVictim DEF WipePcs, Sampling, Loop
<1>5. \A b \in Clients \ {c} : Working(b) => tok[b] # tok[c]
  BY DEF IndInv, OwnTokens, Calls, CallOK
<1>6. /\ tree' \in [Ids -> 0..issued]
      /\ \A i \in Ids : tree'[i] = IF i = id[c] THEN tok[c] ELSE tree[i]
  BY <1>1, <1>2 DEF DiskTypes, Calls, CallOK
<1>7. tok[c] \notin staged \cup removed /\ ~Placed(tok[c])
  BY <1>1, <1>2 DEF Calls, HomeOK
<1>8. DiskTypes'
  BY <1>1, <1>2, <1>6 DEF DiskTypes
<1>9. PlaceInv'
  <2>1. \A u \in building' \cup staged \cup removed : ~Placed(u)'
    BY <1>1, <1>2, <1>6, <1>7 DEF PlaceInv, Placed
  <2>2. \A i, j \in Ids : tree'[i] = tree'[j] /\ tree'[i] # 0 => i = j
    BY <1>2, <1>6, <1>7 DEF PlaceInv, Placed
  <2>3. \A i \in Ids, n \in Names : tree'[i] = ref[n] => tree'[i] = 0
    BY <1>2, <1>6, <1>7 DEF PlaceInv, Placed
  <2>4. /\ building' \cap staged = {} /\ building' \cap removed = {}
    BY <1>1, <1>2 DEF PlaceInv
  <2> QED
    BY <1>1, <1>2, <2>1, <2>2, <2>3, <2>4 DEF PlaceInv
<1>10. Blank'
  BY <1>1, <1>2 DEF Blank
<1>11. LeasedTreesWhole'
  <2>1. tok[c] \notin swept =>
          content[tok[c]] = Entries /\ idOf[tok[c]] = id[c]
    BY <1>1, <1>2 DEF Calls, FillOK, CallOK, Entries
  <2> QED
    BY <1>1, <1>2, <1>6, <2>1 DEF LeasedTreesWhole, Whole
<1>12. Moved(c)
  BY <1>1, <1>2, <1>6 DEF Moved
<1>13. ASSUME NEW b \in Clients \ {c}, Working(b) PROVE Spared(b)
  BY <1>1, <1>5, <1>13 DEF Spared
<1>14. Gentle(c)
  BY <1>1, <1>3, <1>12, <1>13, SettlesGently
<1>15. TodoOK(c)' /\ Serial(c) /\ ScrubOK(c)'
  BY <1>1, <1>4, OutsideScrub DEF TodoOK
<1> QED
  BY <1>3, <1>4, <1>8, <1>9, <1>10, <1>11, <1>14, <1>15, RestingVictim, Settled

\* set_ref's rename.
LEMMA SwapRenameKeeps ==
  ASSUME IndInv, NEW c \in Clients, SwapRename(c)
  PROVE  IndInv'
<1>1. /\ pc[c] = "swap" /\ pc' = [pc EXCEPT ![c] = "unlease"]
      /\ tok[c] \in staged
      /\ ref' = [ref EXCEPT ![name[c]] = tok[c]]
      /\ staged' = staged \ {tok[c]}
      /\ UNCHANGED <<leaseFile, holder, building, removed, content, tree,
                     swept, issued, idOf>>
      /\ UNCHANGED <<back, id, tok, victim, written, todo, writer, rooted>>
  BY DEF SwapRename, Goto, rootVars, tokenVars, argVars, loopVars, wipeVars
<1>2. /\ Working(c) /\ Calls(c) /\ DiskTypes /\ PlaceInv /\ Blank
      /\ LeasedTreesWhole
  BY <1>1 DEF Working, IndInv
<1>3. Settles(c) /\ pc'[c] = "unlease" /\ victim'[c] = victim[c]
  BY <1>1, Went DEF tokenVars
<1>4. /\ victim'[c] = 0 /\ pc'[c] \notin WipePcs \cup Sampling
      /\ Loop(c)' = "unlease"
  BY <1>1, <1>3, NoVictim DEF WipePcs, Sampling, Loop
<1>5. /\ ref' \in [Names -> 0..issued]
      /\ \A n \in Names : ref'[n] = IF n = name[c] THEN tok[c] ELSE ref[n]
  BY <1>1, <1>2 DEF DiskTypes, Calls, CallOK
<1>6. tok[c] \notin building \cup removed /\ ~Placed(tok[c])
  BY <1>1, <1>2 DEF Calls, HomeOK
<1>7. DiskTypes'
  BY <1>1, <1>2, <1>5 DEF DiskTypes
<1>8. PlaceInv'
  <2>1. \A u \in building \cup staged' \cup removed : ~Placed(u)'
    BY <1>1, <1>2, <1>5, <1>6 DEF PlaceInv, Placed
  <2>2. \A m, n \in Names : ref'[m] = ref'[n] /\ ref'[m] # 0 => m = n
    BY <1>2, <1>5, <1>6 DEF PlaceInv, Placed
  <2>3. \A i \in Ids, n \in Names : tree[i] = ref'[n] => tree[i] = 0
    BY <1>2, <1>5, <1>6 DEF PlaceInv, Placed
  <2>4. /\ building \cap staged' = {} /\ staged' \cap removed = {}
    BY <1>1, <1>2 DEF PlaceInv
  <2> QED
    BY <1>1, <1>2, <2>1, <2>2, <2>3, <2>4 DEF PlaceInv
<1>9. Blank' /\ LeasedTreesWhole'
  BY <1>1, <1>2 DEF Blank, LeasedTreesWhole, Whole
<1>10. Moved(c)
  BY <1>1, <1>5 DEF Moved
<1>11. ASSUME NEW b \in Clients \ {c} PROVE Spared(b)
  BY <1>1 DEF Spared
<1>12. Gentle(c)
  BY <1>1, <1>3, <1>10, <1>11, SettlesGently
<1>13. TodoOK(c)' /\ Serial(c) /\ ScrubOK(c)'
  BY <1>1, <1>4, OutsideScrub DEF TodoOK
<1> QED
  BY <1>3, <1>4, <1>7, <1>8, <1>9, <1>12, <1>13, RestingVictim, Settled

\* A lease file under a new token, of project or of set_ref.
LEMMA LeaseCreateKeeps ==
  ASSUME IndInv, NEW c \in Clients,
         ProjectLease(c) \/ \E n \in Names, i \in Ids : SwapBegin(c, n, i)
  PROVE  IndInv'
<1> DEFINE Creation(i) ==
      /\ LeaseCreate(c, i) /\ id' = [id EXCEPT ![c] = i]
      /\ pc[c] \in {"idle", "stat"} /\ pc' = [pc EXCEPT ![c] = "created"]
      /\ UNCHANGED <<back, victim, written, todo, writer, rooted>>
<1>1. PICK i \in Ids \cup {None} : Creation(i)
  <2>1. ASSUME ProjectLease(c)
        PROVE  Creation(id[c]) /\ id[c] \in Ids \cup {None}
    <3>1. id[c] \in Ids \cup {None} /\ id' = [id EXCEPT ![c] = id[c]]
      BY <2>1 DEF ProjectLease, IndInv, LocalTypes
    <3> QED
      BY <2>1, <3>1 DEF ProjectLease, Goto, loopVars, wipeVars, rootVars
  <2>2. ASSUME NEW n \in Names, NEW i \in Ids, SwapBegin(c, n, i)
        PROVE  Creation(i)
    BY <2>2 DEF SwapBegin, Start, Goto, loopVars, wipeVars, rootVars
  <2> HIDE DEF Creation
  <2> QED
    BY <2>1, <2>2
<1> DEFINE t == issued + 1
<1>2. /\ issued < MaxTokens /\ issued' = t /\ idOf' = [idOf EXCEPT ![t] = i]
      /\ leaseFile' = leaseFile \cup {t} /\ tok' = [tok EXCEPT ![c] = t]
      /\ UNCHANGED <<holder, building, staged, removed, content, tree, ref,
                     swept>>
  BY <1>1 DEF LeaseCreate
<1>3. /\ DiskTypes /\ LocalTypes /\ PlaceInv /\ Blank /\ LeasedTreesWhole
      /\ Calls(c)
  BY DEF IndInv
<1>4. issued \in Nat /\ t \in Nat /\ t > issued /\ t # 0 /\ t \in Tokens
      /\ t \notin 0..issued
  BY <1>2, <1>3, SMT DEF DiskTypes, Tokens
<1> HIDE DEF t
<1>5. /\ LocalTypes' /\ pc'[c] = "created" /\ tok'[c] = t /\ id'[c] = i
      /\ \A b \in Clients \ {c} : LocalsKept(b)
  <2>1. LocalTypes'
    BY <1>1, <1>2, <1>3, <1>4 DEF LocalTypes
  <2>2. pc'[c] = "created" /\ tok'[c] = t /\ id'[c] = i
    BY <1>1, <1>2, <1>3 DEF LocalTypes
  <2>3. \A b \in Clients \ {c} : LocalsKept(b)
    BY <1>1, <1>2, <1>3 DEF LocalTypes, LocalsKept
  <2> QED
    BY <2>1, <2>2, <2>3
<1>6. victim'[c] = 0
  BY <1>1, NoVictim DEF WipePcs, Sampling
<1>7. /\ idOf' \in [Tokens -> Ids \cup {None}] /\ idOf'[t] = i
      /\ \A u \in 1..issued : idOf'[u] = idOf[u]
  BY <1>1, <1>2, <1>3, <1>4, SMT DEF DiskTypes, Tokens
<1>8. 0..issued \subseteq 0..t /\ 1..issued \subseteq 1..t /\ t \in 1..t
  BY <1>2, <1>4, SMT
<1>9. DiskTypes'
  <2>1. t \in 0..MaxTokens
    BY <1>4, SMT DEF Tokens
  <2>2. tree \in [Ids -> 0..t] /\ ref \in [Names -> 0..t]
    BY <1>3, <1>8 DEF DiskTypes
  <2> QED
    BY <1>2, <1>3, <1>7, <1>8, <2>1, <2>2 DEF DiskTypes
<1>10. PlaceInv'
  BY <1>2, <1>3 DEF PlaceInv, Placed
<1>11. Blank'
  BY <1>2, <1>3, <1>4, SMT DEF Blank, Tokens
<1>12. LeasedTreesWhole'
  <2>1. \A j \in Ids : tree[j] # 0 => tree[j] \in 1..issued
    BY <1>3, SMT DEF DiskTypes
  <2> QED
    BY <1>2, <1>3, <1>7, <2>1 DEF LeasedTreesWhole, Whole
<1>13. Working(c)' /\ Fresh(c)'
  BY <1>5 DEF Working, Fresh
<1>14. CallOK(c)'
  <2>1. written'[c] = 0
    BY <1>1, <1>3 DEF Calls, CallOK
  <2>2. tok'[c] \in 0..issued' /\ tok'[c] # 0
    <3>1. tok'[c] = t /\ issued' = t /\ t \in Nat /\ t # 0
      BY <1>2, <1>4, <1>5
    <3> QED
      BY <3>1, SMT
  <2>3. idOf'[tok'[c]] = id'[c]
    BY <1>5, <1>7
  <2>4. tok'[c] \in leaseFile'
    <3>1. leaseFile' = leaseFile \cup {t}
      BY <1>2
    <3>2. tok'[c] = t
      BY <1>5
    <3> QED
      BY <3>1, <3>2
  <2> QED
    BY <1>5, <2>1, <2>2, <2>3, <2>4 DEF CallOK
<1>15. HomeOK(c)'
  <2>1. t \notin building \cup staged \cup removed /\ ~Placed(t)
    BY <1>3, <1>4, SMT DEF DiskTypes, Placed
  <2>2. /\ tok'[c] \notin building' \cup staged' \cup removed'
        /\ \A j \in Ids : tree'[j] # tok'[c]
        /\ \A n \in Names : ref'[n] # tok'[c]
    BY <1>2, <1>5, <2>1 DEF Placed
  <2> QED
    BY <2>2 DEF HomeOK, Placed
<1>16. FillOK(c)'
  BY <1>2, <1>3, <1>4, <1>5 DEF FillOK, Blank
<1>17. Moved(c)
  BY <1>2 DEF Moved
<1>18. ASSUME NEW b \in Clients \ {c}, Working(b) PROVE Spared(b)
  <2>1. tok[b] \in 1..issued
    <3>1. tok[b] \in 0..issued /\ tok[b] # 0
      BY <1>18 DEF IndInv, Calls, CallOK
    <3> QED
      BY <1>4, <3>1, SMT
  <2> QED
    BY <1>2, <1>7, <2>1 DEF Spared
<1>19. Gentle(c)
  <2>1. tok'[c] > issued /\ swept' = swept /\ issued' = t
    BY <1>2, <1>4, <1>5
  <2>2. issued' \in Nat /\ issued <= issued'
    BY <1>4, <2>1, SMT
  <2> QED
    BY <1>5, <1>17, <1>18, <2>1, <2>2 DEF Gentle
<1> QED
  BY <1>1, <1>4, <1>5, <1>6, <1>9, <1>10, <1>11, <1>12, <1>13, <1>14, <1>15,
     <1>16, <1>19, Creates

-----------------------------------------------------------------------------
(* The invariant and what follows from it.                                 *)

\* Nothing is on disk and every client is idle.
LEMMA InitInv ==
  ASSUME Init PROVE IndInv
<1>1. DiskTypes
  BY SMT DEF Init, DiskTypes, Tokens, Entries
<1>2. LocalTypes
  BY DEF Init, LocalTypes
<1>3. /\ PlaceInv /\ OwnTokens /\ Blank /\ LeasedTreesWhole
      /\ rooted \subseteq Ids
  BY DEF Init, PlaceInv, OwnTokens, Blank, LeasedTreesWhole
<1>4. ASSUME NEW c \in Clients PROVE Calls(c)
  BY SMT DEF Init, Calls, ScrubOK, CallOK, HomeOK, TodoOK, VictimOK, FillOK,
     Loop, Working, Fresh, WipePcs, Sampling
<1> QED
  BY <1>1, <1>2, <1>3, <1>4 DEF IndInv

\* A root row is inserted in nobody's transaction.
LEMMA RootKeeps ==
  ASSUME IndInv, NEW i \in Ids, Root(i)
  PROVE  IndInv'
<1>1. /\ writer = None /\ writer' = writer /\ rooted' = rooted \cup {i}
      /\ UNCHANGED <<leaseFile, holder, building, staged, removed, content,
                     tree, ref, swept, issued, idOf>>
      /\ UNCHANGED <<pc, back, id, tok, victim, written, todo>>
  BY DEF Root, Transact, diskVars, tokenVars, argVars, loopVars, wipeVars
<1>2. DiskTypes' /\ LocalTypes' /\ OwnTokens' /\ rooted' \subseteq Ids
  BY <1>1 DEF IndInv, DiskTypes, LocalTypes, OwnTokens
<1>3. PlaceInv' /\ Blank' /\ LeasedTreesWhole'
  BY <1>1 DEF IndInv, PlaceInv, Placed, Blank, LeasedTreesWhole, Whole
<1>4. ASSUME NEW c \in Clients PROVE Calls(c)'
  <2>1. Calls(c)
    BY DEF IndInv
  <2>2. ScrubOK(c)'
    BY <1>1, <2>1, SMT DEF Calls, ScrubOK, Loop
  <2>3. CallOK(c)' /\ HomeOK(c)' /\ FillOK(c)'
    BY <1>1, <2>1 DEF Calls, CallOK, HomeOK, FillOK, Placed, Working, Fresh
  <2>4. TodoOK(c)' /\ VictimOK(c)'
    BY <1>1, <2>1 DEF Calls, TodoOK, VictimOK, Loop, Working, Fresh
  <2> QED
    BY <2>2, <2>3, <2>4 DEF Calls
<1> QED
  BY <1>2, <1>3, <1>4 DEF IndInv

\* Every step keeps the invariant.
LEMMA NextInv ==
  ASSUME IndInv, [Next]_vars PROVE IndInv'
<1>1. ASSUME NEW i \in Ids, Root(i) PROVE IndInv'
  BY <1>1, RootKeeps
<1>2. ASSUME NEW c \in Clients, Die(c) PROVE IndInv'
  BY <1>2, DieKeeps
<1>3. ASSUME NEW c \in Clients, Project(c) PROVE IndInv'
  BY <1>3, ProjectQuiet, LeaseCreateKeeps, ScratchKeeps, FillKeeps,
     RenameKeeps, WipeQuiet DEF Project
<1>4. ASSUME NEW c \in Clients, Swap(c) PROVE IndInv'
  BY <1>4, LeaseCreateKeeps, ScratchKeeps, SwapRenameKeeps, LeaseQuiet DEF Swap
<1>5. ASSUME NEW c \in Clients, Lease(c) PROVE IndInv'
  BY <1>5, LeaseLockKeeps, LeaseQuiet, LeaseEnds DEF Lease
<1>6. ASSUME NEW c \in Clients, Delete(c) PROVE IndInv'
  BY <1>6, DeleteQuiet, RemoveKeeps DEF Delete
<1>7. ASSUME NEW c \in Clients, Scrub(c) PROVE IndInv'
  BY <1>7, ScrubQuiet, RemoveKeeps DEF Scrub
<1>8. ASSUME NEW c \in Clients, Reap(c) PROVE IndInv'
  BY <1>8, ReapLists, ReapQuiet, SampleFreeKeeps, SampleDropKeeps, WipeQuiet,
     ReapSwapKeeps, ReapLeaseKeeps DEF Reap
<1>9. ASSUME NEW c \in Clients, WipeStep(c) PROVE IndInv'
  BY <1>9, WipeQuiet, WipeKeeps DEF WipeStep
<1>10. ASSUME UNCHANGED vars PROVE IndInv'
  <2>1. /\ UNCHANGED <<leaseFile, holder, building, staged, removed, content,
                       tree, ref, swept, issued, idOf, writer, rooted>>
        /\ UNCHANGED <<pc, back, id, tok, victim, written, todo>>
    BY <1>10 DEF vars, diskVars, rootVars, tokenVars, argVars, loopVars,
         wipeVars
  <2>2. DiskTypes' /\ LocalTypes' /\ OwnTokens' /\ rooted' \subseteq Ids
    BY <2>1 DEF IndInv, DiskTypes, LocalTypes, OwnTokens
  <2>3. PlaceInv' /\ Blank' /\ LeasedTreesWhole'
    BY <2>1, ZenonT(30)
       DEF IndInv, PlaceInv, Placed, Blank, LeasedTreesWhole, Whole
  <2>4. ASSUME NEW c \in Clients PROVE Calls(c)'
    BY <2>1, ZenonT(30) DEF IndInv, Calls, ScrubOK, CallOK, HomeOK, TodoOK,
       VictimOK, FillOK, Loop, Placed, Working, Fresh
  <2> QED
    BY <2>2, <2>3, <2>4 DEF IndInv
<1> QED
  BY <1>1, <1>2, <1>3, <1>4, <1>5, <1>6, <1>7, <1>8, <1>9, <1>10 DEF Next, Step

(* The inductive invariant holds: tokens and inodes have one owner and one *)
(* name, and what a reap is about to remove has no working creator.        *)
THEOREM LayoutInvariant == Spec => []IndInv
  BY InitInv, NextInv, PTL DEF Spec

(* A tree under snapshots/<id> holds every entry of that id's manifest     *)
(* (LeasedTreesWhole), unless reap_scratch swept its projector's lease:    *)
(* the rename of project comes after the last entry, and nothing empties   *)
(* a directory that has a live name.                                       *)
THEOREM TreesAreWhole == Spec => []LeasedTreesWhole
<1>1. IndInv => LeasedTreesWhole
  BY DEF IndInv
<1> QED
  BY <1>1, LayoutInvariant, PTL

\* What takes a tree away from its name.
LEMMA TreeLosers ==
  ASSUME Next, tree' # tree
  PROVE  \E c \in Clients :
           \/ Rename(c) \/ DeleteTree(c) \/ \E i \in Ids : ScrubTree(c, i)
<1>1. ASSUME NEW i \in Ids, Root(i) PROVE tree' = tree
  BY <1>1 DEF Root, diskVars
<1>2. ASSUME NEW c \in Clients, Die(c) PROVE tree' = tree
  BY <1>2 DEF Die
<1>3. ASSUME NEW c \in Clients, Project(c), ~Rename(c) PROVE tree' = tree
  BY <1>3 DEF Project, ProjectBegin, ProjectExists, ProjectLease, LeaseCreate,
       MakeDirectory, Fill, FillFail, RenameLost, Cleanup, diskVars
<1>4. ASSUME NEW c \in Clients, Swap(c) \/ Lease(c) PROVE tree' = tree
  BY <1>4 DEF Swap, SwapBegin, LeaseCreate, Stage, SwapRename, SwapLost,
       Lease, LeaseLock, LeaseRefused, DropLease, RemoveLease, diskVars
<1>5. ASSUME NEW c \in Clients, Delete(c), ~DeleteTree(c) PROVE tree' = tree
  BY <1>5 DEF Delete, DeleteRow, DeleteList, DeleteRefs, DeleteEnd,
       DeleteRead, DeleteRef, diskVars
<1>6. ASSUME NEW c \in Clients, Scrub(c), ~\E i \in Ids : ScrubTree(c, i)
      PROVE  tree' = tree
  BY <1>6 DEF Scrub, ScrubBegin, ScrubRefs, ScrubCommit, ScrubRead, ScrubRef,
       diskVars
<1>7. ASSUME NEW c \in Clients, Reap(c) PROVE tree' = tree
  BY <1>7 DEF Reap, ReapTrees, ReapSwaps, ReapRemoved, ReapLeases, ReapList,
       SampleFree, SampleAbsent, SampleHeld, ReapUnlinked, SampleDrop,
       ReapTree, ReapSwap, ReapLease, ReapEnd, diskVars
<1>8. ASSUME NEW c \in Clients, WipeStep(c) PROVE tree' = tree
  BY <1>8 DEF WipeStep, WipeOpen, WipeEntry, WipeRoot, WipeFail, diskVars
<1> QED
  BY <1>1, <1>2, <1>3, <1>4, <1>5, <1>6, <1>7, <1>8 DEF Next, Step

\* A scrub's list holds no rooted id, and a rename puts a tree there.
LEMMA ScrubStep ==
  ASSUME IndInv, [Next]_vars, NEW i \in rooted, tree[i] # 0, tree'[i] = 0
  PROVE  \E c \in Clients : pc[c] = "delTree" /\ id[c] = i
<1>1. Next /\ tree' # tree
  BY DEF vars, diskVars
<1>2. i \in Ids /\ tree \in [Ids -> 0..issued]
  BY DEF IndInv, DiskTypes
<1>3. ASSUME NEW c \in Clients, Rename(c) PROVE FALSE
  <2>1. tok[c] # 0
    BY <1>3 DEF Rename, Goto, IndInv, Calls, CallOK, Working
  <2> QED
    BY <1>2, <1>3, <2>1 DEF Rename
<1>4. ASSUME NEW c \in Clients, DeleteTree(c)
      PROVE  pc[c] = "delTree" /\ id[c] = i
  BY <1>2, <1>4 DEF DeleteTree, RemoveTree
<1>5. ASSUME NEW c \in Clients, NEW j \in Ids, ScrubTree(c, j) PROVE FALSE
  <2>1. j \in todo[c] /\ pc[c] = "scrubTrees" /\ ScrubOK(c)
    BY <1>5 DEF ScrubTree, IndInv, Calls
  <2>2. j \notin rooted
    BY <2>1 DEF ScrubOK, Loop, WipePcs, Sampling
  <2>3. tree'[i] = tree[i]
    BY <1>2, <1>5, <2>2 DEF ScrubTree, RemoveTree
  <2> QED
    BY <2>3
<1> QED
  BY <1>1, <1>3, <1>4, <1>5, TreeLosers

(* scrub never takes the tree of a snapshot that has a root row            *)
(* (ScrubKeepsLiveTrees): its transaction keeps rows from being inserted   *)
(* between its SELECT and its removals, so only a delete_snapshot of that  *)
(* id can.                                                                 *)
THEOREM ScrubSparesLiveTrees == Spec => ScrubKeepsLiveTrees
<1>1. ASSUME IndInv, [Next]_vars
      PROVE  [\A i \in rooted : tree[i] # 0 /\ tree'[i] = 0 =>
                \E c \in Clients : pc[c] = "delTree" /\ id[c] = i]_vars
  BY <1>1, ScrubStep
<1> QED
  BY <1>1, LayoutInvariant, PTL DEF Spec, ScrubKeepsLiveTrees

\* What takes scratch away, and from whom.
LEMMA ScratchLosers ==
  ASSUME Next
  PROVE  \/ UNCHANGED <<building, staged, content>>
         \/ \E c \in Clients :
              \/ MakeDirectory(c) \/ Stage(c) \/ Fill(c) \/ Rename(c)
              \/ SwapRename(c) \/ ReapSwap(c) \/ WipeRoot(c)
              \/ \E e \in Entries : WipeEntry(c, e)
<1> DEFINE same == UNCHANGED <<building, staged, content>>
<1>1. ASSUME NEW i \in Ids, Root(i) PROVE same
  BY <1>1 DEF Root, diskVars
<1>2. ASSUME NEW c \in Clients, Die(c) PROVE same
  BY <1>2 DEF Die
<1>3. ASSUME NEW c \in Clients, Project(c), ~MakeDirectory(c), ~Fill(c),
             ~Rename(c)
      PROVE  same
  BY <1>3 DEF Project, ProjectBegin, ProjectExists, ProjectLease, LeaseCreate,
       FillFail, RenameLost, Cleanup, diskVars
<1>4. ASSUME NEW c \in Clients, Swap(c) \/ Lease(c), ~Stage(c), ~SwapRename(c)
      PROVE  same
  BY <1>4 DEF Swap, SwapBegin, LeaseCreate, SwapLost,
       Lease, LeaseLock, LeaseRefused, DropLease, RemoveLease, diskVars
<1>5. ASSUME NEW c \in Clients, Delete(c) PROVE same
  BY <1>5 DEF Delete, DeleteRow, DeleteTree, RemoveTree, DeleteList,
       DeleteRefs, DeleteEnd, DeleteRead, DeleteRef, diskVars
<1>6. ASSUME NEW c \in Clients, Scrub(c) PROVE same
  BY <1>6 DEF Scrub, ScrubBegin, ScrubTree, RemoveTree, ScrubRefs,
       ScrubCommit, ScrubRead, ScrubRef, diskVars
<1>7. ASSUME NEW c \in Clients, Reap(c), ~ReapSwap(c) PROVE same
  BY <1>7 DEF Reap, ReapTrees, ReapSwaps, ReapRemoved, ReapLeases, ReapList,
       SampleFree, SampleAbsent, SampleHeld, ReapUnlinked, SampleDrop,
       ReapTree, ReapLease, ReapEnd, diskVars
<1>8. ASSUME NEW c \in Clients, WipeStep(c), ~WipeRoot(c),
             ~\E e \in Entries : WipeEntry(c, e)
      PROVE  same
  BY <1>8 DEF WipeStep, WipeOpen, WipeFail, diskVars
<1> HIDE DEF same
<1>9. same \/ \E c \in Clients :
        \/ MakeDirectory(c) \/ Stage(c) \/ Fill(c) \/ Rename(c)
        \/ SwapRename(c) \/ ReapSwap(c) \/ WipeRoot(c)
        \/ \E e \in Entries : WipeEntry(c, e)
  BY <1>1, <1>2, <1>3, <1>4, <1>5, <1>6, <1>7, <1>8 DEF Next, Step
<1> QED
  BY <1>9 DEF same

\* Whoever takes scratch away takes its own, or a victim's.
LEMMA ScratchStep ==
  ASSUME IndInv, [Next]_vars, NEW c \in Clients,
         pc[c] \in {"fill", "swap"}, pc'[c] = pc[c], tok[c] \notin swept
  PROVE  /\ tok[c] \in building => tok[c] \in building'
         /\ tok[c] \in staged => tok[c] \in staged'
         /\ content[tok[c]] \subseteq content'[tok[c]]
<1> DEFINE kept == /\ tok[c] \in building => tok[c] \in building'
                   /\ tok[c] \in staged => tok[c] \in staged'
                   /\ content[tok[c]] \subseteq content'[tok[c]]
<1>0. /\ Working(c) /\ tok[c] \in Tokens /\ DiskTypes /\ LocalTypes
      /\ \A b \in Clients : VictimOK(b)
  <2>1. Working(c) /\ CallOK(c) /\ DiskTypes /\ LocalTypes
    BY DEF Working, IndInv, Calls
  <2>2. tok[c] \in Tokens
    BY <2>1, SMT DEF CallOK, DiskTypes, Tokens
  <2> QED
    BY <2>1, <2>2 DEF IndInv, Calls
<1>1. ASSUME NEW b \in Clients, MakeDirectory(b) \/ Stage(b) PROVE kept
  <2>1. /\ building \subseteq building' /\ staged \subseteq staged'
        /\ content' = content
    BY <1>1 DEF MakeDirectory, Stage
  <2> QED
    BY <2>1
<1>2. ASSUME NEW b \in Clients, Fill(b) PROVE kept
  BY <1>0, <1>2 DEF Fill, DiskTypes
<1>3. ASSUME NEW b \in Clients, Rename(b) \/ SwapRename(b) PROVE kept
  <2>1. b # c
    BY <1>0, <1>3 DEF Rename, SwapRename, Goto, LocalTypes
  <2>2. tok[b] # tok[c]
    BY <1>0, <2>1, SMT DEF IndInv, OwnTokens, Tokens
  <2> QED
    BY <1>3, <2>2 DEF Rename, SwapRename
<1>4. ASSUME NEW b \in Clients, ReapSwap(b) PROVE kept
  <2>1. tok[c] # victim[b]
    BY <1>0, <1>4 DEF ReapSwap, VictimOK
  <2> QED
    BY <1>4, <2>1 DEF ReapSwap
<1>5. ASSUME NEW b \in Clients,
             WipeRoot(b) \/ \E e \in Entries : WipeEntry(b, e)
      PROVE  kept
  <2>1. tok[c] # victim[b]
    BY <1>0, <1>5 DEF WipeRoot, WipeEntry, VictimOK, Sampling
  <2> QED
    BY <1>0, <1>5, <2>1 DEF WipeRoot, WipeEntry, DiskTypes
<1>6. ASSUME UNCHANGED <<building, staged, content>> PROVE kept
  BY <1>6
<1>7. UNCHANGED vars => UNCHANGED <<building, staged, content>>
  BY DEF vars, diskVars
<1> HIDE DEF kept
<1>8. kept
  BY <1>1, <1>2, <1>3, <1>4, <1>5, <1>6, <1>7, ScratchLosers
<1> QED
  BY <1>8 DEF kept

(* The scratch of a living projection or ref swap is touched by nobody     *)
(* (LiveScratchKept), unless reap_scratch's last sweep removed its lease   *)
(* file: whatever a sample found free or absent has no working creator.    *)
THEOREM ScratchIsKept == Spec => LiveScratchKept
<1>1. ASSUME IndInv, [Next]_vars
      PROVE  [\A c \in Clients :
         /\ pc[c] \in {"fill", "swap"} /\ pc'[c] = pc[c] /\ tok[c] \notin swept
         => /\ tok[c] \in building => tok[c] \in building'
            /\ tok[c] \in staged => tok[c] \in staged'
            /\ content[tok[c]] \subseteq content'[tok[c]]]_vars
  BY <1>1, ScratchStep
<1> QED
  BY <1>1, LayoutInvariant, PTL DEF Spec, LiveScratchKept

=============================================================================
