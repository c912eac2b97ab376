-------------------------- MODULE LayoutCallProofs --------------------------
(***************************************************************************)
(* One step of one client and Layout's invariant: what it leaves to the    *)
(* other clients, and the steps that touch no file.                        *)
(*                                                                         *)
(* Every action is one client's, so the invariant is kept in two parts:    *)
(* OthersKeep shows that a Gentle step leaves every other call's clauses   *)
(* as they were, and each action's lemma that its step is gentle and that  *)
(* its own call's clauses hold.  Most actions end with their client        *)
(* creating nothing (Settled).                                             *)
(***************************************************************************)
EXTENDS Layout, TLAPS

\* The steps are first order, Zenon's ground; the leaves that count cite SMT.
USE LayoutAssumption, Zenon

-----------------------------------------------------------------------------
(* What a step of one client leaves to the others.                         *)
LocalsKept(b) ==
  /\ pc'[b] = pc[b] /\ back'[b] = back[b] /\ id'[b] = id[b]
  /\ tok'[b] = tok[b] /\ victim'[b] = victim[b] /\ written'[b] = written[b]
  /\ todo'[b] = todo[b]

\* A creator's lease, scratch and content stay, or its lease file was swept.
Spared(b) ==
  /\ idOf'[tok[b]] = idOf[tok[b]]
  /\ pc[b] # "created" => holder'[tok[b]] = holder[tok[b]]
  /\ Fresh(b) => content'[tok[b]] = content[tok[b]]
  /\ tok[b] \notin swept' =>
       /\ tok[b] \in leaseFile => tok[b] \in leaseFile'
       /\ tok[b] \in building => tok[b] \in building'
       /\ content'[tok[b]] = content[tok[b]]

\* Inodes get names from their creators, and lose them to removals.
Moved(c) ==
  /\ building' \subseteq building \cup {tok[c]}
  /\ staged' \subseteq staged \cup {tok[c]}
  /\ \A t \in removed' : t \in removed \/ (t # 0 /\ Placed(t))
  /\ \A i \in Ids :
       tree'[i] \in {0, tree[i]} \/ (Working(c) /\ tree'[i] = tok[c])
  /\ \A n \in Names : ref'[n] \in {0, ref[n], tok[c]}

Gentle(c) ==
  /\ issued' \in Nat /\ issued <= issued' /\ swept \subseteq swept'
  /\ Working(c)' =>
       \/ Working(c) /\ tok'[c] = tok[c] /\ (Fresh(c)' => Fresh(c))
       \/ tok'[c] > issued
  /\ Moved(c)
  /\ \A b \in Clients \ {c} : LocalsKept(b) /\ (Working(b) => Spared(b))

\* What makes a step gentle, when it issues no token.
LEMMA Gently ==
  ASSUME IndInv, NEW c \in Clients, issued' = issued, swept \subseteq swept',
         Working(c)' =>
           Working(c) /\ tok'[c] = tok[c] /\ (Fresh(c)' => Fresh(c)),
         Moved(c), \A b \in Clients \ {c} : LocalsKept(b),
         \A b \in Clients \ {c} : Working(b) => Spared(b)
  PROVE  Gentle(c)
<1>1. issued \in 0..MaxTokens
  BY DEF IndInv, DiskTypes
<1>2. issued' \in Nat /\ issued <= issued'
  BY <1>1, SMT
<1> QED
  BY <1>2 DEF Gentle

\* A gentle step of c leaves what the invariant says of b's call.
LEMMA OthersKeep ==
  ASSUME IndInv, NEW c \in Clients, Gentle(c), NEW b \in Clients \ {c}
  PROVE  CallOK(b)' /\ HomeOK(b)' /\ TodoOK(b)' /\ VictimOK(b)' /\ FillOK(b)'
<1> DEFINE same == LocalsKept(b) /\ (Working(b) => Spared(b))
<1>1. same /\ b \in Clients /\ Calls(b) /\ issued \in Nat /\ issued' \in Nat
      /\ issued <= issued' /\ swept \subseteq swept'
  BY SMT DEF Gentle, IndInv, DiskTypes
<1>2. /\ Working(b)' <=> Working(b)
      /\ Fresh(b)' <=> Fresh(b)
      /\ Loop(b)' = Loop(b)
  BY <1>1 DEF LocalsKept, Working, Fresh, Loop
<1>3. CallOK(b)'
  BY <1>1, <1>2, SMT DEF Calls, CallOK, LocalsKept, Spared
<1>4. FillOK(b)'
  BY <1>1, <1>2 DEF Calls, FillOK, LocalsKept, Spared, Working, Fresh
<1>5. Working(b) => tok[b] # 0 /\ tok[b] # tok[c]
  BY <1>1 DEF IndInv, OwnTokens, Calls, CallOK
<1>6. Working(b) => tok[b] \notin removed' /\ ~Placed(tok[b])'
  <2>1. Working(b) => tok[b] \notin removed /\ ~Placed(tok[b])
    BY <1>1 DEF Calls, HomeOK
  <2>2. Working(b) => tok[b] \notin removed'
    BY <2>1 DEF Gentle, Moved
  <2>3. ASSUME Working(b), NEW i \in Ids PROVE tree'[i] # tok[b]
    BY <1>5, <2>1, <2>3 DEF Gentle, Moved, Placed
  <2>4. ASSUME Working(b), NEW n \in Names PROVE ref'[n] # tok[b]
    BY <1>5, <2>1, <2>4 DEF Gentle, Moved, Placed
  <2> QED
    BY <1>1, <2>2, <2>3, <2>4 DEF Placed, LocalsKept
<1>7. HomeOK(b)'
  BY <1>1, <1>2, <1>5, <1>6
     DEF Gentle, Moved, Calls, HomeOK, LocalsKept, Working, Fresh
<1>8. ASSUME NEW k \in Clients, Working(k)'
      PROVE  \/ Working(k) /\ tok'[k] = tok[k] /\ (Fresh(k)' => Fresh(k))
             \/ tok'[k] > issued
  BY <1>8 DEF Gentle, LocalsKept, Working, Fresh
<1>9. TodoOK(b)'
  <2>1. todo'[b] = todo[b]
    BY <1>1 DEF LocalsKept
  <2>2. ASSUME NEW k \in Clients, Working(k)', todo[b] \subseteq 1..issued,
               tok'[k] \in todo[b]
        PROVE  Working(k) /\ tok'[k] = tok[k] /\ (Fresh(k)' => Fresh(k))
    BY <1>1, <1>8, <2>2, SMT
  <2>3. \A k \in Clients : Fresh(k)' => Working(k)'
    BY DEF Fresh, Working
  <2> QED
    BY <1>1, <1>2, <2>1, <2>2, <2>3, SMT DEF Calls, TodoOK
<1>10. VictimOK(b)'
  <2>1. /\ victim'[b] = victim[b] /\ pc'[b] = pc[b] /\ back'[b] = back[b]
        /\ victim[b] \in 0..issued
    BY <1>1 DEF LocalsKept, Calls, VictimOK
  <2>2. ASSUME NEW k \in Clients, Working(k)', tok'[k] \notin swept',
               victim[b] = tok'[k]
        PROVE  pc[b] \in Sampling /\ back[b] = "reapLeases"
    BY <1>1, <1>8, <2>1, <2>2, SMT DEF Calls, VictimOK
  <2>3. ASSUME pc[b] = "wiping", victim[b] \notin swept',
               NEW i \in Ids, tree'[i] # 0
        PROVE  tree'[i] # victim[b]
    BY <1>1, <2>3 DEF Gentle, Moved, Calls, VictimOK, Sampling
  <2> QED
    BY <1>1, <2>1, <2>2, <2>3, SMT DEF Calls, VictimOK
<1> QED
  BY <1>3, <1>4, <1>7, <1>9, <1>10

\* Tables change inside c's own transaction or in nobody's.
Serial(c) ==
  /\ writer \in {None, c} \/ UNCHANGED <<writer, rooted>>
  /\ rooted' \subseteq Ids

\* With the others kept, a step need only look after its own client.
LEMMA Assemble ==
  ASSUME IndInv, NEW c \in Clients, Gentle(c), Serial(c),
         DiskTypes', LocalTypes', PlaceInv', Blank', LeasedTreesWhole',
         tok'[c] \in {0, tok[c]} \/ tok'[c] > issued, Calls(c)'
  PROVE  IndInv'
<1>1. ASSUME NEW b \in Clients \ {c} PROVE ScrubOK(b)'
  BY DEF Gentle, LocalsKept, Serial, IndInv, Calls, ScrubOK, Loop
<1>2. \A b \in Clients : Calls(b)'
  BY <1>1, OthersKeep DEF Calls
<1>3. OwnTokens'
  <2>1. \A b \in Clients \ {c} : tok'[b] = tok[b] /\ tok[b] \in 0..issued
    BY DEF Gentle, LocalsKept, IndInv, Calls, CallOK
  <2> QED
    BY <2>1, SMT DEF IndInv, OwnTokens, DiskTypes
<1> QED
  BY <1>2, <1>3 DEF IndInv, Serial

-----------------------------------------------------------------------------
(* Steps after which the client creates nothing.                           *)
ReapLoops == {"reapTrees", "reapSwaps", "reapRemoved", "reapLeases"}

Settles(c) ==
  /\ \A b \in Clients \ {c} : LocalsKept(b)
  /\ LocalTypes'
  /\ ~Working(c)' /\ tok'[c] \in {0, tok[c]}
  /\ pc'[c] \in {"idle", "stat"} => written'[c] = 0
  /\ pc'[c] = "delTree" => id'[c] \in Ids
  /\ UNCHANGED tokenVars

LEMMA SettlesGently ==
  ASSUME IndInv, NEW c \in Clients, Settles(c), swept \subseteq swept',
         Moved(c), \A b \in Clients \ {c} : Working(b) => Spared(b)
  PROVE  Gentle(c)
<1>1. ~Working(c)' /\ \A b \in Clients \ {c} : LocalsKept(b)
  BY DEF Settles
<1>2. issued' = issued
  BY DEF Settles, tokenVars
<1> QED
  BY <1>1, <1>2, Gently

\* Such a step need only look after the files, its list and its victim.
LEMMA Settled ==
  ASSUME IndInv, NEW c \in Clients, Settles(c), Gentle(c), Serial(c),
         DiskTypes', PlaceInv', Blank', LeasedTreesWhole',
         ScrubOK(c)', TodoOK(c)', VictimOK(c)'
  PROVE  IndInv'
<1>1. ~Working(c)' /\ ~Fresh(c)' /\ pc'[c] \notin {"fill", "swap"}
  BY DEF Settles, Working, Fresh
<1>2. tok'[c] \in 0..issued'
  BY SMT DEF Settles, IndInv, Calls, CallOK, DiskTypes, tokenVars
<1>3. CallOK(c)'
  BY <1>1, <1>2 DEF Settles, CallOK
<1>4. HomeOK(c)' /\ FillOK(c)'
  BY <1>1 DEF HomeOK, FillOK
<1> QED
  BY <1>3, <1>4, Assemble DEF Settles, Calls

\* A client that removes and samples nothing threatens nobody.
LEMMA RestingVictim ==
  ASSUME IndInv, NEW c \in Clients, Settles(c), Gentle(c),
         pc'[c] \notin WipePcs \cup Sampling, victim'[c] = 0
  PROVE  VictimOK(c)'
<1>1. \A k \in Clients : Working(k)' => tok'[k] # 0
  BY OthersKeep DEF Settles, CallOK
<1>2. issued' \in Nat /\ pc'[c] # "wiping"
  BY DEF Gentle, WipePcs
<1> QED
  BY <1>1, <1>2, SMT DEF VictimOK, WipePcs, Sampling

\* A list that only shrinks stays past its creators.
LEMMA ShrinkingTodo ==
  ASSUME IndInv, NEW c \in Clients, Settles(c),
         Loop(c)' = Loop(c), todo'[c] \subseteq todo[c]
  PROVE  TodoOK(c)'
<1>1. TodoOK(c) /\ issued' = issued
  BY DEF IndInv, Calls, Settles, tokenVars
<1>2. \A k \in Clients : /\ Working(k)' => Working(k) /\ tok'[k] = tok[k]
                         /\ Fresh(k)' => Fresh(k) /\ tok'[k] = tok[k]
  BY DEF Settles, LocalsKept, Working, Fresh
<1> QED
  BY <1>1, <1>2 DEF TodoOK

\* A step of the client's own locals.
LEMMA Quiet ==
  ASSUME IndInv, NEW c \in Clients, Settles(c), UNCHANGED diskVars
  PROVE  /\ Gentle(c) /\ DiskTypes' /\ PlaceInv' /\ Blank'
         /\ LeasedTreesWhole'
<1>1. UNCHANGED <<leaseFile, holder, building, staged, removed, content, tree,
                  ref, swept, issued, idOf>>
  BY DEF Settles, diskVars, tokenVars
<1>2. DiskTypes'
  BY <1>1 DEF IndInv, DiskTypes
<1>3. PlaceInv' /\ Blank' /\ LeasedTreesWhole'
  BY <1>1 DEF IndInv, PlaceInv, Placed, Blank, LeasedTreesWhole, Whole
<1>4. Moved(c)
  BY <1>1 DEF Moved
<1>5. ASSUME NEW b \in Clients \ {c} PROVE Spared(b)
  BY <1>1 DEF Spared
<1>6. Gentle(c)
  BY <1>1, <1>4, <1>5, SettlesGently
<1> QED
  BY <1>2, <1>3, <1>6

\* A quiet step outside the reap loops, with nothing to remove.
LEMMA Plain ==
  ASSUME IndInv, NEW c \in Clients, Settles(c), UNCHANGED diskVars, Serial(c),
         pc'[c] \notin WipePcs \cup Sampling \cup ReapLoops, victim'[c] = 0,
         ScrubOK(c)'
  PROVE  IndInv'
<1>1. TodoOK(c)'
  BY DEF TodoOK, Loop, ReapLoops
<1> QED
  BY <1>1, Quiet, Settled, RestingVictim

-----------------------------------------------------------------------------
(* The forms a client's own move takes.                                    *)

\* A client that is in no removal and no sample has no victim.
LEMMA NoVictim ==
  ASSUME IndInv, NEW c \in Clients, pc[c] \notin WipePcs \cup Sampling
  PROVE  victim[c] = 0
  BY DEF IndInv, Calls, VictimOK

\* The call goes on from a new place with a new list.
LEMMA Relisted ==
  ASSUME IndInv, NEW c \in Clients, NEW to,
         NEW td \in SUBSET (Ids \cup Names \cup Tokens),
         pc' = [pc EXCEPT ![c] = to], todo' = [todo EXCEPT ![c] = td],
         UNCHANGED <<back, id, tok, victim, written, tokenVars>>,
         to \notin {"created", "leased", "fill", "swap", "idle", "stat",
                    "delTree"}
  PROVE  /\ Settles(c) /\ pc'[c] = to /\ todo'[c] = td
         /\ victim'[c] = victim[c] /\ back'[c] = back[c]
<1>1. LocalTypes
  BY DEF IndInv
<1>2. LocalTypes' /\ pc'[c] = to /\ todo'[c] = td
  BY <1>1 DEF LocalTypes
<1>3. \A b \in Clients \ {c} : LocalsKept(b)
  BY <1>1 DEF LocalTypes, LocalsKept
<1> QED
  BY <1>2, <1>3 DEF Settles, Working

\* The call goes on from a new place.
LEMMA Went ==
  ASSUME IndInv, NEW c \in Clients, NEW to, pc' = [pc EXCEPT ![c] = to],
         UNCHANGED <<back, id, tok, victim, written, todo, tokenVars>>,
         to \notin {"created", "leased", "fill", "swap", "idle", "stat",
                    "delTree"}
  PROVE  /\ Settles(c) /\ pc'[c] = to /\ todo'[c] = todo[c]
         /\ victim'[c] = victim[c] /\ back'[c] = back[c]
<1>1. todo' = [todo EXCEPT ![c] = todo[c]]
      /\ todo[c] \in SUBSET (Ids \cup Names \cup Tokens)
  BY DEF IndInv, LocalTypes
<1> QED
  BY <1>1, Relisted

\* The call is over.
LEMMA Returned ==
  ASSUME IndInv, NEW c \in Clients, Return(c), UNCHANGED tokenVars
  PROVE  Settles(c) /\ pc'[c] = "idle" /\ victim'[c] = 0
<1>1. LocalTypes
  BY DEF IndInv
<1>2. LocalTypes' /\ pc'[c] = "idle" /\ victim'[c] = 0 /\ tok'[c] = 0
      /\ written'[c] = 0
  BY <1>1 DEF LocalTypes, Return
<1>3. \A b \in Clients \ {c} : LocalsKept(b)
  BY <1>1 DEF LocalTypes, LocalsKept, Return
<1> QED
  BY <1>2, <1>3 DEF Settles, Working

\* A removal starts, with a list that may have shrunk.
LEMMA Wiped ==
  ASSUME IndInv, NEW c \in Clients, NEW t \in Nat, NEW next, Wipe(c, t, next),
         NEW td, td \subseteq todo[c], todo' = [todo EXCEPT ![c] = td],
         UNCHANGED <<id, tok, written, tokenVars>>
  PROVE  /\ Settles(c) /\ pc'[c] = "open" /\ victim'[c] = t
         /\ back'[c] = next /\ todo'[c] = td
<1>1. LocalTypes
  BY DEF IndInv
<1>2. LocalTypes' /\ pc'[c] = "open" /\ victim'[c] = t /\ back'[c] = next
      /\ todo'[c] = td
  BY <1>1 DEF LocalTypes, Wipe
<1>3. \A b \in Clients \ {c} : LocalsKept(b)
  BY <1>1 DEF LocalTypes, LocalsKept, Wipe
<1> QED
  BY <1>2, <1>3 DEF Settles, Working

\* A removal, or what a sample led to, is over.
LEMMA WipedOut ==
  ASSUME IndInv, NEW c \in Clients, pc[c] \in WipePcs \cup Sampling,
         WipeDone(c), UNCHANGED <<id, tok, written, todo, tokenVars>>
  PROVE  /\ Settles(c) /\ pc'[c] = back[c] /\ victim'[c] = 0
         /\ pc'[c] \notin WipePcs \cup Sampling
         /\ Loop(c)' = Loop(c) /\ todo'[c] = todo[c]
<1>1. LocalTypes /\ VictimOK(c)
  BY DEF IndInv, Calls
<1>2. LocalTypes' /\ pc'[c] = back[c] /\ victim'[c] = 0 /\ tok'[c] = tok[c]
      /\ todo'[c] = todo[c]
  BY <1>1 DEF LocalTypes, WipeDone
<1>3. \A b \in Clients \ {c} : LocalsKept(b)
  BY <1>1 DEF LocalTypes, LocalsKept, WipeDone
<1>4. back[c] \notin {"created", "leased", "fill", "swap", "idle", "stat",
                       "delTree"} \cup WipePcs \cup Sampling
  BY <1>1 DEF VictimOK, WipePcs, Sampling
<1> QED
  BY <1>2, <1>3, <1>4 DEF Settles, Working, Loop

-----------------------------------------------------------------------------
(* Actions that change no file: each moves its own call on.                *)

\* Outside the scrub's transaction there is nothing to say of it.
LEMMA OutsideScrub ==
  ASSUME NEW c \in Clients, UNCHANGED <<writer, rooted>>, IndInv,
         Loop(c)' \notin {"scrubTrees", "scrubRefs", "dangling"}
  PROVE  Serial(c) /\ ScrubOK(c)'
  BY DEF Serial, ScrubOK, IndInv

\* A scrub that stays in its loop stays in its transaction.
LEMMA SameScrub ==
  ASSUME NEW c \in Clients, UNCHANGED <<writer, rooted>>, IndInv,
         Loop(c)' = Loop(c), todo'[c] \subseteq todo[c]
  PROVE  Serial(c) /\ ScrubOK(c)'
  BY DEF Serial, ScrubOK, IndInv, Calls

\* project up to its lease, and where it gives up.
LEMMA ProjectQuiet ==
  ASSUME IndInv, NEW c \in Clients,
         \/ \E i \in Ids : ProjectBegin(c, i)
         \/ ProjectExists(c) \/ FillFail(c) \/ RenameLost(c)
  PROVE  IndInv'
<1> USE DEF WipePcs, Sampling, ReapLoops
<1>1. ASSUME NEW i \in Ids, ProjectBegin(c, i) PROVE IndInv'
  <2>1. LocalTypes /\ CallOK(c) /\ pc[c] = "idle"
    BY <1>1 DEF IndInv, Calls, ProjectBegin, Start, Goto
  <2>2. /\ UNCHANGED <<back, tok, victim, written, todo, tokenVars, diskVars,
                       writer, rooted>>
        /\ pc' = [pc EXCEPT ![c] = "stat"] /\ id' = [id EXCEPT ![c] = i]
    BY <1>1 DEF ProjectBegin, Start, Goto, loopVars, wipeVars, rootVars
  <2>3. /\ LocalTypes' /\ pc'[c] = "stat"
        /\ \A b \in Clients \ {c} : LocalsKept(b)
    BY <2>1, <2>2 DEF LocalTypes, LocalsKept
  <2>4. Settles(c) /\ victim'[c] = 0
    BY <2>1, <2>2, <2>3, NoVictim DEF Settles, Working, CallOK
  <2> QED
    BY <2>2, <2>3, <2>4, Plain, OutsideScrub DEF Loop
<1>2. ASSUME ProjectExists(c) PROVE IndInv'
  BY <1>2, Returned, Plain, OutsideScrub DEF ProjectExists, rootVars, Loop
<1>3. ASSUME FillFail(c) \/ RenameLost(c) PROVE IndInv'
  <2>1. /\ pc[c] = "fill" /\ pc' = [pc EXCEPT ![c] = "cleanup"]
        /\ UNCHANGED <<back, id, tok, victim, written, todo, tokenVars,
                       diskVars, writer, rooted>>
    BY <1>3 DEF FillFail, RenameLost, Goto, loopVars, wipeVars, argVars,
         rootVars
  <2>2. Settles(c) /\ pc'[c] = "cleanup" /\ victim'[c] = 0
    BY <2>1, Went, NoVictim
  <2> QED
    BY <2>1, <2>2, Plain, OutsideScrub DEF Loop
<1> QED
  BY <1>1, <1>2, <1>3

\* set_ref without its staged file, and a lease that could not be locked.
LEMMA LeaseQuiet ==
  ASSUME IndInv, NEW c \in Clients, SwapLost(c) \/ LeaseRefused(c)
  PROVE  IndInv'
<1> USE DEF WipePcs, Sampling, ReapLoops
<1>1. ASSUME SwapLost(c) PROVE IndInv'
  <2>1. /\ pc[c] = "swap" /\ pc' = [pc EXCEPT ![c] = "unlease"]
        /\ UNCHANGED <<back, id, tok, victim, written, todo, tokenVars,
                       diskVars, writer, rooted>>
    BY <1>1 DEF SwapLost, Goto, loopVars, wipeVars, argVars, rootVars
  <2>2. Settles(c) /\ pc'[c] = "unlease" /\ victim'[c] = 0
    BY <2>1, Went, NoVictim
  <2> QED
    BY <2>1, <2>2, Plain, OutsideScrub DEF Loop
<1>2. ASSUME LeaseRefused(c) PROVE IndInv'
  BY <1>2, Returned, Plain, OutsideScrub DEF LeaseRefused, rootVars, Loop
<1> QED
  BY <1>1, <1>2

\* delete_snapshot's row and its reading of the refs.
LEMMA DeleteQuiet ==
  ASSUME IndInv, NEW c \in Clients,
         \/ \E i \in Ids : DeleteRow(c, i)
         \/ DeleteList(c) \/ DeleteRefs(c) \/ DeleteEnd(c)
         \/ \E n \in Names : DeleteRead(c, n)
  PROVE  IndInv'
<1> USE DEF WipePcs, Sampling, ReapLoops
<1>1. ASSUME NEW i \in Ids, DeleteRow(c, i) PROVE IndInv'
  <2>1. LocalTypes /\ CallOK(c) /\ pc[c] = "idle" /\ rooted \subseteq Ids
    BY <1>1 DEF IndInv, Calls, DeleteRow, Start, Goto
  <2>2. /\ UNCHANGED <<back, tok, victim, written, todo, tokenVars, diskVars>>
        /\ pc' = [pc EXCEPT ![c] = "delTree"] /\ id' = [id EXCEPT ![c] = i]
        /\ writer = None /\ rooted' = rooted \ {i}
    BY <1>1 DEF DeleteRow, Start, Goto, Transact, loopVars, wipeVars, rootVars
  <2>3. LocalTypes' /\ pc'[c] = "delTree"
        /\ \A b \in Clients \ {c} : LocalsKept(b)
    BY <2>1, <2>2 DEF LocalTypes, LocalsKept
  <2>4. Settles(c) /\ victim'[c] = 0
    BY <2>1, <2>2, <2>3, NoVictim DEF Settles, Working, LocalTypes
  <2>5. Serial(c) /\ ScrubOK(c)'
    BY <2>1, <2>2, <2>3 DEF Serial, ScrubOK, Loop
  <2> QED
    BY <2>2, <2>3, <2>4, <2>5, Plain
<1>2. ASSUME DeleteList(c) PROVE IndInv'
  <2>1. /\ pc[c] = "delList" /\ pc' = [pc EXCEPT ![c] = "delRead"]
        /\ todo' = [todo EXCEPT ![c] = {n \in Names : ref[n] # 0}]
        /\ UNCHANGED <<back, id, tok, victim, written, tokenVars, diskVars,
                       writer, rooted>>
    BY <1>2 DEF DeleteList, Goto, wipeVars, argVars, rootVars
  <2>2. {n \in Names : ref[n] # 0} \in SUBSET (Ids \cup Names \cup Tokens)
    OBVIOUS
  <2>3. Settles(c) /\ pc'[c] = "delRead" /\ victim'[c] = victim[c]
    BY <2>1, <2>2, Relisted
  <2> QED
    BY <2>1, <2>3, NoVictim, Plain, OutsideScrub DEF Loop
<1>3. ASSUME DeleteRefs(c) PROVE IndInv'
  <2>1. /\ pc[c] = "delRead" /\ pc' = [pc EXCEPT ![c] = "delRefs"]
        /\ UNCHANGED <<back, id, tok, victim, written, todo, tokenVars,
                       diskVars, writer, rooted>>
    BY <1>3 DEF DeleteRefs, Goto, loopVars, wipeVars, argVars, rootVars
  <2>2. Settles(c) /\ pc'[c] = "delRefs" /\ victim'[c] = 0
    BY <2>1, Went, NoVictim
  <2> QED
    BY <2>1, <2>2, Plain, OutsideScrub DEF Loop
<1>4. ASSUME DeleteEnd(c) PROVE IndInv'
  BY <1>4, Returned, Plain, OutsideScrub DEF DeleteEnd, rootVars, Loop
<1>5. ASSUME NEW n \in Names, DeleteRead(c, n) PROVE IndInv'
  <2>1. /\ pc[c] = "delRead" /\ UNCHANGED pc
        /\ todo' = [todo EXCEPT ![c] = todo[c] \ {n}]
        /\ UNCHANGED <<back, id, tok, victim, written, tokenVars, diskVars,
                       writer, rooted>>
    BY <1>5 DEF DeleteRead, wipeVars, argVars, rootVars
  <2>2. /\ pc' = [pc EXCEPT ![c] = "delRead"]
        /\ todo[c] \ {n} \in SUBSET (Ids \cup Names \cup Tokens)
    BY <2>1 DEF IndInv, LocalTypes
  <2>3. Settles(c) /\ pc'[c] = "delRead" /\ victim'[c] = victim[c]
    BY <2>1, <2>2, Relisted
  <2> QED
    BY <2>1, <2>3, NoVictim, Plain, OutsideScrub DEF Loop
<1> QED
  BY <1>1, <1>2, <1>3, <1>4, <1>5

\* scrub's transaction around the removals.
LEMMA ScrubQuiet ==
  ASSUME IndInv, NEW c \in Clients,
         \/ ScrubBegin(c) \/ ScrubRefs(c) \/ ScrubCommit(c)
         \/ \E n \in Names : ScrubRead(c, n)
  PROVE  IndInv'
<1> USE DEF WipePcs, Sampling, ReapLoops
<1>0. ScrubOK(c) /\ rooted \subseteq Ids
  BY DEF IndInv, Calls
<1>1. ASSUME ScrubBegin(c) PROVE IndInv'
  <2> DEFINE td == {i \in Ids \ rooted : tree[i] # 0}
  <2>1. /\ pc[c] = "idle" /\ pc' = [pc EXCEPT ![c] = "scrubTrees"]
        /\ todo' = [todo EXCEPT ![c] = td]
        /\ UNCHANGED <<back, id, tok, victim, written, tokenVars, diskVars>>
    BY <1>1 DEF ScrubBegin, Start, Goto, wipeVars, argVars
  <2>2. writer = None /\ writer' = c /\ rooted' = rooted
    BY <1>1 DEF ScrubBegin, Transact
  <2>3. td \in SUBSET (Ids \cup Names \cup Tokens)
    OBVIOUS
  <2>4. td \cap rooted = {}
    OBVIOUS
  <2> HIDE DEF td
  <2>5. Settles(c) /\ pc'[c] = "scrubTrees" /\ victim'[c] = victim[c]
    BY <2>1, <2>3, Relisted
  <2>6. todo'[c] = td
    BY <2>1 DEF IndInv, LocalTypes
  <2>7. Serial(c) /\ ScrubOK(c)'
    BY <1>0, <2>2, <2>4, <2>5, <2>6 DEF Serial, ScrubOK, Loop
  <2> QED
    BY <2>1, <2>5, <2>7, NoVictim, Plain
<1>2. ASSUME ScrubRefs(c) PROVE IndInv'
  <2> DEFINE td == {n \in Names : ref[n] # 0}
  <2>1. /\ pc[c] = "scrubTrees" /\ pc' = [pc EXCEPT ![c] = "scrubRefs"]
        /\ todo' = [todo EXCEPT ![c] = td]
        /\ UNCHANGED <<back, id, tok, victim, written, tokenVars, diskVars,
                       rooted, writer>>
    BY <1>2 DEF ScrubRefs, Goto, wipeVars, argVars, rootVars
  <2>2. td \in SUBSET (Ids \cup Names \cup Tokens)
    OBVIOUS
  <2> HIDE DEF td
  <2>3. Settles(c) /\ pc'[c] = "scrubRefs" /\ victim'[c] = victim[c]
    BY <2>1, <2>2, Relisted
  <2>4. Serial(c) /\ ScrubOK(c)'
    BY <1>0, <2>1, <2>3 DEF Serial, ScrubOK, Loop
  <2> QED
    BY <2>1, <2>3, <2>4, NoVictim, Plain
<1>3. ASSUME ScrubCommit(c) PROVE IndInv'
  <2>1. /\ pc[c] = "scrubRefs" /\ pc' = [pc EXCEPT ![c] = "reap"]
        /\ UNCHANGED <<back, id, tok, victim, written, todo, tokenVars,
                       diskVars, rooted>>
    BY <1>3 DEF ScrubCommit, Goto, loopVars, wipeVars, argVars
  <2>2. Settles(c) /\ pc'[c] = "reap" /\ victim'[c] = 0
    BY <2>1, Went, NoVictim
  <2>3. Serial(c) /\ ScrubOK(c)'
    BY <1>0, <2>1, <2>2 DEF Serial, ScrubOK, Loop
  <2> QED
    BY <2>1, <2>2, <2>3, Plain
<1>4. ASSUME NEW n \in Names, ScrubRead(c, n) PROVE IndInv'
  <2> DEFINE to == IF Dangling(c, n) THEN "dangling" ELSE "scrubRefs"
  <2>1. /\ pc[c] = "scrubRefs" /\ pc' = [pc EXCEPT ![c] = to]
        /\ todo' = [todo EXCEPT ![c] = todo[c] \ {n}]
        /\ UNCHANGED <<back, id, tok, victim, written, tokenVars, diskVars,
                       rooted, writer>>
    BY <1>4 DEF ScrubRead, wipeVars, argVars, rootVars
  <2>2. to \in {"dangling", "scrubRefs"}
    OBVIOUS
  <2> HIDE DEF to
  <2>3. todo[c] \ {n} \in SUBSET (Ids \cup Names \cup Tokens)
    BY DEF IndInv, LocalTypes
  <2>4. Settles(c) /\ pc'[c] = to /\ victim'[c] = victim[c]
    BY <2>1, <2>2, <2>3, Relisted
  <2>5. Serial(c) /\ ScrubOK(c)'
    BY <1>0, <2>1, <2>2, <2>4 DEF Serial, ScrubOK, Loop
  <2> QED
    BY <2>1, <2>2, <2>4, <2>5, NoVictim, Plain
<1> QED
  BY <1>1, <1>2, <1>3, <1>4

\* A reap's listings: what has a scratch name is past its creation, and
\* what has a .removed- name is past its creator.
LEMMA ReapLists ==
  ASSUME IndInv, NEW c \in Clients,
         ReapTrees(c) \/ ReapSwaps(c) \/ ReapRemoved(c) \/ ReapLeases(c)
  PROVE  IndInv'
<1>1. /\ \A k \in Clients : HomeOK(k)
      /\ building \cup staged \cup removed \cup leaseFile \subseteq 1..issued
      /\ 1..issued \subseteq Tokens
  BY SMT DEF IndInv, Calls, DiskTypes, Tokens
<1>2. ASSUME NEW from \in {"reap"} \cup ReapLoops, NEW to \in ReapLoops,
             NEW found, found \subseteq 1..issued,
             ReapList(c, from, to, found),
             to \in {"reapTrees", "reapSwaps"} =>
               \A k \in Clients : Fresh(k) => tok[k] \notin found,
             to = "reapRemoved" =>
               \A k \in Clients : Working(k) => tok[k] \notin found
      PROVE  IndInv'
  <2>1. /\ pc[c] = from /\ pc' = [pc EXCEPT ![c] = to]
        /\ todo' = [todo EXCEPT ![c] = found]
        /\ UNCHANGED <<back, id, tok, victim, written, tokenVars, diskVars,
                       rooted, writer>>
    BY <1>2 DEF ReapList, Goto, wipeVars, argVars, rootVars
  <2>2. /\ Settles(c) /\ pc'[c] = to /\ victim'[c] = victim[c]
        /\ todo'[c] = found
    BY <1>1, <1>2, <2>1, Relisted DEF ReapLoops
  <2>3. victim'[c] = 0 /\ pc'[c] \notin WipePcs \cup Sampling
    BY <2>1, <2>2, NoVictim DEF ReapLoops, WipePcs, Sampling
  <2>4. Loop(c)' = to
    BY <2>2, <2>3 DEF Loop
  <2>5. \A k \in Clients : /\ Working(k)' => Working(k) /\ tok'[k] = tok[k]
                           /\ Fresh(k)' => Fresh(k) /\ tok'[k] = tok[k]
    BY <2>2 DEF Settles, LocalsKept, Working, Fresh
  <2>6. TodoOK(c)'
    BY <1>2, <2>1, <2>2, <2>4, <2>5 DEF TodoOK, tokenVars
  <2>7. Serial(c) /\ ScrubOK(c)'
    BY <2>1, <2>4, OutsideScrub DEF ReapLoops
  <2> QED
    BY <2>1, <2>2, <2>3, <2>6, <2>7, Quiet, Settled, RestingVictim
<1>3. ASSUME ReapTrees(c) PROVE IndInv'
  BY <1>1, <1>2, <1>3 DEF ReapTrees, ReapLoops, HomeOK
<1>4. ASSUME ReapSwaps(c) PROVE IndInv'
  BY <1>1, <1>2, <1>4 DEF ReapSwaps, ReapLoops, HomeOK
<1>5. ASSUME ReapRemoved(c) PROVE IndInv'
  BY <1>1, <1>2, <1>5 DEF ReapRemoved, ReapLoops, HomeOK
<1>6. ASSUME ReapLeases(c) PROVE IndInv'
  BY <1>1, <1>2, <1>6 DEF ReapLeases, ReapLoops
<1> QED
  BY <1>3, <1>4, <1>5, <1>6

\* A sample of token t, whatever its answer: the call's own locals.
LEMMA Sampled ==
  ASSUME IndInv, NEW c \in Clients, NEW t \in Tokens, NEW to \in Sampling,
         pc[c] \in {"reapTrees", "reapSwaps", "reapLeases"}, t \in todo[c],
         todo' = [todo EXCEPT ![c] = todo[c] \ {t}],
         victim' = [victim EXCEPT ![c] = t],
         back' = [back EXCEPT ![c] = pc[c]], pc' = [pc EXCEPT ![c] = to],
         UNCHANGED <<id, tok, written, tokenVars>>
  PROVE  /\ Settles(c) /\ TodoOK(c)' /\ Loop(c)' = pc[c]
         /\ pc'[c] = to /\ back'[c] = pc[c] /\ victim'[c] = t
         /\ t \in 1..issued
<1>1. LocalTypes /\ TodoOK(c) /\ t \in Nat
  BY SMT DEF IndInv, Calls, Tokens
<1>2. pc' = [k \in Clients |-> pc'[k]] /\ back' = [k \in Clients |-> back'[k]]
      /\ pc'[c] = to /\ back'[c] = pc[c]
  BY <1>1 DEF LocalTypes
<1>3. /\ victim' \in [Clients -> Nat] /\ victim'[c] = t
      /\ todo' \in [Clients -> SUBSET (Ids \cup Names \cup Tokens)]
      /\ todo'[c] \subseteq todo[c]
  BY <1>1 DEF LocalTypes
<1>4. LocalTypes'
  BY <1>1, <1>2, <1>3 DEF LocalTypes
<1>5. \A b \in Clients \ {c} : LocalsKept(b)
  BY <1>1 DEF LocalTypes, LocalsKept
<1>6. Settles(c)
  BY <1>2, <1>4, <1>5 DEF Settles, Working, Sampling
<1>7. Loop(c) = pc[c] /\ Loop(c)' = pc[c]
  BY <1>2 DEF Loop, WipePcs, Sampling
<1>8. t \in 1..issued
  BY <1>1, <1>7 DEF TodoOK
<1> QED
  BY <1>2, <1>3, <1>6, <1>7, <1>8, ShrinkingTodo

\* A reap's decisions that touch no file: a lease found absent has no
\* working creator, or it was swept.
LEMMA ReapQuiet ==
  ASSUME IndInv, NEW c \in Clients,
         \/ \E t \in Tokens : SampleAbsent(c, t) \/ SampleHeld(c, t)
         \/ ReapEnd(c)
  PROVE  IndInv'
<1>1. ASSUME NEW t \in Tokens, SampleAbsent(c, t) PROVE IndInv'
  <2>1. /\ pc[c] \in {"reapTrees", "reapSwaps", "reapLeases"}
        /\ t \in todo[c] /\ t \notin leaseFile
        /\ todo' = [todo EXCEPT ![c] = todo[c] \ {t}]
        /\ victim' = [victim EXCEPT ![c] = t]
        /\ back' = [back EXCEPT ![c] = pc[c]]
        /\ pc' = [pc EXCEPT ![c] = "doomed"]
        /\ UNCHANGED <<id, tok, written, tokenVars, diskVars, writer, rooted>>
    BY <1>1 DEF SampleAbsent, argVars, rootVars
  <2>2. /\ Settles(c) /\ TodoOK(c)' /\ Loop(c)' = pc[c]
        /\ pc'[c] = "doomed" /\ back'[c] = pc[c] /\ victim'[c] = t
        /\ t \in 1..issued
    BY <2>1, Sampled DEF Sampling
  <2>3. ASSUME NEW k \in Clients, Working(k)', tok'[k] \notin swept'
        PROVE  tok'[k] # t
    <3>1. k # c /\ LocalsKept(k) /\ CallOK(k) /\ swept' = swept
      BY <2>1, <2>2, <2>3 DEF Settles, IndInv, Calls, diskVars
    <3> QED
      BY <2>1, <2>3, <3>1 DEF CallOK, LocalsKept, Working
  <2>4. VictimOK(c)'
    BY <2>1, <2>2, <2>3, SMT DEF VictimOK, WipePcs, Sampling, tokenVars
  <2> QED
    BY <2>1, <2>2, <2>4, Quiet, Settled, OutsideScrub
<1>2. ASSUME NEW t \in Tokens, SampleHeld(c, t) PROVE IndInv'
  <2>1. /\ pc[c] \in {"reapTrees", "reapSwaps", "reapLeases"} /\ pc' = pc
        /\ todo' = [todo EXCEPT ![c] = todo[c] \ {t}]
        /\ UNCHANGED <<back, id, tok, victim, written, tokenVars, diskVars,
                       writer, rooted>>
    BY <1>2 DEF SampleHeld, argVars, wipeVars, rootVars
  <2>2. /\ pc' = [pc EXCEPT ![c] = pc[c]]
        /\ todo[c] \ {t} \in SUBSET (Ids \cup Names \cup Tokens)
    BY <2>1 DEF IndInv, LocalTypes
  <2>3. Settles(c) /\ victim'[c] = victim[c] /\ todo'[c] = todo[c] \ {t}
    BY <2>1, <2>2, Relisted, ZenonT(30)
  <2>4. /\ pc[c] \notin WipePcs \cup Sampling
        /\ Loop(c)' = Loop(c) /\ Loop(c) = pc[c]
    BY <2>1 DEF Loop, WipePcs, Sampling
  <2>5. TodoOK(c)' /\ Serial(c) /\ ScrubOK(c)'
    BY <2>1, <2>3, <2>4, ShrinkingTodo, OutsideScrub
  <2> QED
    BY <2>1, <2>3, <2>4, <2>5, Quiet, Settled, NoVictim, RestingVictim
<1>3. ASSUME ReapEnd(c) PROVE IndInv'
  BY <1>3, Returned, Plain, OutsideScrub
     DEF ReapEnd, rootVars, Loop, WipePcs, Sampling, ReapLoops
<1> QED
  BY <1>1, <1>2, <1>3

\* A removal may start on an inode no working creator owns.
LEMMA WipeStarts ==
  ASSUME IndInv, NEW c \in Clients, NEW t \in 0..issued,
         NEW next \in {"unlease", "delList", "delRefs", "scrubTrees",
                       "scrubRefs", "reapTrees", "reapRemoved"},
         Settles(c), pc'[c] = "open", victim'[c] = t, back'[c] = next,
         \A k \in Clients \ {c} :
           Working(k) /\ tok[k] \notin swept' => tok[k] # t
  PROVE  VictimOK(c)' /\ Loop(c)' = next
<1>1. issued' = issued
  BY DEF Settles, tokenVars
<1>2. \A k \in Clients : Working(k)' =>
        k # c /\ Working(k) /\ tok'[k] = tok[k]
  BY DEF Settles, LocalsKept, Working
<1> QED
  BY <1>1, <1>2 DEF VictimOK, WipePcs, Sampling, Loop

\* The removals of a projection's, a dead creator's and an unlinked scratch
\* start, and removals are opened and given up.
LEMMA WipeQuiet ==
  ASSUME IndInv, NEW c \in Clients,
         \/ Cleanup(c) \/ ReapTree(c) \/ WipeOpen(c) \/ WipeFail(c)
         \/ \E t \in Tokens : ReapUnlinked(c, t)
  PROVE  IndInv'
<1>0. /\ LocalTypes /\ OwnTokens /\ TodoOK(c) /\ VictimOK(c) /\ ScrubOK(c)
      /\ rooted \subseteq Ids
      /\ \A k \in Clients : CallOK(k) /\ (Working(k) => tok[k] # 0)
      /\ todo' = todo => todo' = [todo EXCEPT ![c] = todo[c]]
  BY DEF IndInv, Calls, CallOK, LocalTypes
<1>1. ASSUME Cleanup(c) PROVE IndInv'
  <2>1. /\ pc[c] = "cleanup" /\ Wipe(c, tok[c], "unlease") /\ todo' = todo
        /\ UNCHANGED <<id, tok, written, tokenVars, diskVars, writer, rooted>>
    BY <1>1 DEF Cleanup, argVars, loopVars, rootVars
  <2>2. /\ Settles(c) /\ pc'[c] = "open" /\ victim'[c] = tok[c]
        /\ back'[c] = "unlease"
    BY <1>0, <2>1, Wiped, SMT DEF LocalTypes
  <2>3. tok[c] \in 0..issued
        /\ \A k \in Clients \ {c} : Working(k) => tok[k] # tok[c]
    BY <1>0 DEF CallOK, OwnTokens
  <2>4. VictimOK(c)' /\ Loop(c)' = "unlease"
    BY <2>2, <2>3, WipeStarts
  <2>5. TodoOK(c)'
    BY <2>4 DEF TodoOK
  <2> QED
    BY <2>1, <2>2, <2>4, <2>5, Quiet, Settled, OutsideScrub
<1>2. ASSUME ReapTree(c) PROVE IndInv'
  <2>1. /\ pc[c] = "doomed" /\ back[c] = "reapTrees" /\ todo' = todo
        /\ Wipe(c, victim[c], "reapTrees")
        /\ UNCHANGED <<id, tok, written, tokenVars, diskVars, writer, rooted>>
    BY <1>2 DEF ReapTree, argVars, loopVars, rootVars
  <2>2. /\ Settles(c) /\ pc'[c] = "open" /\ victim'[c] = victim[c]
        /\ back'[c] = "reapTrees" /\ todo'[c] = todo[c]
    BY <1>0, <2>1, Wiped DEF LocalTypes
  <2>3. victim[c] \in 0..issued /\ \A k \in Clients \ {c} :
          Working(k) /\ tok[k] \notin swept' => tok[k] # victim[c]
    BY <1>0, <2>1 DEF VictimOK, diskVars
  <2>4. VictimOK(c)' /\ Loop(c)' = "reapTrees"
    BY <2>2, <2>3, WipeStarts
  <2>5. TodoOK(c)'
    BY <2>1, <2>2, <2>4, ShrinkingTodo DEF Loop, Sampling
  <2> QED
    BY <2>1, <2>2, <2>4, <2>5, Quiet, Settled, OutsideScrub
<1>3. ASSUME NEW t \in Tokens, ReapUnlinked(c, t) PROVE IndInv'
  <2>1. /\ pc[c] = "reapRemoved" /\ t \in todo[c] /\ t \in Nat
        /\ Wipe(c, t, "reapRemoved")
        /\ todo' = [todo EXCEPT ![c] = todo[c] \ {t}]
        /\ UNCHANGED <<id, tok, written, tokenVars, diskVars, writer, rooted>>
    BY <1>3, SMT DEF ReapUnlinked, argVars, rootVars, Tokens
  <2>2. Loop(c) = "reapRemoved"
    BY <2>1 DEF Loop, WipePcs, Sampling
  <2>3. /\ Settles(c) /\ pc'[c] = "open" /\ victim'[c] = t
        /\ back'[c] = "reapRemoved" /\ todo'[c] = todo[c] \ {t}
    BY <2>1, Wiped, ZenonT(30)
  <2>4. t \in 0..issued /\ \A k \in Clients \ {c} : Working(k) => tok[k] # t
    BY <1>0, <2>1, <2>2, SMT DEF TodoOK
  <2>5. VictimOK(c)' /\ Loop(c)' = "reapRemoved"
    BY <2>3, <2>4, WipeStarts
  <2>6. TodoOK(c)'
    BY <2>2, <2>3, <2>5, ShrinkingTodo
  <2> QED
    BY <2>1, <2>3, <2>5, <2>6, Quiet, Settled, OutsideScrub
<1>4. ASSUME WipeOpen(c) PROVE IndInv'
  <2>1. /\ pc[c] = "open" /\ pc' = [pc EXCEPT ![c] = "wiping"]
        /\ victim[c] \in building \cup removed
        /\ UNCHANGED <<back, id, tok, victim, written, todo, tokenVars,
                       diskVars, writer, rooted>>
    BY <1>4 DEF WipeOpen, Goto, Named, argVars, loopVars, wipeVars, rootVars
  <2>2. /\ Settles(c) /\ pc'[c] = "wiping" /\ victim'[c] = victim[c]
        /\ back'[c] = back[c] /\ todo'[c] = todo[c]
    BY <2>1, Went
  <2>3. Loop(c)' = Loop(c)
    BY <2>1, <2>2 DEF Loop, WipePcs
  <2>4. \A i \in Ids : tree'[i] # victim[c]
    BY <2>1 DEF IndInv, PlaceInv, Placed, diskVars
  <2>5. \A k \in Clients : Working(k)' => Working(k) /\ tok'[k] = tok[k]
    BY <2>2 DEF Settles, LocalsKept, Working
  <2>6. VictimOK(c)'
    BY <1>0, <2>1, <2>2, <2>4, <2>5
       DEF VictimOK, WipePcs, Sampling, tokenVars, diskVars
  <2> QED
    BY <2>1, <2>2, <2>3, <2>6, ShrinkingTodo, SameScrub, Quiet, Settled
<1>5. ASSUME WipeFail(c) PROVE IndInv'
  <2>1. /\ pc[c] \in WipePcs /\ WipeDone(c)
        /\ UNCHANGED <<id, tok, written, todo, tokenVars, diskVars, writer,
                       rooted>>
    BY <1>5 DEF WipeFail, WipePcs, argVars, loopVars, rootVars
  <2>2. /\ Settles(c) /\ victim'[c] = 0
        /\ pc'[c] \notin WipePcs \cup Sampling
        /\ Loop(c)' = Loop(c) /\ todo'[c] = todo[c]
    BY <2>1, WipedOut
  <2> QED
    BY <2>1, <2>2, ShrinkingTodo, SameScrub, Quiet, RestingVictim, Settled
<1> QED
  BY <1>1, <1>2, <1>3, <1>4, <1>5
=============================================================================
