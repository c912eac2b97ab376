----------------------------- MODULE SyncProofs -----------------------------
(***************************************************************************)
(* Theorems about Sync: progress is true, nothing is moved twice and Ok    *)
(* means done.  Each follows from IndInv, whose preservation has a lemma   *)
(* per action: XKeeps for the actions that return no Ok, XTells for the    *)
(* two that may.  The lemmas before them say what the remote and the store *)
(* may do under a call (Grows) and what a call may become.                 *)
(***************************************************************************)
EXTENDS Sync, TLAPS, WellFoundedInduction, FiniteSetTheorems

USE SyncAssumption, Zenon

-----------------------------------------------------------------------------
(* Numbers.                                                                *)

\* The minimum of a nonempty set of numbers is its least member.
LEMMA Least ==
  ASSUME NEW S \in SUBSET Nat, S # {}
  PROVE  Min(S) \in S /\ \A n \in S : Min(S) <= n
<1> DEFINE R == OpToRel(<, Nat)
<1>1. IsWellFoundedOn(R, Nat)
  BY NatLessThanWellFounded
<1>2. \A x, y \in Nat : x < y => <<x, y>> \in R
  BY DEF OpToRel
<1> HIDE DEF R
<1>3. PICK x \in S : \A y \in S : ~ (<<y, x>> \in R)
  BY <1>1, WFMin
<1>4. \A y \in S : ~(y < x)
  BY <1>2, <1>3
<1>5. \A y \in S : x <= y
  BY <1>4, SMT
<1> QED BY <1>5 DEF Min

\* The objects of the closure are its places, and each has a length.
LEMMA Objects_Numbers ==
  /\ Objects \subseteq Nat /\ Blobs \subseteq Objects
  /\ \A o \in Objects : Length[o] \in Nat
<1>1. Objects = 1..Len(Length)
  BY SMT DEF SyncAssumption, Objects
<1>2. Blobs \subseteq Objects
  BY DEF Blobs
<1>3. \A o \in Objects : Length[o] \in Nat
  BY <1>1, SMT DEF SyncAssumption
<1> QED BY <1>1, <1>2, <1>3, SMT

\* The first object of a list is in the list, and no other comes before it.
LEMMA FirstIn ==
  ASSUME NEW S, S \subseteq Objects, S # {}
  PROVE  First(S) \in S /\ \A o \in S : First(S) <= o
BY Least, Objects_Numbers DEF First

\* A chunk of a list is part of it, and is empty only if the list is.
LEMMA FirstOfIn ==
  ASSUME NEW S, S \subseteq Objects
  PROVE  /\ FirstOf(S, GrantBatch) \subseteq S
         /\ S # {} => FirstOf(S, GrantBatch) # {}
<1>1. FirstOf(S, GrantBatch) \subseteq S
  BY DEF FirstOf
<1>2. ASSUME S # {} PROVE First(S) \in FirstOf(S, GrantBatch)
  <2>0. \A p \in S : p \in Nat /\ First(S) \in Nat /\ First(S) <= p
    BY <1>2, FirstIn, Objects_Numbers
  <2>1. \A p \in S : ~(p < First(S))
    BY <2>0, SMT
  <2>2. {p \in S : p < First(S)} = {}
    BY <2>1
  <2>3. Cardinality({p \in S : p < First(S)}) = 0
    BY <2>2, FS_EmptySet
  <2>4. Cardinality({p \in S : p < First(S)}) < GrantBatch
    BY <2>3, SMT DEF SyncAssumption
  <2> QED BY <1>2, <2>4, FirstIn DEF FirstOf
<1> QED BY <1>1, <1>2

\* A pack is cut from what is still to be sent.
LEMMA PackIn == Pack \subseteq call.unsent
BY DEF Pack

\* A list that passes verify_lanes names objects of its own lane only.
LEMMA ViewedPacks ==
  ASSUME NEW lane, lane \subseteq Objects, NEW packs \in Views(lane, Blobs),
         NEW blobs, VerifyLanes(packs, blobs)
  PROVE  Digests(packs) \subseteq lane
<1>1. \A i \in DOMAIN packs : /\ packs[i][1] \in Objects
                              /\ packs[i][2] = Length[packs[i][1]]
                              /\ packs[i][2] <= MaxPayload
  BY DEF VerifyLanes, VerifyCanonicalMissing
<1>2. \A i \in DOMAIN packs : packs[i][1] \notin Blobs
  <2>1. \A o \in Objects : Length[o] <= MaxPayload => ~(Length[o] > MaxPayload)
    BY Objects_Numbers, SMT DEF SyncAssumption
  <2> QED BY <1>1, <2>1 DEF Blobs
<1>3. CASE packs = Rows(lane)
  BY <1>3 DEF Rows, Row, Digests
<1>4. CASE packs = [i \in {-o : o \in lane} |-> Row(-i)]
  <2>1. \A o \in lane : -(-o) = o
    BY Objects_Numbers, SMT
  <2>2. \A i \in DOMAIN packs : -i \in lane
    BY <1>4, <2>1
  <2> QED BY <1>4, <2>2 DEF Row, Digests
<1>5. CASE packs = [i \in lane \cup {-o : o \in lane} |->
                      Row(IF i < 0 THEN -i ELSE i)]
  <2>0. \A o \in lane : o \in Nat
    BY Objects_Numbers
  <2>1. \A o \in lane : -(-o) = o /\ ~(o < 0) /\ (-o < 0 \/ -o = o)
    BY <2>0, SMT
  <2>2. \A i \in DOMAIN packs : (IF i < 0 THEN -i ELSE i) \in lane
    BY <1>5, <2>1
  <2> QED BY <1>5, <2>2 DEF Row, Digests
<1>6. CASE packs = Rows(lane \cup Blobs)
  BY <1>6, <1>2 DEF Rows, Row, Digests
<1>7. ASSUME NEW o \in lane, packs = [Rows(lane) EXCEPT ![o] = <<o, Length[o] + 1>>]
      PROVE  Digests(packs) \subseteq lane
  BY <1>7 DEF Rows, Row, Digests
<1> QED BY <1>3, <1>4, <1>5, <1>6, <1>7 DEF Views

\* A list that passes verify_lanes names objects of the snapshot, and its
\* blobs are blobs.
LEMMA ViewedBlobs ==
  ASSUME NEW packs, NEW blobs, VerifyLanes(packs, blobs)
  PROVE  Digests(packs) \subseteq Objects /\ Digests(blobs) \subseteq Blobs
<1>1. \A i \in DOMAIN packs : packs[i][1] \in Objects
  BY DEF VerifyLanes, VerifyCanonicalMissing
<1>2. \A i \in DOMAIN blobs :
        blobs[i][1] \in Objects /\ Length[blobs[i][1]] > MaxPayload
  BY DEF VerifyLanes, VerifyCanonicalMissing
<1> QED BY <1>1, <1>2 DEF Digests, Blobs

-----------------------------------------------------------------------------
(* The wire: what is accepted was heard.                                   *)

Outcomes == {"Ok", "Io", "Expired", "Refused"}

\* A control exchange that is accepted is one the remote acted on.
LEMMA ControlOutcomes ==
  ASSUME NEW a \in Answers(Control)
  PROVE  Control[a] \in Outcomes /\ (Control[a] = "Ok" => a \in Heard)
<1>1. a \in DOMAIN Control
  BY DEF Answers
<1> QED BY <1>1, SMT DEF Control, Outcomes, Heard

\* So is an accepted upload of a pack,
LEMMA UploadPackOutcomes ==
  ASSUME NEW a \in Answers(UploadPack)
  PROVE  UploadPack[a] \in Outcomes /\ (UploadPack[a] = "Ok" => a \in Heard)
<1>1. a \in DOMAIN UploadPack
  BY DEF Answers
<1> QED BY <1>1, SMT DEF UploadPack, Outcomes, Heard

\* an accepted upload of a part,
LEMMA UploadPartOutcomes ==
  ASSUME NEW a, a \in Answers(UploadBlobPart) \cup {"status404"}
  PROVE  /\ UploadBlobPart[a] \in Outcomes
         /\ UploadBlobPart[a] = "Ok" => a \in Heard
<1>1. a \in DOMAIN UploadBlobPart
  BY DEF Answers, UploadBlobPart
<1> QED BY <1>1, SMT DEF UploadBlobPart, Outcomes, Heard

\* and an accepted complete.
LEMMA OtherOutcomes ==
  /\ \A a \in Answers(Download) : Download[a] \in Outcomes
  /\ \A a \in Answers(CompleteRoute) :
       /\ CompleteRoute[a] \in Outcomes
       /\ CompleteRoute[a] = "Ok" => a \in Heard
<1>1. Answers(Download) \subseteq DOMAIN Download
  BY DEF Answers
<1>2. Answers(CompleteRoute) \subseteq DOMAIN CompleteRoute
  BY DEF Answers
<1>3. \A a \in DOMAIN Download : Download[a] \in Outcomes
  BY SMT DEF Download, Outcomes
<1>4. \A a \in DOMAIN CompleteRoute :
        /\ CompleteRoute[a] \in Outcomes
        /\ CompleteRoute[a] = "Ok" => a \in Heard
  BY SMT DEF CompleteRoute, Outcomes, Heard
<1> QED BY <1>1, <1>2, <1>3, <1>4

-----------------------------------------------------------------------------
(* The locals of a call.                                                   *)

\* The fields of a call.
LEMMA IdleFields ==
  /\ DOMAIN Idle = {"pc", "missing", "unsent", "attempt", "stalled",
       "pending", "queue", "batch", "deferred", "granted", "landed", "moved",
       "live", "admitted", "result", "accounted", "acked", "parts", "swept"}
  /\ Shape(Idle)
BY DEF Idle, Shape

\* A call that has ended keeps what it reported and drops its work.
LEMMA EndedFields ==
  ASSUME NEW how
  PROVE  LET d == Ended(how) IN
         /\ Shape(d) /\ d.pc = "idle" /\ d.result = how
         /\ d.accounted = call.accounted /\ d.acked = call.acked
         /\ d.parts = call.parts /\ d.swept = call.swept
         /\ d.unsent = {} /\ d.queue = {} /\ d.batch = {}
         /\ d.deferred = {} /\ d.granted = NoParts
<1> DEFINE d == Ended(how)
<1>1. Shape(d)
  BY IdleFields DEF Ended, Shape
<1>2. /\ d.pc = "idle" /\ d.result = how
      /\ d.accounted = call.accounted /\ d.acked = call.acked
      /\ d.parts = call.parts /\ d.swept = call.swept
  BY DEF Ended, Idle
<1>3. /\ d.unsent = {} /\ d.queue = {} /\ d.batch = {}
      /\ d.deferred = {} /\ d.granted = NoParts
  BY DEF Ended, Idle
<1> QED BY <1>1, <1>2, <1>3

\* d is c with another place in the lane.
Like(d, c) ==
  /\ Shape(d)
  /\ d.accounted = c.accounted /\ d.acked = c.acked
  /\ d.parts = c.parts /\ d.swept = c.swept
  /\ d.unsent = c.unsent /\ d.granted = c.granted /\ d.result = c.result

\* The end of a round of blobs: the push stalls, or goes round again with
\* the blobs put back, or goes on to the pack lane.
LEMMA RoundDoneFields ==
  ASSUME NEW c, Shape(c)
  PROVE  \/ RoundDone(c) = Ended("ReplansStalled")
         \/ /\ Like(RoundDone(c), c)
            /\ RoundDone(c).pc \in {"blobGrants", "blobProbe"}
            /\ RoundDone(c).queue = c.deferred
            /\ RoundDone(c).batch = c.batch /\ RoundDone(c).deferred = {}
<1> DEFINE e(n) == [c EXCEPT !.pending = c.deferred, !.queue = c.deferred,
                     !.deferred = {}, !.moved = FALSE, !.stalled = n,
                     !.pc = IF c.deferred = {} THEN "blobProbe"
                            ELSE "blobGrants"]
<1>1. \A n : Shape(e(n))
  BY DEF Shape
<1>2. \A n : e(n).pc \in {"blobGrants", "blobProbe"}
  BY IdleFields DEF Shape
<1>3. \A n : /\ e(n).accounted = c.accounted /\ e(n).acked = c.acked
            /\ e(n).parts = c.parts /\ e(n).swept = c.swept
  BY IdleFields DEF Shape
<1>4. \A n : /\ e(n).unsent = c.unsent /\ e(n).queue = c.deferred
            /\ e(n).batch = c.batch /\ e(n).deferred = {}
            /\ e(n).granted = c.granted /\ e(n).result = c.result
  BY IdleFields DEF Shape
<1>5. RoundDone(c) = Ended("ReplansStalled") \/ \E n : RoundDone(c) = e(n)
  BY DEF RoundDone
<1> HIDE DEF e
<1>6. ASSUME NEW n, RoundDone(c) = e(n)
      PROVE  /\ Like(RoundDone(c), c)
             /\ RoundDone(c).pc \in {"blobGrants", "blobProbe"}
             /\ RoundDone(c).queue = c.deferred
             /\ RoundDone(c).batch = c.batch /\ RoundDone(c).deferred = {}
  <2>1. Like(e(n), c)
    BY <1>1, <1>3, <1>4 DEF Like
  <2>2. /\ e(n).pc \in {"blobGrants", "blobProbe"} /\ e(n).queue = c.deferred
        /\ e(n).batch = c.batch /\ e(n).deferred = {}
    BY <1>2, <1>4
  <2> QED BY <2>1, <2>2, <1>6
<1> QED BY <1>5, <1>6

\* Onward: the next blob of the batch, the next batch, or the end of the
\* round.
LEMMA OnwardFields ==
  ASSUME NEW c, Shape(c)
  PROVE  \/ Onward(c) = Ended("ReplansStalled")
         \/ /\ Like(Onward(c), c) /\ Onward(c).batch = c.batch
            /\ Onward(c).queue \subseteq c.queue \cup c.deferred
            /\ Onward(c).deferred \subseteq c.deferred
            /\ \/ /\ Onward(c).pc = "blobPart" /\ c.batch # {}
                  /\ Onward(c).landed = {}
               \/ /\ Onward(c).pc \in {"blobGrants", "blobProbe"}
                  /\ c.batch = {}
<1> DEFINE e == [c EXCEPT !.pc = "blobPart", !.landed = {}, !.attempt = 0]
           f == [c EXCEPT !.pc = "blobGrants", !.landed = {}]
           g == [c EXCEPT !.landed = {}]
<1>1. CASE c.batch # {}
  <2>1. Like(e, c)
    BY IdleFields DEF Like, Shape
  <2>2. /\ e.pc = "blobPart" /\ e.landed = {} /\ e.batch = c.batch
        /\ e.queue = c.queue /\ e.deferred = c.deferred
    BY IdleFields DEF Shape
  <2>3. Onward(c) = e
    BY <1>1 DEF Onward
  <2> HIDE DEF e
  <2> QED BY <1>1, <2>1, <2>2, <2>3
<1>2. CASE c.batch = {} /\ c.queue # {}
  <2>1. Like(f, c)
    BY IdleFields DEF Like, Shape
  <2>2. /\ f.pc = "blobGrants" /\ f.batch = c.batch
        /\ f.queue = c.queue /\ f.deferred = c.deferred
    BY IdleFields DEF Shape
  <2>3. Onward(c) = f
    BY <1>2 DEF Onward
  <2> HIDE DEF f
  <2> QED BY <1>2, <2>1, <2>2, <2>3
<1>3. CASE c.batch = {} /\ c.queue = {}
  <2>1. Like(g, c)
    BY IdleFields DEF Like, Shape
  <2>2. g.batch = c.batch /\ g.deferred = c.deferred
    BY IdleFields DEF Shape
  <2>3. Onward(c) = RoundDone(g)
    BY <1>3 DEF Onward
  <2> HIDE DEF g
  <2>4. \/ RoundDone(g) = Ended("ReplansStalled")
        \/ /\ Like(RoundDone(g), g)
           /\ RoundDone(g).pc \in {"blobGrants", "blobProbe"}
           /\ RoundDone(g).queue = g.deferred
           /\ RoundDone(g).batch = g.batch /\ RoundDone(g).deferred = {}
    BY <2>1, RoundDoneFields DEF Like
  <2> QED BY <1>3, <2>1, <2>2, <2>3, <2>4 DEF Like
<1> QED BY <1>1, <1>2, <1>3

\* The pack lane starts with the objects owed.
LEMMA PackingFields ==
  ASSUME NEW c, Shape(c), NEW owed, NEW rounds
  PROVE  LET d == Packing(c, owed, rounds) IN
         /\ Shape(d) /\ d.pc \in {"complete", "packGrants"} /\ d.unsent = owed
         /\ d.accounted = c.accounted /\ d.acked = c.acked
         /\ d.parts = c.parts /\ d.swept = c.swept
         /\ d.queue = c.queue /\ d.deferred = c.deferred
         /\ d.batch = c.batch /\ d.granted = c.granted /\ d.result = c.result
<1> DEFINE d == Packing(c, owed, rounds)
<1>1. Shape(d)
  BY DEF Shape, Packing
<1>2. /\ d.pc \in {"complete", "packGrants"} /\ d.unsent = owed
      /\ d.accounted = c.accounted /\ d.acked = c.acked
      /\ d.parts = c.parts /\ d.swept = c.swept
  BY IdleFields DEF Shape, Packing
<1>3. /\ d.queue = c.queue /\ d.deferred = c.deferred
      /\ d.batch = c.batch /\ d.granted = c.granted /\ d.result = c.result
  BY IdleFields DEF Shape, Packing
<1> QED BY <1>1, <1>2, <1>3

-----------------------------------------------------------------------------
(* What the remote and the store may do under a call.                      *)

Grows ==
  /\ remote.promoted \subseteq remote'.promoted
  /\ remote.claimed \subseteq remote'.claimed
  /\ remote.staged \subseteq remote'.staged
  /\ store.objects \subseteq store'.objects
  /\ \A o \in Blobs : /\ remote.held[o] \subseteq remote'.held[o]
                      /\ remote.reported[o] \subseteq remote'.reported[o]

Unmoved == remote' = remote /\ store' = store

\* What has landed stays landed while the remote and the store grow.
LEMMA GrowsLanded ==
  ASSUME RemoteInv', Grows
  PROVE  Landed \subseteq Landed' /\ Claimed \subseteq Claimed'
<1>1. Claimed \subseteq Claimed'
  BY DEF Claimed, Grows
<1>2. ASSUME NEW o \in Blobs, remote.reported[o] = Parts(o)
      PROVE  remote'.reported[o] = Parts(o)
  <2>1. remote.reported[o] \subseteq remote'.reported[o]
    BY DEF Grows
  <2>2. remote'.reported[o] \subseteq Parts(o)
    BY DEF RemoteInv
  <2> QED BY <1>2, <2>1, <2>2
<1> QED BY <1>1, <1>2 DEF Landed, Grows

\* Nothing moves.
LEMMA UnmovedGrows ==
  ASSUME RemoteInv, StoreInv, Unmoved
  PROVE  RemoteInv' /\ StoreInv' /\ Grows
BY DEF RemoteInv, StoreInv, Unmoved, Grows

\* A pack is granted, or staged.
LEMMA PackGrows ==
  ASSUME RemoteInv, StoreInv, store' = store, NEW p, p \subseteq Objects,
         \/ remote' = [remote EXCEPT !.claimed = @ \cup {p}]
         \/ remote' = [remote EXCEPT !.staged = @ \cup {p}]
  PROVE  RemoteInv' /\ StoreInv' /\ Grows
<1>1. remote' = [f \in RemoteFields |-> remote'[f]]
  BY DEF RemoteInv
<1>2. /\ remote'.promoted = remote.promoted /\ remote'.head = remote.head
      /\ remote'.held = remote.held /\ remote'.reported = remote.reported
  BY DEF RemoteInv, RemoteFields
<1>3. remote'.claimed \in {remote.claimed, remote.claimed \cup {p}}
  BY DEF RemoteInv, RemoteFields
<1>4. remote.staged \subseteq remote'.staged
  BY DEF RemoteInv, RemoteFields
<1>5. RemoteInv'
  BY <1>1, <1>2, <1>3 DEF RemoteInv
<1>6. StoreInv'
  BY DEF StoreInv
<1> QED BY <1>2, <1>3, <1>4, <1>5, <1>6 DEF Grows

\* Parts arrive at the store, or become the session's.
LEMMA PartsGrow ==
  ASSUME RemoteInv, StoreInv, store' = store,
         remote' = [f \in RemoteFields |-> remote'[f]],
         remote'.promoted = remote.promoted, remote'.head = remote.head,
         remote'.staged = remote.staged, remote'.claimed = remote.claimed,
         remote'.held = [o \in Blobs |-> remote'.held[o]],
         remote'.reported = [o \in Blobs |-> remote'.reported[o]],
         \A o \in Blobs :
           /\ remote.held[o] \subseteq remote'.held[o]
           /\ remote'.held[o] \subseteq Parts(o)
           /\ remote.reported[o] \subseteq remote'.reported[o]
           /\ remote'.reported[o] \subseteq remote'.held[o]
  PROVE  RemoteInv' /\ StoreInv' /\ Grows
<1>1. RemoteInv'
  BY DEF RemoteInv
<1>2. StoreInv'
  BY DEF StoreInv
<1> QED BY <1>1, <1>2 DEF Grows

-----------------------------------------------------------------------------
(* What a call may become.                                                 *)

\* The invariant holds of it, and it has not just succeeded.
Kept == IndInv' /\ (call.result = "none" => call'.result # "Ok")

\* A call that is still running has not returned Ok.
LEMMA KeptRunning ==
  ASSUME IndInv', call'.pc # "idle"
  PROVE  Kept
BY DEF Kept, IndInv, CallTypes

\* Where it is at none of the points that promise something.
LEMMA QuietInv ==
  ASSUME RemoteInv', StoreInv', CallTypes',
         call'.accounted \subseteq Landed' \cup call'.swept,
         call'.acked \subseteq Claimed',
         call'.pc \in PushPcs =>
           \A o \in Blobs : call'.parts[o] \subseteq remote'.held[o],
         call'.pc = "declare" => call'.accounted = {} /\ call'.acked = {},
         call'.pc \in {"head", "manifestGrant"} => call'.missing = {},
         call'.pc \in {"idle", "declare", "blobGrants", "blobProbe", "reprobe",
                       "complete", "head", "manifestGrant", "manifest"}
  PROVE  IndInv'
<1>1. AccountInv'
  BY DEF AccountInv
<1>2. BlobInv'
  BY DEF BlobInv
<1>3. PackInv' /\ PullInv'
  BY DEF PackInv, PullInv
<1> QED BY <1>1, <1>2, <1>3 DEF IndInv

\* The same, for a call that has not returned Ok.
LEMMA QuietKeeps ==
  ASSUME RemoteInv', StoreInv', CallTypes',
         call'.accounted \subseteq Landed' \cup call'.swept,
         call'.acked \subseteq Claimed',
         call'.pc \in PushPcs =>
           \A o \in Blobs : call'.parts[o] \subseteq remote'.held[o],
         call'.pc = "declare" => call'.accounted = {} /\ call'.acked = {},
         call'.pc = "idle" => call'.result # "Ok",
         call'.pc \in {"head", "manifestGrant"} => call'.missing = {},
         call'.pc \in {"idle", "declare", "blobGrants", "blobProbe", "reprobe",
                       "complete", "head", "manifestGrant", "manifest"}
  PROVE  Kept
<1>1. IndInv'
  BY QuietInv
<1> QED BY <1>1, KeptRunning DEF Kept

\* Where it has ended.
LEMMA EndInv ==
  ASSUME CallTypes, RemoteInv', StoreInv', NEW how, call' = Ended(how),
         call.accounted \subseteq Landed' \cup call.swept,
         call.acked \subseteq Claimed'
  PROVE  IndInv'
<1>1. /\ Shape(call') /\ call'.pc = "idle" /\ call'.result = how
      /\ call'.accounted = call.accounted /\ call'.acked = call.acked
      /\ call'.parts = call.parts /\ call'.swept = call.swept
      /\ call'.unsent = {} /\ call'.queue = {} /\ call'.batch = {}
      /\ call'.deferred = {} /\ call'.granted = NoParts
  BY EndedFields
<1>2. CallTypes'
  BY <1>1 DEF CallTypes, NoParts, Shape
<1> QED BY <1>1, <1>2, QuietInv DEF PushPcs

\* Where it has failed.
LEMMA EndKeeps ==
  ASSUME CallTypes, RemoteInv', StoreInv', NEW how, how # "Ok",
         call' = Ended(how),
         call.accounted \subseteq Landed' \cup call.swept,
         call.acked \subseteq Claimed'
  PROVE  Kept
<1>1. IndInv'
  BY EndInv
<1>2. call'.result = how
  BY EndedFields
<1> QED BY <1>1, <1>2 DEF Kept

\* Where it goes on along the blob lane with the locals c.
LaneReady(c) ==
  /\ Shape(c) /\ c.result = "none"
  /\ c.unsent \subseteq Objects /\ c.queue \subseteq Blobs
  /\ c.deferred \subseteq Blobs /\ c.batch \subseteq Blobs
  /\ c.granted = [o \in Blobs |-> c.granted[o]]
  /\ c.parts = [o \in Blobs |-> c.parts[o]]
  /\ c.accounted \subseteq Landed' \cup c.swept
  /\ c.acked \subseteq Claimed'
  /\ \A o \in Blobs : c.parts[o] \subseteq remote'.held[o]
  /\ \A o \in c.batch :
       /\ o \in c.swept \/ c.granted[o] \subseteq remote'.reported[o]
       /\ c.parts[o] \subseteq c.granted[o]

\* Where it goes on with the blob lane from the locals c.
LEMMA OnwardKeeps ==
  ASSUME IndInv, RemoteInv', StoreInv', Grows,
         NEW c, LaneReady(c), call' = Onward(c)
  PROVE  Kept
<1> USE DEF LaneReady
<1>0. /\ CallTypes /\ call.accounted \subseteq Landed' \cup call.swept
      /\ call.acked \subseteq Claimed'
  BY GrowsLanded DEF IndInv, AccountInv
<1>1. CASE Onward(c) = Ended("ReplansStalled")
  BY <1>0, <1>1, EndKeeps
<1>2. CASE Onward(c) # Ended("ReplansStalled")
  <2>1. /\ Like(call', c) /\ call'.batch = c.batch
        /\ call'.queue \subseteq c.queue \cup c.deferred
        /\ call'.deferred \subseteq c.deferred
        /\ \/ /\ call'.pc = "blobPart" /\ c.batch # {} /\ call'.landed = {}
           \/ call'.pc \in {"blobGrants", "blobProbe"} /\ c.batch = {}
    BY <1>2, OnwardFields
  <2>2. CallTypes'
    BY <1>0, <2>1, Objects_Numbers DEF CallTypes, Like, PushPcs, Shape
  <2>3. CASE call'.pc \in {"blobGrants", "blobProbe"}
    BY <2>1, <2>2, <2>3, QuietKeeps DEF Like
  <2>4. CASE call'.pc = "blobPart" /\ c.batch # {} /\ call'.landed = {}
    <3>1. AccountInv'
      BY <2>1, <2>4 DEF AccountInv, Like
    <3>2. First(c.batch) \in c.batch
      BY <2>4, FirstIn, Objects_Numbers
    <3>3. BlobInv'
      BY <2>1, <2>4, <3>2 DEF BlobInv, Like
    <3>4. PackInv' /\ PullInv'
      BY <2>4 DEF PackInv, PullInv
    <3>5. IndInv'
      BY <2>2, <3>1, <3>3, <3>4 DEF IndInv
    <3> QED BY <2>4, <3>5, KeptRunning
  <2> QED BY <2>1, <2>3, <2>4
<1> QED BY <1>1, <1>2

\* Where only counters of it change.
LEMMA CountKeeps ==
  ASSUME IndInv, RemoteInv', StoreInv', Grows, store' = store,
         Like(call', call), call'.pc = call.pc, call'.missing = call.missing,
         call'.queue = call.queue, call'.batch = call.batch,
         call'.deferred = call.deferred, call'.landed = call.landed
  PROVE  Kept
<1>1. CallTypes'
  BY DEF IndInv, CallTypes, Like, Shape
<1>2. AccountInv'
  BY GrowsLanded DEF IndInv, AccountInv, Like, Grows
<1>3. BlobInv'
  <2>1. SUFFICES ASSUME call.pc \in {"blobPart", "blobReport"} PROVE BlobInv'
    BY DEF BlobInv
  <2>2. call.batch \subseteq Blobs /\ First(call.batch) \in call.batch
    BY <2>1, FirstIn, Objects_Numbers DEF IndInv, BlobInv
  <2> QED BY <2>1, <2>2 DEF IndInv, BlobInv, Like, Grows
<1>4. Pack' = Pack
  BY DEF Pack, Like
<1>5. PackInv' /\ PullInv'
  BY <1>4 DEF IndInv, PackInv, PullInv, Like, Grows
<1> QED BY <1>1, <1>2, <1>3, <1>5 DEF IndInv, Kept, Like

\* Where it comes to the pack lane with the locals c.
LEMMA PackingKeeps ==
  ASSUME RemoteInv', StoreInv',
         NEW c, NEW owed, NEW rounds, call' = Packing(c, owed, rounds),
         Shape(c), c.result = "none",
         c.queue \subseteq Blobs, c.deferred \subseteq Blobs,
         c.batch \subseteq Objects,
         c.granted = [o \in Blobs |-> c.granted[o]],
         c.parts = [o \in Blobs |-> c.parts[o]],
         c.accounted \subseteq Landed' \cup c.swept,
         c.acked \subseteq Claimed',
         \A o \in Blobs : c.parts[o] \subseteq remote'.held[o],
         owed \subseteq Objects, owed \cap c.acked = {}
  PROVE  Kept
<1>1. /\ Shape(call') /\ call'.pc \in {"complete", "packGrants"}
      /\ call'.unsent = owed
      /\ call'.accounted = c.accounted /\ call'.acked = c.acked
      /\ call'.parts = c.parts /\ call'.swept = c.swept
      /\ call'.queue = c.queue /\ call'.deferred = c.deferred
      /\ call'.batch = c.batch /\ call'.granted = c.granted
      /\ call'.result = c.result
  BY PackingFields, SMT
<1>2. CallTypes'
  BY <1>1 DEF CallTypes, PushPcs, Shape
<1>3. AccountInv'
  BY <1>1 DEF AccountInv
<1>4. PackInv'
  BY <1>1 DEF PackInv
<1>5. BlobInv' /\ PullInv'
  BY <1>1 DEF BlobInv, PullInv
<1>6. IndInv'
  BY <1>2, <1>3, <1>4, <1>5 DEF IndInv
<1> QED BY <1>1, <1>6, KeptRunning

-----------------------------------------------------------------------------
(* The steps of a push.                                                    *)

\* push_snapshot and pull_head begin with nothing reported.
LEMMA StartKeeps ==
  ASSUME IndInv, NEW kind, NEW first \in {"declare", "head"},
         Start(kind, first)
  PROVE  Kept
<1>1. RemoteInv' /\ StoreInv' /\ Grows
  BY UnmovedGrows DEF IndInv, Start, Unmoved
<1>2. call' = [Idle EXCEPT !.pc = first]
  BY DEF Start
<1>3. Shape(call')
  BY <1>2, IdleFields DEF Shape
<1>4. /\ call'.pc = first /\ call'.accounted = {} /\ call'.acked = {}
      /\ call'.parts = NoParts /\ call'.result = "none"
  BY <1>2 DEF Idle
<1>5. /\ call'.unsent = {} /\ call'.queue = {} /\ call'.batch = {}
      /\ call'.deferred = {} /\ call'.granted = NoParts
      /\ call'.missing = {}
  BY <1>2 DEF Idle
<1>6. CallTypes'
  BY <1>3, <1>4, <1>5 DEF CallTypes, NoParts, Shape, PushPcs, PullPcs
<1>7. \A o \in Blobs : call'.parts[o] \subseteq remote'.held[o]
  BY <1>4 DEF NoParts
<1> QED BY <1>1, <1>4, <1>5, <1>6, <1>7, QuietKeeps

\* Declaring: what the remote does not list is reported, and it has that.
LEMMA DeclareKeeps ==
  ASSUME IndInv, NEW a, NEW blobs, NEW id,
         NEW packs \in Views(Objects \ (remote.promoted \cup Blobs), Blobs),
         Declare(a, packs, blobs, id)
  PROVE  Kept
<1> DEFINE known == [call EXCEPT !.accounted = remote.promoted]
           lane == [known EXCEPT !.pc = "blobGrants",
                      !.pending = Digests(blobs), !.queue = Digests(blobs)]
           lied == [Ended("Lied") EXCEPT !.accounted = remote.promoted]
<1>1. /\ call.pc = "declare" /\ call.accounted = {} /\ call.acked = {}
      /\ call.result = "none" /\ call.batch = {} /\ CallTypes
      /\ \A o \in Blobs : call.parts[o] \subseteq remote.held[o]
  BY DEF IndInv, CallTypes, AccountInv, Declare, PushPcs
<1>2. RemoteInv' /\ StoreInv' /\ remote'.held = remote.held
      /\ remote'.promoted = remote.promoted
  <2>1. CASE a \notin Heard
    BY <2>1, UnmovedGrows DEF IndInv, Declare, Unmoved
  <2>2. CASE a \in Heard
    <3>1. remote' = [remote EXCEPT !.claimed = {}, !.reported = NoParts]
      BY <2>2 DEF Declare
    <3>2. remote' = [f \in RemoteFields |-> remote'[f]]
      BY <3>1 DEF IndInv, RemoteInv
    <3>3. /\ remote'.promoted = remote.promoted /\ remote'.head = remote.head
          /\ remote'.claimed = {} /\ remote'.held = remote.held
          /\ remote'.reported = NoParts
      BY <3>1 DEF IndInv, RemoteInv, RemoteFields
    <3>4. RemoteInv'
      BY <3>2, <3>3 DEF IndInv, RemoteInv, NoParts
    <3>5. StoreInv'
      BY DEF IndInv, StoreInv, Declare
    <3> QED BY <3>3, <3>4, <3>5
  <2> QED BY <2>1, <2>2
<1>3. remote.promoted \subseteq Landed'
  BY <1>2 DEF Landed
<1>4. ASSUME NEW how, how # "Ok", call' = Ended(how) PROVE Kept
  BY <1>1, <1>2, <1>4, EndKeeps
<1>5. CASE call' = lied
  <2> DEFINE e == Ended("Lied")
  <2>0. /\ Shape(e) /\ e.pc = "idle" /\ e.acked = {} /\ e.result = "Lied"
        /\ e.unsent = {} /\ e.queue = {} /\ e.batch = {}
        /\ e.deferred = {} /\ e.granted = NoParts /\ e.parts = call.parts
    BY <1>1, EndedFields
  <2> HIDE DEF e
  <2>a. call' = [e EXCEPT !.accounted = remote.promoted]
    BY <1>5 DEF e
  <2>b. Shape(call')
    BY <2>0, <2>a DEF Shape
  <2>1. /\ call'.pc = "idle" /\ call'.acked = {}
        /\ call'.accounted = remote.promoted /\ call'.result = "Lied"
    BY <2>0, <2>a, IdleFields DEF Shape
  <2>2. /\ call'.unsent = {} /\ call'.queue = {} /\ call'.batch = {}
        /\ call'.deferred = {} /\ call'.granted = NoParts
        /\ call'.parts = call.parts
    BY <2>0, <2>a, IdleFields DEF Shape
  <2>3. CallTypes'
    BY <1>1, <2>1, <2>2, <2>b DEF CallTypes, NoParts, Shape
  <2> QED BY <1>2, <1>3, <2>1, <2>3, QuietKeeps DEF PushPcs
<1>6. /\ Shape(known) /\ known.accounted = remote.promoted
      /\ known.acked = {} /\ known.parts = call.parts /\ known.batch = {}
      /\ known.queue \subseteq Blobs /\ known.deferred \subseteq Blobs
      /\ known.granted = [o \in Blobs |-> known.granted[o]]
      /\ known.parts = [o \in Blobs |-> known.parts[o]]
      /\ known.result = "none" /\ known.unsent \subseteq Objects
  <2>1. Shape(call)
    BY <1>1 DEF CallTypes
  <2>2. Shape(known)
    BY <2>1 DEF Shape
  <2>3. /\ known.accounted = remote.promoted
        /\ known.acked = call.acked /\ known.parts = call.parts
        /\ known.batch = call.batch /\ known.result = call.result
    BY <2>1, IdleFields DEF Shape
  <2>4. /\ known.queue = call.queue /\ known.deferred = call.deferred
        /\ known.granted = call.granted /\ known.unsent = call.unsent
    BY <2>1, IdleFields DEF Shape
  <2> HIDE DEF known
  <2> QED BY <1>1, <2>2, <2>3, <2>4 DEF CallTypes
<1>7. CASE /\ VerifyLanes(packs, blobs)
           /\ call' = Packing(known, Digests(packs), 0)
  <2> HIDE DEF known
  <2>1. Digests(packs) \subseteq Objects
    BY <1>7, ViewedBlobs
  <2>2. /\ known.accounted \subseteq Landed' \cup known.swept
        /\ known.acked \subseteq Claimed' /\ known.batch \subseteq Objects
        /\ \A o \in Blobs : known.parts[o] \subseteq remote'.held[o]
        /\ Digests(packs) \cap known.acked = {}
    BY <1>1, <1>2, <1>3, <1>6
  <2> QED BY <1>2, <1>6, <1>7, <2>1, <2>2, PackingKeeps
<1>8. CASE VerifyLanes(packs, blobs) /\ call' = lane
  <2> HIDE DEF known
  <2>1. Digests(blobs) \subseteq Blobs
    BY <1>8, ViewedBlobs
  <2>a. Shape(call')
    BY <1>6, <1>8 DEF Shape
  <2>2. /\ call'.pc = "blobGrants" /\ call'.queue = Digests(blobs)
        /\ call'.accounted = known.accounted /\ call'.acked = known.acked
    BY <1>6, <1>8, IdleFields DEF Shape
  <2>3. /\ call'.parts = known.parts /\ call'.batch = known.batch
        /\ call'.deferred = known.deferred /\ call'.granted = known.granted
        /\ call'.result = known.result /\ call'.unsent = known.unsent
    BY <1>6, <1>8, IdleFields DEF Shape
  <2>4. CallTypes'
    BY <1>6, <2>1, <2>a, <2>2, <2>3 DEF CallTypes, Shape, PushPcs
  <2> QED BY <1>1, <1>2, <1>3, <1>6, <2>2, <2>3, <2>4, QuietKeeps
<1> HIDE DEF known, lane, lied
<1>9. \/ \E how : how # "Ok" /\ call' = Ended(how)
      \/ call' = lied
      \/ VerifyLanes(packs, blobs) /\ call' = Packing(known, Digests(packs), 0)
      \/ VerifyLanes(packs, blobs) /\ call' = lane
  BY DEF Declare, Declared, known, lane, lied
<1> QED BY <1>4, <1>5, <1>7, <1>8, <1>9

\* A call that ends while the remote moves on.
LEMMA StopKeeps ==
  ASSUME IndInv, RemoteInv', StoreInv', Grows, NEW how, how # "Ok", call' = Ended(how)
  PROVE  Kept
<1>1. /\ CallTypes /\ call.accounted \subseteq Landed' \cup call.swept
      /\ call.acked \subseteq Claimed'
  BY GrowsLanded DEF IndInv, AccountInv
<1> QED BY <1>1, EndKeeps

\* What a push has accepted and reported survives what the remote does.
LEMMA Carried ==
  ASSUME IndInv, RemoteInv', Grows, call.pc \in PushPcs
  PROVE  /\ call.accounted \subseteq Landed' \cup call.swept
         /\ call.acked \subseteq Claimed'
         /\ \A o \in Blobs : call.parts[o] \subseteq remote'.held[o]
BY GrowsLanded DEF IndInv, AccountInv, Grows

\* Blob grants: the parts a grant says are there are the parts there are.
LEMMA BlobGrantsKeeps ==
  ASSUME IndInv, NEW a \in Answers(BlobGrantsRoute), NEW whole,
         BlobGrants(a, whole)
  PROVE  Kept
<1> DEFINE rest == [call EXCEPT !.queue = @ \ Asked(call)]
           back == [rest EXCEPT !.deferred = @ \cup Asked(call)]
           got == [rest EXCEPT !.batch = Asked(call), !.granted = remote.held,
                               !.live = TRUE]
<1>1. /\ call.pc = "blobGrants" /\ CallTypes /\ call.batch = {} /\ Shape(call)
      /\ call.result = "none" /\ call.queue \subseteq Blobs
      /\ \A o \in Blobs : call.parts[o] \subseteq remote.held[o]
  BY DEF IndInv, CallTypes, AccountInv, BlobGrants, PushPcs
<1>2. Asked(call) \subseteq call.queue
  BY <1>1, FirstOfIn, Objects_Numbers DEF Asked
<1>3. /\ RemoteInv' /\ StoreInv' /\ Grows
      /\ a \in Heard => \A o \in Asked(call) : remote'.reported[o] = remote.held[o]
  <2>1. CASE a \notin Heard
    BY <2>1, UnmovedGrows DEF IndInv, BlobGrants, Unmoved
  <2>2. CASE a \in Heard
    <3> DEFINE r == [o \in Blobs |-> IF o \in Asked(call) THEN remote.held[o]
                                     ELSE remote.reported[o]]
    <3>1. remote' = [remote EXCEPT !.reported = r]
      BY <2>2 DEF BlobGrants
    <3>2. remote' = [f \in RemoteFields |-> remote'[f]]
      BY <3>1 DEF IndInv, RemoteInv
    <3>3. /\ remote'.promoted = remote.promoted /\ remote'.head = remote.head
          /\ remote'.staged = remote.staged /\ remote'.claimed = remote.claimed
          /\ remote'.held = remote.held /\ remote'.reported = r
      BY <3>1 DEF IndInv, RemoteInv, RemoteFields
    <3>4. \A o \in Blobs :
            /\ remote.held[o] \subseteq Parts(o)
            /\ remote.reported[o] \subseteq remote.held[o]
            /\ r[o] \in {remote.held[o], remote.reported[o]}
            /\ o \in Asked(call) => r[o] = remote.held[o]
      BY DEF IndInv, RemoteInv
    <3>5. r = [o \in Blobs |-> r[o]]
      OBVIOUS
    <3> HIDE DEF r
    <3>6. store' = store
      BY DEF BlobGrants
    <3>7. RemoteInv' /\ StoreInv' /\ Grows
      BY <3>2, <3>3, <3>4, <3>5, <3>6, PartsGrow DEF IndInv, RemoteInv
    <3> QED BY <3>3, <3>4, <3>7, <1>1, <1>2
  <2> QED BY <2>1, <2>2
<1>4. /\ call.accounted \subseteq Landed' \cup call.swept
      /\ call.acked \subseteq Claimed'
      /\ \A o \in Blobs : call.parts[o] \subseteq remote'.held[o]
  BY <1>1, <1>3, Carried DEF PushPcs
<1>5. /\ Shape(rest) /\ rest.queue = call.queue \ Asked(call)
      /\ rest.deferred = call.deferred /\ rest.batch = call.batch
      /\ Like(rest, call)
  <2>1. Shape(rest)
    BY <1>1 DEF Shape
  <2>2. /\ rest.queue = call.queue \ Asked(call)
        /\ rest.deferred = call.deferred /\ rest.batch = call.batch
    BY <1>1, IdleFields DEF Shape
  <2>3. /\ rest.accounted = call.accounted /\ rest.acked = call.acked
        /\ rest.parts = call.parts /\ rest.swept = call.swept
        /\ rest.unsent = call.unsent /\ rest.granted = call.granted
        /\ rest.result = call.result
    BY <1>1, IdleFields DEF Shape
  <2> HIDE DEF rest
  <2> QED BY <2>1, <2>2, <2>3 DEF Like
<1> HIDE DEF rest
<1>6. CASE call' = Onward(back)
  <2>1. Like(back, rest)
    BY <1>5, IdleFields DEF Like, Shape
  <2>2. /\ back.queue = rest.queue /\ back.batch = rest.batch
        /\ back.deferred = rest.deferred \cup Asked(call)
    BY <1>5, IdleFields DEF Shape
  <2> HIDE DEF back
  <2>3. LaneReady(back)
    <3>1. Like(back, call)
      BY <1>5, <2>1 DEF Like
    <3>2. /\ back.queue \subseteq Blobs /\ back.batch = {}
          /\ back.deferred \subseteq Blobs
      BY <1>1, <1>2, <1>5, <2>2 DEF CallTypes
    <3>3. /\ call.unsent \subseteq Objects
          /\ call.granted = [o \in Blobs |-> call.granted[o]]
          /\ call.parts = [o \in Blobs |-> call.parts[o]]
      BY <1>1 DEF CallTypes
    <3> QED BY <1>1, <1>4, <3>1, <3>2, <3>3 DEF LaneReady, Like
  <2> QED BY <1>3, <1>6, <2>3, OnwardKeeps
<1>7. CASE a \in Heard /\ call' = Onward(got)
  <2>1. Shape(got)
    BY <1>5 DEF Shape
  <2>2. /\ got.queue = rest.queue /\ got.batch = Asked(call)
        /\ got.deferred = rest.deferred /\ got.granted = remote.held
    BY <1>5, IdleFields DEF Shape
  <2>3. /\ got.accounted = rest.accounted /\ got.acked = rest.acked
        /\ got.parts = rest.parts /\ got.swept = rest.swept
        /\ got.unsent = rest.unsent /\ got.result = rest.result
    BY <1>5, IdleFields DEF Shape
  <2> HIDE DEF got
  <2>4. LaneReady(got)
    <3>1. /\ got.accounted = call.accounted /\ got.acked = call.acked
          /\ got.parts = call.parts /\ got.swept = call.swept
          /\ got.unsent = call.unsent /\ got.result = "none"
      BY <1>1, <1>5, <2>3 DEF Like
    <3>2. /\ got.queue \subseteq Blobs /\ got.batch \subseteq Blobs
          /\ got.deferred \subseteq Blobs
      BY <1>1, <1>2, <1>5, <2>2 DEF CallTypes
    <3>3. /\ call.unsent \subseteq Objects
          /\ call.parts = [o \in Blobs |-> call.parts[o]]
      BY <1>1 DEF CallTypes
    <3>4. got.granted = [o \in Blobs |-> got.granted[o]]
      BY <2>2 DEF IndInv, RemoteInv
    <3>5. \A o \in got.batch : /\ got.granted[o] \subseteq remote'.reported[o]
                               /\ got.parts[o] \subseteq got.granted[o]
      <4>1. SUFFICES ASSUME NEW o \in got.batch
                     PROVE  /\ got.granted[o] \subseteq remote'.reported[o]
                            /\ got.parts[o] \subseteq got.granted[o]
        OBVIOUS
      <4>2. o \in Asked(call) /\ o \in Blobs
        BY <2>2, <3>2
      <4>3. remote'.reported[o] = remote.held[o]
        BY <1>3, <1>7, <4>2
      <4>4. call.parts[o] \subseteq remote.held[o]
        BY <1>1, <4>2 DEF IndInv, AccountInv
      <4> QED BY <2>2, <3>1, <4>3, <4>4
    <3> QED BY <1>4, <2>1, <3>1, <3>2, <3>3, <3>4, <3>5 DEF LaneReady
  <2> QED BY <1>3, <1>7, <2>4, OnwardKeeps
<1>8. ASSUME NEW how, how # "Ok", call' = Ended(how) PROVE Kept
  BY <1>3, <1>8, StopKeeps
<1>9. \/ call' = Onward(back)
      \/ a \in Heard /\ call' = Onward(got)
      \/ \E how : how # "Ok" /\ call' = Ended(how)
  <2>1. BlobGrantsRoute[a] \in Outcomes /\ (BlobGrantsRoute[a] = "Ok" => a \in Heard)
    BY ControlOutcomes DEF BlobGrantsRoute
  <2> QED BY <2>1 DEF BlobGrants, rest, Outcomes
<1> QED BY <1>6, <1>7, <1>8, <1>9

\* The blob in hand.
LEMMA Hand ==
  ASSUME IndInv, call.pc \in {"blobPart", "blobReport"}
  PROVE  /\ First(call.batch) \in call.batch /\ call.batch \subseteq Blobs
         /\ call.result = "none" /\ CallTypes /\ Shape(call)
         /\ call.pc \in PushPcs
<1>1. call.batch \subseteq Blobs /\ call.batch # {}
  BY DEF IndInv, BlobInv
<1>2. First(call.batch) \in call.batch
  BY <1>1, FirstIn, Objects_Numbers
<1> QED BY <1>1, <1>2 DEF IndInv, CallTypes, PushPcs

\* The call goes on with the blobs after the one in hand.
LEMMA NextBlobReady ==
  ASSUME IndInv, RemoteInv', StoreInv', Grows,
         call.pc \in {"blobPart", "blobReport"},
         NEW c, Shape(c), c.result = call.result, c.unsent = call.unsent,
         c.queue = call.queue, c.deferred \subseteq Blobs,
         c.batch = call.batch \ {First(call.batch)},
         c.granted = call.granted, c.parts = call.parts,
         c.acked = call.acked, c.swept = call.swept,
         c.accounted \subseteq Landed' \cup c.swept
  PROVE  LaneReady(c)
<1>1. /\ call.batch \subseteq Blobs /\ call.result = "none" /\ CallTypes
      /\ call.pc \in PushPcs
  BY Hand
<1>2. /\ call.unsent \subseteq Objects /\ call.queue \subseteq Blobs
      /\ call.granted = [o \in Blobs |-> call.granted[o]]
      /\ call.parts = [o \in Blobs |-> call.parts[o]]
  BY <1>1 DEF CallTypes
<1>3. /\ call.acked \subseteq Claimed'
      /\ \A o \in Blobs : call.parts[o] \subseteq remote'.held[o]
  BY <1>1, Carried
<1>4. \A o \in call.batch \ {First(call.batch)} :
        /\ o \in call.swept \/ call.granted[o] \subseteq remote.reported[o]
        /\ call.parts[o] \subseteq call.granted[o]
  BY DEF IndInv, BlobInv
<1>5. \A o \in call.batch : remote.reported[o] \subseteq remote'.reported[o]
  BY <1>1 DEF Grows
<1>6. \A o \in c.batch :
        /\ o \in c.swept \/ c.granted[o] \subseteq remote'.reported[o]
        /\ c.parts[o] \subseteq c.granted[o]
  BY <1>4, <1>5
<1> QED BY <1>1, <1>2, <1>3, <1>6 DEF LaneReady

\* What landed of the blob in hand is about to be reported.
LEMMA ReportKeeps ==
  ASSUME IndInv, RemoteInv', StoreInv', Grows, call.pc = "blobPart",
         Like(call', call), call'.pc = "blobReport",
         call'.queue = call.queue, call'.batch = call.batch,
         call'.deferred \subseteq Blobs, call'.landed = call.landed,
         First(call.batch) \notin call'.deferred =>
           Parts(First(call.batch)) \subseteq
             call.granted[First(call.batch)] \cup call.landed
  PROVE  Kept
<1>1. /\ First(call.batch) \in call.batch /\ call.batch \subseteq Blobs
      /\ CallTypes /\ call.pc \in PushPcs
  BY Hand
<1>2. CallTypes'
  BY <1>1 DEF CallTypes, Like, Shape, PushPcs
<1>3. AccountInv'
  BY <1>1, Carried DEF AccountInv, Like
<1>4. BlobInv'
  BY <1>1 DEF IndInv, BlobInv, Like, Grows
<1>5. PackInv' /\ PullInv'
  BY DEF PackInv, PullInv
<1>6. IndInv'
  BY <1>2, <1>3, <1>4, <1>5 DEF IndInv
<1> QED BY <1>6, KeptRunning

\* A blob is put back and not reported as landed.
LEMMA PutBackKeeps ==
  ASSUME IndInv, RemoteInv', StoreInv', Grows, call.pc = "blobPart",
         call' = PutBack(call)
  PROVE  Kept
<1> DEFINE o == First(call.batch)
           back == [call EXCEPT !.deferred = @ \cup {o}]
           told == [back EXCEPT !.pc = "blobReport"]
           rest == [back EXCEPT !.batch = @ \ {First(@)}]
<1>1. o \in Blobs /\ CallTypes /\ Shape(call) /\ call.deferred \subseteq Blobs
  BY Hand DEF CallTypes
<1>2. /\ Like(back, call) /\ back.queue = call.queue
      /\ back.deferred = call.deferred \cup {o}
      /\ back.batch = call.batch /\ back.landed = call.landed
  <2>1. Like(back, call)
    BY <1>1, IdleFields DEF Like, Shape
  <2>2. /\ back.queue = call.queue /\ back.deferred = call.deferred \cup {o}
        /\ back.batch = call.batch /\ back.landed = call.landed
    BY <1>1, IdleFields DEF Shape
  <2> QED BY <2>1, <2>2
<1>3. CASE call.landed # {}
  <2>1. call' = told
    BY <1>3 DEF PutBack
  <2> HIDE DEF back
  <2>2. Shape(back)
    BY <1>2 DEF Like
  <2>3. Like(told, back)
    BY <2>2, IdleFields DEF Like, Shape
  <2>4. /\ told.pc = "blobReport" /\ told.queue = back.queue
        /\ told.batch = back.batch /\ told.deferred = back.deferred
        /\ told.landed = back.landed
    BY <2>2, IdleFields DEF Shape
  <2> HIDE DEF told
  <2>5. Like(call', call)
    BY <1>2, <2>1, <2>3 DEF Like
  <2> QED BY <1>1, <1>2, <2>1, <2>4, <2>5, ReportKeeps
<1>4. CASE call.landed = {}
  <2>1. call' = Onward(rest)
    BY <1>4 DEF PutBack
  <2> HIDE DEF back
  <2>2. Shape(back)
    BY <1>2 DEF Like
  <2>3. Like(rest, back)
    BY <2>2, IdleFields DEF Like, Shape
  <2>4. /\ rest.queue = back.queue /\ rest.deferred = back.deferred
        /\ rest.batch = back.batch \ {First(back.batch)}
    BY <2>2, IdleFields DEF Shape
  <2> HIDE DEF rest
  <2>5. Like(rest, call)
    BY <1>2, <2>3 DEF Like
  <2>6. call.accounted \subseteq Landed' \cup call.swept
    BY Carried, Hand
  <2>7. /\ rest.queue = call.queue /\ rest.deferred \subseteq Blobs
        /\ rest.batch = call.batch \ {First(call.batch)}
    BY <1>1, <1>2, <2>4
  <2>8. LaneReady(rest)
    BY <2>5, <2>6, <2>7, NextBlobReady DEF Like
  <2> QED BY <2>1, <2>8, OnwardKeeps
<1> QED BY <1>3, <1>4

\* A blob every part of which is reported has landed.
LEMMA WholeIsLanded ==
  ASSUME RemoteInv', NEW o \in Blobs, Parts(o) \subseteq remote'.reported[o]
  PROVE  o \in Landed'
<1>1. remote'.reported[o] = Parts(o)
  BY DEF RemoteInv
<1> QED BY <1>1 DEF Landed

\* Every part of the blob in hand is there: it is reported to the session,
\* or counted if nothing of it was sent.
LEMMA PartsDoneKeeps ==
  ASSUME IndInv, PartsDone
  PROVE  Kept
<1> DEFINE o == First(call.batch)
           told == [call EXCEPT !.pc = "blobReport"]
           rest == [call EXCEPT !.batch = @ \ {First(@)},
                                !.accounted = @ \cup {o}]
<1>1. /\ o \in call.batch /\ call.batch \subseteq Blobs /\ Shape(call)
      /\ call.deferred \subseteq Blobs /\ call.pc = "blobPart"
      /\ call.pc \in PushPcs
  BY Hand DEF CallTypes, PartsDone
<1>2. Parts(o) \subseteq call.granted[o] \cup call.landed
  BY DEF PartsDone, Owed
<1>3. RemoteInv' /\ StoreInv' /\ Grows /\ remote' = remote
  BY UnmovedGrows DEF IndInv, PartsDone, Unmoved
<1>4. CASE call.landed # {}
  <2>1. call' = told
    BY <1>4 DEF PartsDone, Finished
  <2>2. Like(told, call)
    BY <1>1, IdleFields DEF Like, Shape
  <2>3. /\ told.pc = "blobReport" /\ told.queue = call.queue
        /\ told.batch = call.batch /\ told.deferred = call.deferred
        /\ told.landed = call.landed
    BY <1>1, IdleFields DEF Shape
  <2> HIDE DEF told
  <2> QED BY <1>1, <1>2, <1>3, <2>1, <2>2, <2>3, ReportKeeps
<1>5. CASE call.landed = {}
  <2>1. call' = Onward(rest)
    BY <1>5 DEF PartsDone, Finished
  <2>2. Shape(rest)
    BY <1>1 DEF Shape
  <2>3. /\ rest.queue = call.queue /\ rest.deferred = call.deferred
        /\ rest.batch = call.batch \ {o}
        /\ rest.accounted = call.accounted \cup {o}
    BY <1>1, IdleFields DEF Shape
  <2>4. /\ rest.acked = call.acked /\ rest.parts = call.parts
        /\ rest.swept = call.swept /\ rest.unsent = call.unsent
        /\ rest.granted = call.granted /\ rest.result = call.result
    BY <1>1, IdleFields DEF Shape
  <2> HIDE DEF rest
  <2>5. call.accounted \subseteq Landed' \cup call.swept
    BY <1>1, <1>3, Carried
  <2>6. o \in call.swept \/ call.granted[o] \subseteq remote.reported[o]
    BY <1>1 DEF IndInv, BlobInv
  <2>7. o \in Landed' \cup call.swept
    <3>1. ASSUME call.granted[o] \subseteq remote.reported[o]
          PROVE  o \in Landed'
      <4>1. o \in Blobs /\ Parts(o) \subseteq remote'.reported[o]
        BY <1>1, <1>2, <1>3, <1>5, <3>1
      <4> HIDE DEF o
      <4> QED BY <1>3, <4>1, WholeIsLanded
    <3> QED BY <2>6, <3>1
  <2>8. LaneReady(rest)
    BY <1>1, <1>3, <2>2, <2>3, <2>4, <2>5, <2>7, NextBlobReady
  <2> QED BY <1>3, <2>1, <2>8, OnwardKeeps
<1> QED BY <1>4, <1>5

\* A part is sent; it is noted as landed only when the store accepted it.
LEMMA UploadPartKeeps ==
  ASSUME IndInv, NEW a, UploadPart(a)
  PROVE  Kept
<1> DEFINE o == First(call.batch)
           p == Part(call)
<1>1. /\ o \in call.batch /\ call.batch \subseteq Blobs /\ Shape(call)
      /\ call.pc = "blobPart" /\ call.pc \in PushPcs /\ CallTypes
      /\ o \in Blobs
  BY Hand DEF UploadPart
<1>2. p \in Parts(o)
  <2>1. Owed(call) \subseteq Parts(o) /\ Owed(call) # {}
    BY DEF Owed, UploadPart
  <2>2. Parts(o) \subseteq Nat
    BY SMT DEF Parts
  <2> QED BY <2>1, <2>2, Least DEF Part
<1>3. store' = store
  BY DEF UploadPart
<1>4. /\ RemoteInv' /\ StoreInv' /\ Grows
      /\ a \in Heard => p \in remote'.held[o]
  <2>1. CASE a \notin Heard
    BY <2>1, <1>3, UnmovedGrows DEF IndInv, UploadPart, Unmoved
  <2>2. CASE a \in Heard
    <3> DEFINE h == [remote.held EXCEPT ![o] = @ \cup {p}]
    <3>1. remote' = [remote EXCEPT !.held = h]
      BY <2>2 DEF UploadPart
    <3>2. remote' = [f \in RemoteFields |-> remote'[f]]
      BY <3>1 DEF IndInv, RemoteInv
    <3>3. /\ remote'.promoted = remote.promoted /\ remote'.head = remote.head
          /\ remote'.staged = remote.staged /\ remote'.claimed = remote.claimed
          /\ remote'.held = h /\ remote'.reported = remote.reported
      BY <3>1 DEF IndInv, RemoteInv, RemoteFields
    <3>4. h = [b \in Blobs |-> h[b]]
      BY DEF IndInv, RemoteInv
    <3>5. \A b \in Blobs : h[b] = IF b = o THEN remote.held[b] \cup {p}
                                  ELSE remote.held[b]
      BY DEF IndInv, RemoteInv
    <3> HIDE DEF h, p, o
    <3>6. \A b \in Blobs :
            /\ remote.held[b] \subseteq h[b] /\ h[b] \subseteq Parts(b)
            /\ remote.reported[b] \subseteq h[b]
      <4>1. \A b \in Blobs : /\ remote.held[b] \subseteq Parts(b)
                             /\ remote.reported[b] \subseteq remote.held[b]
        BY DEF IndInv, RemoteInv
      <4> QED BY <1>2, <3>5, <4>1
    <3>7. RemoteInv' /\ StoreInv' /\ Grows
      BY <1>3, <3>2, <3>3, <3>4, <3>6, PartsGrow DEF IndInv, RemoteInv
    <3>8. p \in h[o]
      BY <1>1, <3>5
    <3> QED BY <3>3, <3>7, <3>8
  <2> QED BY <2>1, <2>2
<1>5. CASE a \in Heard /\ UploadBlobPart[a] = "Ok"
  <2> DEFINE q == [call.parts EXCEPT ![o] = @ \cup {p}]
  <2>1. call' = [call EXCEPT !.landed = @ \cup {p}, !.parts = q,
                             !.moved = TRUE, !.attempt = 0]
    BY <1>5 DEF UploadPart
  <2>2. Shape(call')
    BY <1>1, <2>1 DEF Shape
  <2> HIDE DEF q
  <2>a. call'.parts = q
    BY <1>1, <2>1, IdleFields DEF Shape
  <2> HIDE DEF p
  <2>3. /\ call'.pc = call.pc /\ call'.landed = call.landed \cup {p}
        /\ call'.batch = call.batch /\ call'.deferred = call.deferred
        /\ call'.queue = call.queue
    BY <1>1, <2>1, IdleFields DEF Shape
  <2>4. /\ call'.accounted = call.accounted /\ call'.acked = call.acked
        /\ call'.swept = call.swept /\ call'.unsent = call.unsent
        /\ call'.granted = call.granted /\ call'.result = call.result
    BY <1>1, <2>1, IdleFields DEF Shape
  <2>5. /\ call'.parts = [b \in Blobs |-> call'.parts[b]]
        /\ call'.parts[o] = call.parts[o] \cup {p}
        /\ \A b \in Blobs \ {o} : call'.parts[b] = call.parts[b]
    BY <1>1, <2>a DEF CallTypes, q
  <2> HIDE DEF o
  <2>6. CallTypes'
    BY <1>1, <2>2, <2>3, <2>4, <2>5 DEF CallTypes, Shape
  <2>7. AccountInv'
    <3>1. /\ call.accounted \subseteq Landed' \cup call.swept
          /\ call.acked \subseteq Claimed'
          /\ \A b \in Blobs : call.parts[b] \subseteq remote'.held[b]
      BY <1>1, <1>4, Carried
    <3>2. ASSUME NEW b \in Blobs PROVE call'.parts[b] \subseteq remote'.held[b]
      <4>1. CASE b = o
        BY <1>4, <1>5, <2>5, <3>1, <4>1
      <4>2. CASE b # o
        BY <2>5, <3>1, <4>2
      <4> QED BY <4>1, <4>2
    <3> QED BY <1>1, <2>3, <2>4, <3>1, <3>2 DEF AccountInv
  <2>8. BlobInv'
    <3>1. /\ \A b \in call.batch :
               b \in call.swept \/ call.granted[b] \subseteq remote.reported[b]
          /\ o \in call.swept \/ call.landed \subseteq remote.held[o]
          /\ call.parts[o] \subseteq call.granted[o] \cup call.landed
          /\ \A b \in call.batch \ {o} : call.parts[b] \subseteq call.granted[b]
      BY <1>1 DEF IndInv, BlobInv, o
    <3>2. o \in call.swept \/ call.landed \cup {p} \subseteq remote'.held[o]
      BY <1>1, <1>4, <1>5, <3>1 DEF Grows
    <3>3. \A b \in call.batch :
            b \in call.swept \/ call.granted[b] \subseteq remote'.reported[b]
      BY <1>1, <1>4, <3>1 DEF Grows
    <3>4. call'.parts[o] \subseteq call.granted[o] \cup (call.landed \cup {p})
      BY <2>5, <3>1
    <3>5. \A b \in call.batch \ {o} : call'.parts[b] \subseteq call.granted[b]
      BY <1>1, <2>5, <3>1
    <3>6. First(call'.batch) = o /\ call'.batch # {} /\ call'.batch \subseteq Blobs
      BY <1>1, <2>3 DEF o
    <3> QED BY <1>1, <2>3, <2>4, <3>2, <3>3, <3>4, <3>5, <3>6 DEF BlobInv
  <2>9. PackInv' /\ PullInv'
    BY <1>1, <2>3 DEF PackInv, PullInv
  <2>b. IndInv'
    BY <1>4, <2>6, <2>7, <2>8, <2>9 DEF IndInv
  <2> QED BY <1>1, <2>3, <2>b, KeptRunning
<1>6. CASE call' = [call EXCEPT !.attempt = @ + 1]
  <2>1. Like(call', call)
    <3>1. Shape(call')
      BY <1>1, <1>6 DEF Shape
    <3>2. /\ call'.accounted = call.accounted /\ call'.acked = call.acked
          /\ call'.parts = call.parts /\ call'.swept = call.swept
      BY <1>1, <1>6, IdleFields DEF Shape
    <3>3. /\ call'.unsent = call.unsent /\ call'.granted = call.granted
          /\ call'.result = call.result
      BY <1>1, <1>6, IdleFields DEF Shape
    <3> QED BY <3>1, <3>2, <3>3 DEF Like
  <2>2. /\ call'.pc = call.pc /\ call'.missing = call.missing
        /\ call'.queue = call.queue /\ call'.batch = call.batch
        /\ call'.deferred = call.deferred /\ call'.landed = call.landed
    BY <1>1, <1>6, IdleFields DEF Shape
  <2> QED BY <1>3, <1>4, <2>1, <2>2, CountKeeps
<1>7. ASSUME NEW how, how # "Ok", call' = Ended(how) PROVE Kept
  BY <1>4, <1>7, StopKeeps
<1>8. CASE call' = PutBack(call)
  BY <1>1, <1>4, <1>8, PutBackKeeps
<1>9. \/ a \in Heard /\ UploadBlobPart[a] = "Ok"
      \/ call' = [call EXCEPT !.attempt = @ + 1]
      \/ \E how : how # "Ok" /\ call' = Ended(how)
      \/ call' = PutBack(call)
  <2>1. a \in Answers(UploadBlobPart) \cup {"status404"}
    BY DEF UploadPart
  <2>2. /\ UploadBlobPart[a] \in Outcomes
        /\ UploadBlobPart[a] = "Ok" => a \in Heard
    BY <2>1, UploadPartOutcomes
  <2> QED BY <2>2 DEF UploadPart, Outcomes, Retried
<1> QED BY <1>5, <1>6, <1>7, <1>8, <1>9

\* Reporting the parts of a blob makes it whole in the session, unless it
\* was put back.
LEMMA ReportBlobPartsKeeps ==
  ASSUME IndInv, NEW a \in Answers(ReportRoute), ReportBlobParts(a)
  PROVE  Kept
<1> DEFINE o == First(call.batch)
           c == [call EXCEPT !.batch = @ \ {o}, !.landed = {},
                   !.accounted = IF o \in call.deferred THEN @
                                 ELSE @ \cup {o}]
<1>1. /\ o \in call.batch /\ call.batch \subseteq Blobs /\ Shape(call)
      /\ call.pc = "blobReport" /\ call.pc \in PushPcs /\ CallTypes
      /\ o \in Blobs /\ call.deferred \subseteq Blobs
  BY Hand DEF ReportBlobParts, CallTypes
<1>2. store' = store
  BY DEF ReportBlobParts
<1>3. /\ RemoteInv' /\ StoreInv' /\ Grows
      /\ a \in Heard => call.landed \cap remote.held[o] \subseteq remote'.reported[o]
  <2>1. CASE a \notin Heard
    BY <2>1, <1>2, UnmovedGrows DEF IndInv, ReportBlobParts, Unmoved
  <2>2. CASE a \in Heard
    <3> DEFINE r == [remote.reported EXCEPT
                       ![o] = @ \cup (call.landed \cap remote.held[o])]
    <3>1. remote' = [remote EXCEPT !.reported = r]
      BY <2>2 DEF ReportBlobParts
    <3>2. remote' = [f \in RemoteFields |-> remote'[f]]
      BY <3>1 DEF IndInv, RemoteInv
    <3>3. /\ remote'.promoted = remote.promoted /\ remote'.head = remote.head
          /\ remote'.staged = remote.staged /\ remote'.claimed = remote.claimed
          /\ remote'.held = remote.held /\ remote'.reported = r
      BY <3>1 DEF IndInv, RemoteInv, RemoteFields
    <3>4. r = [b \in Blobs |-> r[b]]
      BY DEF IndInv, RemoteInv
    <3>5. \A b \in Blobs :
            r[b] = IF b = o
                   THEN remote.reported[b] \cup (call.landed \cap remote.held[b])
                   ELSE remote.reported[b]
      BY DEF IndInv, RemoteInv
    <3> HIDE DEF r, o
    <3>6. \A b \in Blobs :
            /\ remote.held[b] \subseteq Parts(b)
            /\ remote.reported[b] \subseteq r[b] /\ r[b] \subseteq remote.held[b]
      BY <3>5 DEF IndInv, RemoteInv
    <3>7. RemoteInv' /\ StoreInv' /\ Grows
      BY <1>2, <3>2, <3>3, <3>4, <3>6, PartsGrow DEF IndInv, RemoteInv
    <3>8. call.landed \cap remote.held[o] \subseteq r[o]
      BY <1>1, <3>5
    <3> QED BY <3>3, <3>7, <3>8
  <2> QED BY <2>1, <2>2
<1>4. CASE a \in Heard /\ call' = Onward(c)
  <2>1. Shape(c)
    BY <1>1 DEF Shape
  <2>2. /\ c.queue = call.queue /\ c.deferred = call.deferred
        /\ c.batch = call.batch \ {o}
        /\ c.accounted = IF o \in call.deferred THEN call.accounted
                         ELSE call.accounted \cup {o}
    BY <1>1, IdleFields DEF Shape
  <2>3. /\ c.acked = call.acked /\ c.parts = call.parts
        /\ c.swept = call.swept /\ c.unsent = call.unsent
        /\ c.granted = call.granted /\ c.result = call.result
    BY <1>1, IdleFields DEF Shape
  <2> HIDE DEF c
  <2>4. call.accounted \subseteq Landed' \cup call.swept
    BY <1>1, <1>3, Carried
  <2>5. ASSUME o \notin call.deferred, o \notin call.swept PROVE o \in Landed'
    <3>1. /\ call.granted[o] \subseteq remote.reported[o]
          /\ call.landed \subseteq remote.held[o]
          /\ Parts(o) \subseteq call.granted[o] \cup call.landed
      BY <1>1, <2>5 DEF IndInv, BlobInv
    <3>2. /\ call.granted[o] \subseteq remote'.reported[o]
          /\ call.landed \subseteq remote'.reported[o]
      BY <1>1, <1>3, <1>4, <3>1 DEF Grows
    <3>3. Parts(o) \subseteq remote'.reported[o]
      BY <3>1, <3>2
    <3> HIDE DEF o
    <3> QED BY <1>1, <1>3, <3>3, WholeIsLanded
  <2>6. c.accounted \subseteq Landed' \cup c.swept
    BY <2>2, <2>3, <2>4, <2>5
  <2>7. LaneReady(c)
    BY <1>1, <1>3, <2>1, <2>2, <2>3, <2>6, NextBlobReady
  <2> QED BY <1>3, <1>4, <2>7, OnwardKeeps
<1>5. ASSUME NEW how, how # "Ok", call' = Ended(how) PROVE Kept
  BY <1>3, <1>5, StopKeeps
<1>6. \/ a \in Heard /\ call' = Onward(c)
      \/ \E how : how # "Ok" /\ call' = Ended(how)
  BY ControlOutcomes DEF ReportBlobParts, ReportRoute
<1> QED BY <1>4, <1>5, <1>6

\* The pack lane begins, or begins again, with what the probe listed.
LEMMA ProbeKeeps ==
  ASSUME IndInv, Unmoved, call.pc \in {"blobProbe", "reprobe"},
         NEW packs \in Views(PackLane, Blobs), NEW blobs, NEW rounds,
         VerifyLanes(packs, blobs),
         call' = Packing(call, Digests(packs), rounds)
  PROVE  Kept
<1>1. /\ RemoteInv' /\ StoreInv' /\ Grows /\ CallTypes
      /\ call.pc \in PushPcs /\ call.result = "none"
  BY UnmovedGrows DEF IndInv, CallTypes, PushPcs
<1>2. Digests(packs) \subseteq Objects
  BY ViewedBlobs
<1>3. PackLane \subseteq Objects /\ PackLane \cap Claimed = {}
  BY DEF PackLane
<1>4. Digests(packs) \cap call.acked = {}
  BY <1>3, ViewedPacks DEF IndInv, AccountInv
<1>5. /\ call.accounted \subseteq Landed' \cup call.swept
      /\ call.acked \subseteq Claimed'
      /\ \A o \in Blobs : call.parts[o] \subseteq remote'.held[o]
  BY <1>1, Carried
<1>6. /\ Shape(call) /\ call.queue \subseteq Blobs
      /\ call.deferred \subseteq Blobs /\ call.batch \subseteq Objects
      /\ call.granted = [o \in Blobs |-> call.granted[o]]
      /\ call.parts = [o \in Blobs |-> call.parts[o]]
  BY <1>1 DEF CallTypes
<1> QED BY <1>1, <1>2, <1>4, <1>5, <1>6, PackingKeeps

\* The probe after the blob rounds.
LEMMA BlobProbeKeeps ==
  ASSUME IndInv, NEW a, NEW packs \in Views(PackLane, Blobs), NEW blobs,
         BlobProbe(a, packs, blobs)
  PROVE  Kept
<1>1. Unmoved /\ call.pc = "blobProbe"
  BY DEF BlobProbe, Unmoved
<1>2. RemoteInv' /\ StoreInv' /\ Grows
  BY <1>1, UnmovedGrows DEF IndInv
<1>3. ASSUME NEW how, how # "Ok", call' = Ended(how) PROVE Kept
  BY <1>2, <1>3, StopKeeps
<1>4. \/ \E how : how # "Ok" /\ call' = Ended(how)
      \/ VerifyLanes(packs, blobs) /\ call' = Packing(call, Digests(packs), 0)
  BY DEF BlobProbe
<1> QED BY <1>1, <1>3, <1>4, ProbeKeeps

\* The probe after a pack grant ran out.
LEMMA ReprobeKeeps ==
  ASSUME IndInv, NEW a, NEW packs \in Views(PackLane, Blobs), NEW blobs,
         Reprobe(a, packs, blobs)
  PROVE  Kept
<1>1. Unmoved /\ call.pc = "reprobe"
  BY DEF Reprobe, Unmoved
<1>2. RemoteInv' /\ StoreInv' /\ Grows
  BY <1>1, UnmovedGrows DEF IndInv
<1>3. ASSUME NEW how, how # "Ok", call' = Ended(how) PROVE Kept
  BY <1>2, <1>3, StopKeeps
<1>4. \/ \E how : how # "Ok" /\ call' = Ended(how)
      \/ /\ VerifyLanes(packs, blobs)
         /\ \E n : call' = Packing(call, Digests(packs), n)
  BY DEF Reprobe, Replanned
<1> QED BY <1>1, <1>3, <1>4, ProbeKeeps

\* A grant that has run out sends the call back to the probe.
LEMMA RefreshKeeps ==
  ASSUME IndInv, RemoteInv', StoreInv', Grows,
         call.pc \in {"packGrants", "putPack"},
         call' = [call EXCEPT !.pc = "reprobe"]
  PROVE  Kept
<1>1. CallTypes /\ Shape(call) /\ call.pc \in PushPcs /\ call.result = "none"
  BY DEF IndInv, CallTypes, PushPcs
<1>2. Like(call', call)
  BY <1>1, IdleFields DEF Like, Shape
<1>3. /\ call'.pc = "reprobe" /\ call'.queue = call.queue
      /\ call'.batch = call.batch /\ call'.deferred = call.deferred
  BY <1>1, IdleFields DEF Shape
<1>4. CallTypes'
  BY <1>1, <1>2, <1>3 DEF CallTypes, Like, Shape, PushPcs
<1>5. /\ call.accounted \subseteq Landed' \cup call.swept
      /\ call.acked \subseteq Claimed'
      /\ \A o \in Blobs : call.parts[o] \subseteq remote'.held[o]
  BY <1>1, Carried
<1> QED BY <1>2, <1>3, <1>4, <1>5, QuietKeeps DEF Like

\* On with the packs after the one in hand; c is the call with it counted, or
\* not counted.
LEMMA NextPackKeeps ==
  ASSUME IndInv, RemoteInv', StoreInv', Grows,
         call.pc \in {"packGrants", "putPack"},
         NEW c, Shape(c), c.unsent = call.unsent, c.queue = call.queue,
         c.deferred = call.deferred, c.batch = call.batch,
         c.granted = call.granted, c.parts = call.parts,
         c.result = call.result, c.swept = call.swept,
         c.acked \subseteq call.acked \cup Pack, c.acked \subseteq Claimed',
         c.accounted \subseteq Landed' \cup c.swept,
         call' = NextPack(c)
  PROVE  Kept
<1>1. CallTypes /\ call.pc \in PushPcs /\ call.result = "none"
  BY DEF IndInv, CallTypes, PushPcs
<1>2. Shape(call')
  BY DEF NextPack, Shape
<1>3. /\ call'.pc \in {"reprobe", "packGrants"}
      /\ call'.unsent = call.unsent \ Pack
      /\ call'.acked = c.acked /\ call'.accounted = c.accounted
  BY IdleFields DEF NextPack, Shape
<1>4. /\ call'.queue = c.queue /\ call'.deferred = c.deferred
      /\ call'.batch = c.batch /\ call'.granted = c.granted
      /\ call'.parts = c.parts /\ call'.result = c.result
      /\ call'.swept = c.swept
  BY IdleFields DEF NextPack, Shape
<1>5. CallTypes'
  <2>1. /\ call.unsent \subseteq Objects /\ call.queue \subseteq Blobs
        /\ call.deferred \subseteq Blobs /\ call.batch \subseteq Objects
        /\ call.granted = [o \in Blobs |-> call.granted[o]]
        /\ call.parts = [o \in Blobs |-> call.parts[o]]
    BY <1>1 DEF CallTypes
  <2>2. call'.unsent \subseteq Objects
    BY <1>3, <2>1
  <2>3. /\ call'.queue \subseteq Blobs /\ call'.deferred \subseteq Blobs
        /\ call'.batch \subseteq Objects
        /\ call'.granted = [o \in Blobs |-> call'.granted[o]]
        /\ call'.parts = [o \in Blobs |-> call'.parts[o]]
        /\ call'.result = "none"
    <3>1. /\ call'.queue = call.queue /\ call'.deferred = call.deferred
          /\ call'.batch = call.batch /\ call'.granted = call.granted
          /\ call'.parts = call.parts /\ call'.result = call.result
      BY <1>4
    <3> QED BY <1>1, <2>1, <3>1
  <2> QED BY <1>2, <1>3, <2>2, <2>3 DEF CallTypes, Shape, PushPcs
<1>6. \A o \in Blobs : call.parts[o] \subseteq remote'.held[o]
  BY <1>1, Carried
<1>7. AccountInv'
  BY <1>3, <1>4, <1>6 DEF AccountInv
<1>8. PackInv'
  BY <1>3 DEF IndInv, PackInv
<1>9. BlobInv' /\ PullInv'
  BY <1>3 DEF BlobInv, PullInv
<1>10. IndInv'
  BY <1>5, <1>7, <1>8, <1>9 DEF IndInv
<1> QED BY <1>3, <1>10, KeptRunning

\* A pack is granted, or is staged already and is counted.
LEMMA PackGrantsKeeps ==
  ASSUME IndInv, NEW a \in Answers(PackGrantsRoute), NEW whole,
         PackGrants(a, whole)
  PROVE  Kept
<1>1. /\ CallTypes /\ Shape(call) /\ call.pc = "packGrants"
      /\ call.pc \in PushPcs /\ call.result = "none"
  BY DEF IndInv, CallTypes, PackGrants, PushPcs
<1>2. Pack \subseteq Objects
  BY <1>1, PackIn DEF CallTypes
<1>3. /\ RemoteInv' /\ StoreInv' /\ Grows
      /\ a \in Heard => Pack \in remote'.claimed
  <2>1. CASE a \notin Heard
    BY <2>1, UnmovedGrows DEF IndInv, PackGrants, Unmoved
  <2>2. CASE a \in Heard
    <3>1. /\ remote' = [remote EXCEPT !.claimed = @ \cup {Pack}]
          /\ store' = store
      BY <2>2 DEF PackGrants
    <3>2. RemoteInv' /\ StoreInv' /\ Grows
      BY <1>2, <3>1, PackGrows DEF IndInv
    <3>3. remote'.claimed = remote.claimed \cup {Pack}
      BY <3>1 DEF IndInv, RemoteInv, RemoteFields
    <3> QED BY <3>2, <3>3
  <2> QED BY <2>1, <2>2
<1>4. /\ call.accounted \subseteq Landed' \cup call.swept
      /\ call.acked \subseteq Claimed'
      /\ \A o \in Blobs : call.parts[o] \subseteq remote'.held[o]
  BY <1>1, <1>3, Carried
<1>5. CASE call' = [call EXCEPT !.pc = "reprobe"]
  BY <1>1, <1>3, <1>5, RefreshKeeps
<1>6. ASSUME NEW how, how # "Ok", call' = Ended(how) PROVE Kept
  BY <1>3, <1>6, StopKeeps
<1>7. CASE call' = NextPack(call)
  BY <1>1, <1>3, <1>4, <1>7, NextPackKeeps
<1>8. CASE a \in Heard /\ call' = [call EXCEPT !.pc = "putPack"]
  <2>1. Like(call', call)
    BY <1>1, <1>8, IdleFields DEF Like, Shape
  <2>2. /\ call'.pc = "putPack" /\ call'.queue = call.queue
        /\ call'.batch = call.batch /\ call'.deferred = call.deferred
    BY <1>1, <1>8, IdleFields DEF Shape
  <2>3. CallTypes'
    BY <1>1, <2>1, <2>2 DEF CallTypes, Like, Shape, PushPcs
  <2>4. AccountInv'
    BY <1>4, <2>1, <2>2 DEF AccountInv, Like
  <2>5. Pack' = Pack
    BY <2>1 DEF Pack, Like
  <2>6. PackInv'
    BY <1>1, <1>3, <1>8, <2>1, <2>5 DEF IndInv, PackInv, Like
  <2>7. BlobInv' /\ PullInv'
    BY <2>2 DEF BlobInv, PullInv
  <2>8. IndInv'
    BY <1>3, <2>3, <2>4, <2>6, <2>7 DEF IndInv
  <2> QED BY <2>2, <2>8, KeptRunning
<1>9. \/ call' = [call EXCEPT !.pc = "reprobe"]
      \/ \E how : how # "Ok" /\ call' = Ended(how)
      \/ call' = NextPack(call)
      \/ a \in Heard /\ call' = [call EXCEPT !.pc = "putPack"]
  <2>1. /\ PackGrantsRoute[a] \in Outcomes
        /\ PackGrantsRoute[a] = "Ok" => a \in Heard
    BY ControlOutcomes DEF PackGrantsRoute
  <2> QED BY <2>1 DEF PackGrants, Outcomes
<1> QED BY <1>5, <1>6, <1>7, <1>8, <1>9

\* A pack is sent, and counted when the store accepted it.
LEMMA UploadOnePackKeeps ==
  ASSUME IndInv, NEW a \in Answers(UploadPack), UploadOnePack(a)
  PROVE  Kept
<1> DEFINE c == [call EXCEPT !.acked = @ \cup Pack, !.accounted = @ \cup Pack]
<1>1. /\ CallTypes /\ Shape(call) /\ call.pc = "putPack"
      /\ call.pc \in PushPcs /\ call.result = "none"
      /\ Pack \in remote.claimed /\ store' = store
  BY DEF IndInv, CallTypes, UploadOnePack, PushPcs, PackInv
<1>2. Pack \subseteq Objects
  BY <1>1, PackIn DEF CallTypes
<1>3. /\ RemoteInv' /\ StoreInv' /\ Grows
      /\ a \in Heard => Pack \in remote'.staged
  <2>1. CASE a \notin Heard
    BY <2>1, UnmovedGrows DEF IndInv, UploadOnePack, Unmoved
  <2>2. CASE a \in Heard
    <3>1. remote' = [remote EXCEPT !.staged = @ \cup {Pack}]
      BY <2>2 DEF UploadOnePack
    <3>2. RemoteInv' /\ StoreInv' /\ Grows
      BY <1>1, <1>2, <3>1, PackGrows DEF IndInv
    <3>3. remote'.staged = remote.staged \cup {Pack}
      BY <3>1 DEF IndInv, RemoteInv, RemoteFields
    <3> QED BY <3>2, <3>3
  <2> QED BY <2>1, <2>2
<1>4. /\ call.accounted \subseteq Landed' \cup call.swept
      /\ call.acked \subseteq Claimed'
  BY <1>1, <1>3, Carried
<1>5. CASE call' = [call EXCEPT !.pc = "reprobe"]
  BY <1>1, <1>3, <1>5, RefreshKeeps
<1>6. ASSUME NEW how, how # "Ok", call' = Ended(how) PROVE Kept
  BY <1>3, <1>6, StopKeeps
<1>7. CASE a \in Heard /\ call' = NextPack(c)
  <2>1. Pack \subseteq Claimed'
    BY <1>1, <1>3, <1>7 DEF Claimed, Grows
  <2>2. Pack \subseteq Landed'
    BY <2>1 DEF Landed
  <2>3. Shape(c)
    BY <1>1 DEF Shape
  <2>4. /\ c.acked = call.acked \cup Pack
        /\ c.accounted = call.accounted \cup Pack
        /\ c.unsent = call.unsent /\ c.queue = call.queue
    BY <1>1, IdleFields DEF Shape
  <2>5. /\ c.deferred = call.deferred /\ c.batch = call.batch
        /\ c.granted = call.granted /\ c.parts = call.parts
        /\ c.result = call.result /\ c.swept = call.swept
    BY <1>1, IdleFields DEF Shape
  <2> HIDE DEF c
  <2> QED BY <1>1, <1>3, <1>4, <1>7, <2>1, <2>2, <2>3, <2>4, <2>5,
             NextPackKeeps
<1>8. CASE call' = [call EXCEPT !.attempt = @ + 1]
  <2>1. Like(call', call)
    BY <1>1, <1>8, IdleFields DEF Like, Shape
  <2>2. /\ call'.pc = call.pc /\ call'.missing = call.missing
        /\ call'.queue = call.queue /\ call'.batch = call.batch
        /\ call'.deferred = call.deferred /\ call'.landed = call.landed
    BY <1>1, <1>8, IdleFields DEF Shape
  <2> QED BY <1>1, <1>3, <2>1, <2>2, CountKeeps
<1>9. \/ call' = [call EXCEPT !.pc = "reprobe"]
      \/ \E how : how # "Ok" /\ call' = Ended(how)
      \/ a \in Heard /\ call' = NextPack(c)
      \/ call' = [call EXCEPT !.attempt = @ + 1]
  <2>1. UploadPack[a] \in Outcomes /\ (UploadPack[a] = "Ok" => a \in Heard)
    BY UploadPackOutcomes
  <2> QED BY <2>1 DEF UploadOnePack, Outcomes, Retried
<1> QED BY <1>5, <1>6, <1>7, <1>8, <1>9

\* The invariant holds, and a call that has just succeeded tells the truth.
Told ==
  /\ IndInv'
  /\ call.result = "none" /\ call'.result = "Ok" =>
       \/ call.pc \in PushPcs /\ remote'.promoted = Objects
                              /\ remote'.head = "ours"
       \/ call.pc \in PullPcs /\ store'.objects = Objects

\* Completing: Ok is returned only when the remote has promoted all of it.
LEMMA CompleteTells ==
  ASSUME IndInv, NEW a \in Answers(CompleteRoute), NEW more, Complete(a, more)
  PROVE  Told
<1> DEFINE now == remote.promoted \cup more
<1>1. /\ CallTypes /\ Shape(call) /\ call.pc = "complete"
      /\ call.pc \in PushPcs /\ call.result = "none" /\ store' = store
  BY DEF IndInv, CallTypes, Complete, PushPcs
<1>2. now \subseteq Objects
  <2>1. more \subseteq Ready
    BY DEF Complete, Admissions
  <2>2. Claimed \subseteq Objects
    BY DEF Claimed, IndInv, RemoteInv
  <2> QED BY <2>1, <2>2, Objects_Numbers DEF Ready, IndInv, RemoteInv
<1>3. /\ RemoteInv' /\ StoreInv' /\ Grows
      /\ a \in Heard /\ Status(now) = "Promoted" =>
           Objects \subseteq remote'.promoted /\ remote'.head = "ours"
  <2>1. CASE a \notin Heard
    BY <1>1, <2>1, UnmovedGrows DEF IndInv, Complete, Unmoved
  <2>2. CASE a \in Heard
    <3> DEFINE h == IF Status(now) = "Promoted" THEN "ours" ELSE remote.head
    <3>1. remote' = [remote EXCEPT !.promoted = now, !.head = h]
      BY <2>2 DEF Complete
    <3>2. Status(now) = "Promoted" => Objects \subseteq now
      BY DEF Status
    <3>3. h = "ours" => Objects \subseteq now
      BY <3>2 DEF IndInv, RemoteInv
    <3>4. Status(now) = "Promoted" => h = "ours"
      OBVIOUS
    <3> HIDE DEF h, now
    <3>5. remote' = [f \in RemoteFields |-> remote'[f]]
      BY <3>1 DEF IndInv, RemoteInv
    <3>6. /\ remote'.promoted = now /\ remote'.head = h
          /\ remote'.claimed = remote.claimed /\ remote'.held = remote.held
          /\ remote'.staged = remote.staged
          /\ remote'.reported = remote.reported
      BY <3>1 DEF IndInv, RemoteInv, RemoteFields
    <3>7. RemoteInv'
      BY <1>2, <3>3, <3>5, <3>6 DEF IndInv, RemoteInv
    <3>8. StoreInv'
      BY <1>1 DEF IndInv, StoreInv
    <3>9. Grows
      BY <1>1, <3>6 DEF Grows, now
    <3> QED BY <3>2, <3>4, <3>6, <3>7, <3>8, <3>9
  <2> QED BY <2>1, <2>2
<1>4. ASSUME Kept PROVE Told
  BY <1>4 DEF Kept, Told
<1>5. CASE a \in Heard /\ Status(now) = "Promoted" /\ call' = Ended("Ok")
  <2>1. /\ call.accounted \subseteq Landed' \cup call.swept
        /\ call.acked \subseteq Claimed'
    BY <1>1, <1>3, Carried
  <2>2. IndInv'
    BY <1>1, <1>3, <1>5, <2>1, EndInv
  <2>3. remote'.promoted = Objects /\ remote'.head = "ours"
    BY <1>3, <1>5 DEF RemoteInv
  <2> QED BY <1>1, <2>2, <2>3 DEF Told
<1>6. ASSUME NEW how, how # "Ok", call' = Ended(how) PROVE Told
  BY <1>3, <1>4, <1>6, StopKeeps
<1>7. ASSUME NEW n, NEW m, call' = [call EXCEPT !.admitted = n, !.stalled = m]
      PROVE  Told
  <2>1. Like(call', call)
    BY <1>1, <1>7, IdleFields DEF Like, Shape
  <2>2. /\ call'.pc = call.pc /\ call'.missing = call.missing
        /\ call'.queue = call.queue /\ call'.batch = call.batch
        /\ call'.deferred = call.deferred /\ call'.landed = call.landed
    BY <1>1, <1>7, IdleFields DEF Shape
  <2> QED BY <1>1, <1>3, <1>4, <2>1, <2>2, CountKeeps
<1>8. CASE call' = [call EXCEPT !.stalled = @ + 1]
  <2>1. Like(call', call)
    BY <1>1, <1>8, IdleFields DEF Like, Shape
  <2>2. /\ call'.pc = call.pc /\ call'.missing = call.missing
        /\ call'.queue = call.queue /\ call'.batch = call.batch
        /\ call'.deferred = call.deferred /\ call'.landed = call.landed
    BY <1>1, <1>8, IdleFields DEF Shape
  <2> QED BY <1>1, <1>3, <1>4, <2>1, <2>2, CountKeeps
<1>9. \/ a \in Heard /\ Status(now) = "Promoted" /\ call' = Ended("Ok")
      \/ \E how : how # "Ok" /\ call' = Ended(how)
      \/ \E n, m : call' = [call EXCEPT !.admitted = n, !.stalled = m]
      \/ call' = [call EXCEPT !.stalled = @ + 1]
  <2>1. /\ CompleteRoute[a] \in Outcomes
        /\ CompleteRoute[a] = "Ok" => a \in Heard
    BY OtherOutcomes
  <2>2. CASE CompleteRoute[a] = "Ok"
    <3>1. call' = Polled(Status(now), Cardinality(now))
      BY <2>2 DEF Complete
    <3>2. Status(now) \in {"Incomplete", "Failed", "Promoted"}
      BY DEF Status
    <3>3. CASE Status(now) = "Promoted"
      BY <2>1, <2>2, <3>1, <3>3 DEF Polled
    <3>4. CASE Status(now) = "Failed"
      BY <3>1, <3>4 DEF Polled
    <3>5. CASE Status(now) = "Incomplete"
      <4> HIDE DEF now
      <4> QED BY <3>1, <3>5 DEF Polled, Stalled
    <3> QED BY <3>2, <3>3, <3>4, <3>5
  <2>3. CASE CompleteRoute[a] = "Io"
    BY <2>3 DEF Complete, Stalled
  <2>4. CASE CompleteRoute[a] \in {"Expired", "Refused"}
    BY <2>4 DEF Complete
  <2> QED BY <2>1, <2>2, <2>3, <2>4 DEF Outcomes
<1> QED BY <1>5, <1>6, <1>7, <1>8, <1>9

-----------------------------------------------------------------------------
(* The steps of a pull.                                                    *)

\* The pull plans to fetch exactly what the store lacks.
LEMMA JournalKeeps ==
  ASSUME IndInv, Unmoved, call.pc \in {"head", "manifest"},
         call' = Journal(call)
  PROVE  Kept
<1>1. RemoteInv' /\ StoreInv' /\ Grows
  BY UnmovedGrows DEF IndInv
<1>2. CallTypes /\ Shape(call) /\ call.result = "none"
  BY DEF IndInv, CallTypes
<1>3. Shape(call')
  BY <1>2 DEF Journal, Shape
<1>4. /\ call'.pc = IF Objects \ store.objects = {} THEN "adopt"
                    ELSE "fetchGrants"
      /\ call'.missing = Objects \ store.objects /\ call'.batch = {}
      /\ call'.accounted = store.objects
  BY <1>2, IdleFields DEF Journal, Shape
<1>5. /\ call'.unsent = call.unsent /\ call'.queue = call.queue
      /\ call'.deferred = call.deferred /\ call'.granted = call.granted
      /\ call'.parts = call.parts /\ call'.result = call.result
      /\ call'.acked = call.acked
  BY <1>2, IdleFields DEF Journal, Shape
<1>6. CallTypes'
  BY <1>2, <1>3, <1>4, <1>5 DEF CallTypes, Shape, PullPcs
<1>7. AccountInv'
  <2>1. store'.objects \subseteq Landed' /\ store' = store
    BY DEF Landed, Unmoved
  <2>2. call.acked \subseteq Claimed'
    BY <1>1, GrowsLanded DEF IndInv, AccountInv
  <2> QED BY <1>4, <1>5, <2>1, <2>2 DEF AccountInv, PushPcs
<1>8. PullInv'
  BY <1>4 DEF PullInv, Unmoved
<1>9. BlobInv' /\ PackInv'
  BY <1>4 DEF BlobInv, PackInv
<1>10. IndInv'
  BY <1>1, <1>6, <1>7, <1>8, <1>9 DEF IndInv
<1> QED BY <1>4, <1>10, KeptRunning

\* Reading the head.
LEMMA ReadHeadKeeps ==
  ASSUME IndInv, NEW a, ReadHead(a)
  PROVE  Kept
<1>1. /\ Unmoved /\ call.pc = "head" /\ CallTypes /\ Shape(call)
      /\ call.result = "none" /\ call.missing = {}
  BY DEF ReadHead, Unmoved, IndInv, CallTypes, PullInv
<1>2. RemoteInv' /\ StoreInv' /\ Grows
  BY <1>1, UnmovedGrows DEF IndInv
<1>3. ASSUME NEW how, how # "Ok", call' = Ended(how) PROVE Kept
  BY <1>2, <1>3, StopKeeps
<1>4. CASE call' = [call EXCEPT !.pc = "manifestGrant"]
  <2>1. Like(call', call)
    <3>1. Shape(call')
      BY <1>1, <1>4 DEF Shape
    <3>2. /\ call'.accounted = call.accounted /\ call'.acked = call.acked
          /\ call'.parts = call.parts /\ call'.swept = call.swept
      BY <1>1, <1>4, IdleFields DEF Shape
    <3>3. /\ call'.unsent = call.unsent /\ call'.granted = call.granted
          /\ call'.result = call.result
      BY <1>1, <1>4, IdleFields DEF Shape
    <3> QED BY <3>1, <3>2, <3>3 DEF Like
  <2>2. /\ call'.pc = "manifestGrant" /\ call'.missing = call.missing
        /\ call'.queue = call.queue /\ call'.batch = call.batch
        /\ call'.deferred = call.deferred
    BY <1>1, <1>4, IdleFields DEF Shape
  <2>3. CallTypes'
    BY <1>1, <2>1, <2>2 DEF CallTypes, Like, Shape, PullPcs
  <2>4. /\ call.accounted \subseteq Landed' \cup call.swept
        /\ call.acked \subseteq Claimed'
    BY <1>2, GrowsLanded DEF IndInv, AccountInv
  <2> QED BY <1>1, <1>2, <2>1, <2>2, <2>3, <2>4, QuietKeeps DEF Like, PushPcs
<1>5. \/ \E how : how # "Ok" /\ call' = Ended(how)
      \/ call' = [call EXCEPT !.pc = "manifestGrant"]
      \/ call' = Journal(call)
  BY DEF ReadHead
<1> QED BY <1>1, <1>3, <1>4, <1>5, JournalKeeps

\* Fetching the manifest.
LEMMA FetchManifestKeeps ==
  ASSUME IndInv, NEW a, FetchManifest(a)
  PROVE  Kept
<1>1. Unmoved /\ call.pc = "manifest"
  BY DEF FetchManifest, Unmoved
<1>2. RemoteInv' /\ StoreInv' /\ Grows
  BY <1>1, UnmovedGrows DEF IndInv
<1>3. ASSUME NEW how, how # "Ok", call' = Ended(how) PROVE Kept
  BY <1>2, <1>3, StopKeeps
<1>4. \/ \E how : how # "Ok" /\ call' = Ended(how)
      \/ call' = Journal(call)
  BY DEF FetchManifest
<1> QED BY <1>1, <1>3, <1>4, JournalKeeps

\* Download grants are asked for a chunk of what is missing.
LEMMA DownloadGrantsKeeps ==
  ASSUME IndInv, NEW a, NEW whole, DownloadGrants(a, whole)
  PROVE  Kept
<1> DEFINE c == [call EXCEPT !.pc = Granting[call.pc], !.attempt = 0,
                   !.batch = FirstOf(call.missing, GrantBatch)]
<1>1. /\ Unmoved /\ call.pc \in {"manifestGrant", "fetchGrants"}
      /\ CallTypes /\ Shape(call) /\ call.result = "none"
  BY DEF DownloadGrants, Granting, Unmoved, IndInv, CallTypes
<1>2. RemoteInv' /\ StoreInv' /\ Grows /\ store' = store
  BY <1>1, UnmovedGrows DEF IndInv, Unmoved
<1>3. ASSUME NEW how, how # "Ok", call' = Ended(how) PROVE Kept
  BY <1>2, <1>3, StopKeeps
<1>4. CASE call' = c
  <2>1. Shape(call')
    BY <1>1, <1>4 DEF Shape
  <2>2. /\ call'.pc = Granting[call.pc] /\ call'.missing = call.missing
        /\ call'.batch = FirstOf(call.missing, GrantBatch)
        /\ call'.queue = call.queue /\ call'.deferred = call.deferred
    BY <1>1, <1>4, IdleFields DEF Shape
  <2>3. /\ call'.accounted = call.accounted /\ call'.acked = call.acked
        /\ call'.parts = call.parts /\ call'.swept = call.swept
        /\ call'.unsent = call.unsent /\ call'.granted = call.granted
        /\ call'.result = call.result
    BY <1>1, <1>4, IdleFields DEF Shape
  <2>4. /\ call.missing \subseteq Objects
        /\ call.pc = "fetchGrants" =>
             call.missing # {} /\ call.missing = Objects \ store.objects
    BY <1>1 DEF IndInv, PullInv
  <2>5. /\ FirstOf(call.missing, GrantBatch) \subseteq call.missing
        /\ call.missing # {} => FirstOf(call.missing, GrantBatch) # {}
    BY <2>4, FirstOfIn
  <2>6. call'.pc = IF call.pc = "fetchGrants" THEN "fetch" ELSE "manifest"
    BY <1>1, <2>2, SMT DEF Granting
  <2>7. CallTypes'
    BY <1>1, <2>1, <2>2, <2>3, <2>4, <2>5, <2>6
       DEF CallTypes, Shape, PullPcs
  <2>8. AccountInv'
    <3>1. /\ call.accounted \subseteq Landed' \cup call.swept
          /\ call.acked \subseteq Claimed'
      BY <1>2, GrowsLanded DEF IndInv, AccountInv
    <3> QED BY <2>3, <2>6, <3>1 DEF AccountInv, PushPcs
  <2>9. PullInv'
    BY <1>2, <2>2, <2>4, <2>5, <2>6 DEF PullInv
  <2>10. BlobInv' /\ PackInv'
    BY <2>6 DEF BlobInv, PackInv
  <2>11. IndInv'
    BY <1>2, <2>7, <2>8, <2>9, <2>10 DEF IndInv
  <2> QED BY <2>6, <2>11, KeptRunning
<1>5. \/ \E how : how # "Ok" /\ call' = Ended(how)
      \/ call' = c
  BY DEF DownloadGrants
<1> QED BY <1>3, <1>4, <1>5

\* An object is counted when it is admitted, and is missing no longer.
LEMMA DownloadAndAdmitKeeps ==
  ASSUME IndInv, NEW a \in Answers(Download), DownloadAndAdmit(a)
  PROVE  Kept
<1> DEFINE o == First(call.batch)
<1>1. /\ call.pc = "fetch" /\ CallTypes /\ Shape(call)
      /\ call.result = "none" /\ remote' = remote
      /\ call.missing = Objects \ store.objects
      /\ call.batch \subseteq call.missing /\ call.batch # {}
  BY DEF DownloadAndAdmit, IndInv, CallTypes, PullInv
<1>2. o \in call.batch /\ o \in Objects
  BY <1>1, FirstIn
<1>3. ASSUME store' = store
      PROVE  RemoteInv' /\ StoreInv' /\ Grows
  BY <1>1, <1>3, UnmovedGrows DEF IndInv, Unmoved
<1>4. CASE a = "ok"
  <2>1. /\ store' = [store EXCEPT !.objects = @ \cup {o}]
        /\ call' = Fetched(call)
    <3>1. Download["ok"] = "Ok"
      BY DEF Download
    <3>2. a # "forged" /\ Download[a] # "Io"
      BY <1>4, <3>1
    <3> HIDE DEF o
    <3>3. call' = Fetched(call)
      BY <1>4, <3>2 DEF DownloadAndAdmit
    <3> QED BY <1>4, <3>3 DEF DownloadAndAdmit, o
  <2>2. /\ store' = [objects |-> store'.objects, adopted |-> store'.adopted]
        /\ store'.objects = store.objects \cup {o}
        /\ store'.adopted = store.adopted
    BY <2>1 DEF IndInv, StoreInv
  <2>3. StoreInv'
    BY <1>2, <2>2 DEF IndInv, StoreInv
  <2>4. RemoteInv' /\ Grows
    BY <1>1, <2>2 DEF IndInv, RemoteInv, Grows
  <2>5. Shape(call')
    BY <1>1, <2>1 DEF Fetched, Shape
  <2>6. /\ call'.pc = IF call.missing \ {o} = {} THEN "adopt"
                      ELSE IF call.batch \ {o} = {} THEN "fetchGrants"
                      ELSE "fetch"
        /\ call'.missing = call.missing \ {o}
        /\ call'.batch = call.batch \ {o}
        /\ call'.accounted = call.accounted \cup {o}
    BY <1>1, <2>1, IdleFields DEF Fetched, Shape
  <2>7. /\ call'.unsent = call.unsent /\ call'.queue = call.queue
        /\ call'.deferred = call.deferred /\ call'.granted = call.granted
        /\ call'.parts = call.parts /\ call'.result = call.result
        /\ call'.acked = call.acked /\ call'.swept = call.swept
    BY <1>1, <2>1, IdleFields DEF Fetched, Shape
  <2> HIDE DEF o
  <2>8. CallTypes'
    <3>1. /\ call'.pc \in {"adopt", "fetchGrants", "fetch"}
          /\ call'.batch \subseteq Objects
      BY <1>1, <2>6 DEF CallTypes
    <3>2. /\ call'.unsent \subseteq Objects /\ call'.queue \subseteq Blobs
          /\ call'.deferred \subseteq Blobs /\ call'.result = "none"
          /\ call'.granted = [b \in Blobs |-> call'.granted[b]]
          /\ call'.parts = [b \in Blobs |-> call'.parts[b]]
      BY <1>1, <2>7 DEF CallTypes
    <3> QED BY <2>5, <3>1, <3>2 DEF CallTypes, Shape, PullPcs
  <2>9. AccountInv'
    <3>1. /\ call.accounted \subseteq Landed' \cup call.swept
          /\ call.acked \subseteq Claimed'
      BY <2>4, GrowsLanded DEF IndInv, AccountInv
    <3>2. o \in Landed'
      BY <2>2 DEF Landed
    <3> QED BY <2>6, <2>7, <3>1, <3>2 DEF AccountInv, PushPcs
  <2>10. PullInv'
    BY <1>1, <2>2, <2>6 DEF PullInv
  <2>11. BlobInv' /\ PackInv'
    BY <2>6 DEF BlobInv, PackInv
  <2>12. IndInv'
    BY <2>3, <2>4, <2>8, <2>9, <2>10, <2>11 DEF IndInv
  <2> QED BY <2>6, <2>12, KeptRunning
<1>5. ASSUME a # "ok", NEW how, how # "Ok", call' = Ended(how) PROVE Kept
  <2>1. store' = store
    BY <1>5 DEF DownloadAndAdmit
  <2> QED BY <1>3, <1>5, <2>1, StopKeeps
<1>6. CASE a # "ok" /\ call' = [call EXCEPT !.attempt = @ + 1]
  <2>1. Like(call', call)
    <3>1. Shape(call')
      BY <1>1, <1>6 DEF Shape
    <3>2. /\ call'.accounted = call.accounted /\ call'.acked = call.acked
          /\ call'.parts = call.parts /\ call'.swept = call.swept
      BY <1>1, <1>6, IdleFields DEF Shape
    <3>3. /\ call'.unsent = call.unsent /\ call'.granted = call.granted
          /\ call'.result = call.result
      BY <1>1, <1>6, IdleFields DEF Shape
    <3> QED BY <3>1, <3>2, <3>3 DEF Like
  <2>2. /\ call'.pc = call.pc /\ call'.missing = call.missing
        /\ call'.queue = call.queue /\ call'.batch = call.batch
        /\ call'.deferred = call.deferred /\ call'.landed = call.landed
    BY <1>1, <1>6, IdleFields DEF Shape
  <2>3. store' = store
    BY <1>6 DEF DownloadAndAdmit
  <2> QED BY <1>3, <2>1, <2>2, <2>3, CountKeeps
<1>7. \/ a = "ok"
      \/ a # "ok" /\ \E how : how # "Ok" /\ call' = Ended(how)
      \/ a # "ok" /\ call' = [call EXCEPT !.attempt = @ + 1]
  <2>1. Download[a] = "Ok" => a \in {"ok", "forged"}
    <3>1. a \in DOMAIN Download
      BY DEF Answers
    <3> QED BY <3>1, SMT DEF Download
  <2>2. \/ a = "ok"
        \/ a # "ok" /\ call' = Ended("Digest")
        \/ a # "ok" /\ call' = Retried(DownloadAttempts)
        \/ a \notin {"ok", "forged"} /\ call' = Ended(Download[a])
    <3>1. CASE a = "forged"
      <4>1. Download["forged"] = "Ok"
        BY DEF Download
      <4>2. a # "ok" /\ Download[a] # "Io"
        BY <3>1, <4>1
      <4> QED BY <3>1, <4>2 DEF DownloadAndAdmit
    <3>2. CASE a \notin {"ok", "forged"} /\ Download[a] = "Io"
      BY <3>2 DEF DownloadAndAdmit
    <3>3. CASE a \notin {"ok", "forged"} /\ Download[a] # "Io"
      BY <3>3 DEF DownloadAndAdmit
    <3> QED BY <3>1, <3>2, <3>3
  <2>3. CASE a # "ok" /\ call' = Retried(DownloadAttempts)
    BY <2>3 DEF Retried
  <2> QED BY <2>1, <2>2, <2>3
<1> QED BY <1>4, <1>5, <1>6, <1>7

\* A pull returns Ok when the store holds the whole snapshot.
LEMMA AdoptTells ==
  ASSUME IndInv, AdoptSnapshot
  PROVE  Told
<1>1. /\ call.pc = "adopt" /\ CallTypes /\ call' = Ended("Ok")
      /\ remote' = remote /\ store' = [store EXCEPT !.adopted = TRUE]
      /\ Objects \subseteq store.objects
  BY DEF AdoptSnapshot, IndInv, PullInv
<1>2. /\ store' = [objects |-> store'.objects, adopted |-> store'.adopted]
      /\ store'.objects = store.objects
  BY <1>1 DEF IndInv, StoreInv
<1>3. StoreInv' /\ store'.objects = Objects
  BY <1>1, <1>2 DEF IndInv, StoreInv
<1>4. RemoteInv' /\ Grows
  BY <1>1, <1>2 DEF IndInv, RemoteInv, Grows
<1>5. /\ call.accounted \subseteq Landed' \cup call.swept
      /\ call.acked \subseteq Claimed'
  BY <1>4, GrowsLanded DEF IndInv, AccountInv
<1>6. IndInv'
  BY <1>1, <1>3, <1>4, <1>5, EndInv
<1> QED BY <1>1, <1>3, <1>6 DEF Told, PullPcs

-----------------------------------------------------------------------------
(* The environment.                                                        *)

\* A process that dies reports nothing.
LEMMA KillKeeps ==
  ASSUME IndInv, Kill
  PROVE  Kept
<1>1. RemoteInv' /\ StoreInv'
  BY UnmovedGrows DEF IndInv, Kill, Unmoved
<1>2. call' = [Idle EXCEPT !.result = "killed"]
  BY DEF Kill
<1>3. Shape(call')
  BY <1>2, IdleFields DEF Shape
<1>4. /\ call'.pc = "idle" /\ call'.accounted = {} /\ call'.acked = {}
      /\ call'.parts = NoParts /\ call'.result = "killed"
  BY <1>2 DEF Idle
<1>5. /\ call'.unsent = {} /\ call'.queue = {} /\ call'.batch = {}
      /\ call'.deferred = {} /\ call'.granted = NoParts
  BY <1>2 DEF Idle
<1>6. CallTypes'
  BY <1>3, <1>4, <1>5 DEF CallTypes, NoParts, Shape
<1> QED BY <1>1, <1>4, <1>6, QuietKeeps DEF PushPcs

\* The remote, the store and the counters of the world move, the call does
\* not.
LEMMA StillKeeps ==
  ASSUME IndInv, RemoteInv', StoreInv', Grows, store' = store, call' = call
  PROVE  Kept
<1>1. Like(call', call)
  BY DEF Like, IndInv, CallTypes
<1> QED BY <1>1, CountKeeps

\* Another push takes the head.
LEMMA CompeteKeeps ==
  ASSUME IndInv, Compete
  PROVE  Kept
<1>1. /\ remote' = [remote EXCEPT !.head = "theirs"]
      /\ store' = store /\ call' = call
  BY DEF Compete
<1>2. remote' = [f \in RemoteFields |-> remote'[f]]
  BY <1>1 DEF IndInv, RemoteInv
<1>3. /\ remote'.promoted = remote.promoted /\ remote'.head = "theirs"
      /\ remote'.claimed = remote.claimed /\ remote'.held = remote.held
      /\ remote'.staged = remote.staged /\ remote'.reported = remote.reported
  BY <1>1 DEF IndInv, RemoteInv, RemoteFields
<1>4. RemoteInv'
  BY <1>2, <1>3 DEF IndInv, RemoteInv
<1>5. StoreInv' /\ Grows
  BY <1>1, <1>3 DEF IndInv, StoreInv, Grows
<1> QED BY <1>1, <1>4, <1>5, StillKeeps

\* A sweep takes parts of a blob that is not whole in the session; the call
\* remembers that they were swept.
LEMMA SweepKeeps ==
  ASSUME IndInv, NEW o \in Blobs, Sweep(o)
  PROVE  Kept
<1> DEFINE h == [remote.held EXCEPT ![o] = {}]
           r == [remote.reported EXCEPT ![o] = {}]
<1>1. remote' = [remote EXCEPT !.held = h, !.reported = r]
  BY DEF Sweep
<1>2. /\ h = [b \in Blobs |-> h[b]] /\ r = [b \in Blobs |-> r[b]]
      /\ \A b \in Blobs : /\ h[b] = IF b = o THEN {} ELSE remote.held[b]
                          /\ r[b] = IF b = o THEN {} ELSE remote.reported[b]
  BY DEF IndInv, RemoteInv
<1> HIDE DEF h, r
<1>3. remote' = [f \in RemoteFields |-> remote'[f]]
  BY <1>1 DEF IndInv, RemoteInv
<1>4. /\ remote'.promoted = remote.promoted /\ remote'.head = remote.head
      /\ remote'.claimed = remote.claimed /\ remote'.held = h
      /\ remote'.staged = remote.staged /\ remote'.reported = r
  BY <1>1 DEF IndInv, RemoteInv, RemoteFields
<1>5. \A b \in Blobs : h[b] \subseteq Parts(b) /\ r[b] \subseteq h[b]
  BY <1>2 DEF IndInv, RemoteInv
<1>6. RemoteInv'
  BY <1>2, <1>3, <1>4, <1>5 DEF IndInv, RemoteInv
<1>7. StoreInv' /\ store' = store
  BY DEF Sweep, IndInv, StoreInv
<1>8. Claimed' = Claimed
  BY <1>4 DEF Claimed
<1>9. Landed \subseteq Landed'
  <2>1. ASSUME NEW b \in Blobs, remote.reported[b] = Parts(b)
        PROVE  remote'.reported[b] = Parts(b)
    <3>1. b # o
      BY <2>1 DEF Sweep
    <3> QED BY <1>2, <1>4, <2>1, <3>1
  <2> QED BY <1>4, <1>7, <1>8, <2>1 DEF Landed
<1>10. CASE call.pc = "idle" /\ call' = call
  <2>1. CallTypes'
    BY <1>10 DEF IndInv, CallTypes, Shape
  <2>2. IndInv'
    BY <1>6, <1>7, <1>8, <1>9, <1>10, <2>1, QuietInv
       DEF IndInv, AccountInv, PushPcs
  <2> QED BY <1>10, <2>2 DEF Kept
<1>11. CASE call.pc # "idle"
  <2> DEFINE q == [call.parts EXCEPT ![o] = {}]
             l == call.live /\ o \notin call.batch
  <2>1. call' = [call EXCEPT !.swept = @ \cup {o}, !.live = l, !.parts = q]
    BY <1>11 DEF Sweep
  <2>2. Shape(call) /\ CallTypes
    BY DEF IndInv, CallTypes
  <2>3. /\ q = [b \in Blobs |-> q[b]]
        /\ \A b \in Blobs : q[b] = IF b = o THEN {} ELSE call.parts[b]
    BY <2>2 DEF CallTypes
  <2> HIDE DEF q, l
  <2>4. Shape(call')
    BY <2>1, <2>2 DEF Shape
  <2>5. /\ call'.pc = call.pc /\ call'.parts = q
        /\ call'.swept = call.swept \cup {o}
        /\ call'.accounted = call.accounted /\ call'.acked = call.acked
    BY <2>1, <2>2, IdleFields DEF Shape
  <2>6. /\ call'.missing = call.missing /\ call'.unsent = call.unsent
        /\ call'.queue = call.queue /\ call'.batch = call.batch
        /\ call'.deferred = call.deferred
    BY <2>1, <2>2, IdleFields DEF Shape
  <2>7. /\ call'.granted = call.granted /\ call'.landed = call.landed
        /\ call'.result = call.result
    BY <2>1, <2>2, IdleFields DEF Shape
  <2>8. CallTypes'
    BY <2>2, <2>3, <2>4, <2>5, <2>6, <2>7 DEF CallTypes, Shape
  <2>9. AccountInv'
    <3>1. /\ call.accounted \subseteq Landed' \cup call.swept
          /\ call.acked \subseteq Claimed'
          /\ call.pc = "declare" => call.accounted = {} /\ call.acked = {}
      BY <1>8, <1>9 DEF IndInv, AccountInv
    <3>2. ASSUME call.pc \in PushPcs, NEW b \in Blobs
          PROVE  q[b] \subseteq h[b]
      <4>1. call.parts[b] \subseteq remote.held[b]
        BY <3>2 DEF IndInv, AccountInv
      <4> QED BY <1>2, <2>3, <4>1
    <3> QED BY <1>4, <2>5, <3>1, <3>2 DEF AccountInv
  <2>10. BlobInv'
    <3>1. SUFFICES ASSUME call.pc \in {"blobPart", "blobReport"}
                   PROVE  BlobInv'
      BY <2>5 DEF BlobInv
    <3> DEFINE n == First(call.batch)
    <3>2. /\ n \in call.batch /\ call.batch \subseteq Blobs /\ n \in Blobs
          /\ call.batch # {}
      BY <3>1, Hand
    <3>3. /\ \A b \in call.batch :
               b \in call.swept \/ call.granted[b] \subseteq remote.reported[b]
          /\ n \in call.swept \/ call.landed \subseteq remote.held[n]
          /\ call.parts[n] \subseteq call.granted[n] \cup call.landed
          /\ \A b \in call.batch \ {n} : call.parts[b] \subseteq call.granted[b]
          /\ call.pc = "blobReport" /\ n \notin call.deferred =>
               Parts(n) \subseteq call.granted[n] \cup call.landed
      BY <3>1 DEF IndInv, BlobInv
    <3>4. First(call'.batch) = n
      BY <2>6
    <3> HIDE DEF n
    <3>5. \A b \in call.batch :
            \/ b \in call.swept \cup {o}
            \/ call.granted[b] \subseteq remote'.reported[b]
      BY <1>2, <1>4, <3>2, <3>3
    <3>6. n \in call.swept \cup {o} \/ call.landed \subseteq remote'.held[n]
      BY <1>2, <1>4, <3>2, <3>3
    <3>7. \A b \in Blobs : q[b] \subseteq call.parts[b]
      BY <2>3
    <3>8. q[n] \subseteq call.granted[n] \cup call.landed
      BY <3>2, <3>3, <3>7
    <3>9. \A b \in call.batch \ {n} : q[b] \subseteq call.granted[b]
      BY <3>2, <3>3, <3>7
    <3> QED BY <2>5, <2>6, <2>7, <3>2, <3>3, <3>4, <3>5, <3>6, <3>8, <3>9
            DEF BlobInv
  <2>11. Pack' = Pack
    BY <2>6 DEF Pack
  <2>12. PackInv' /\ PullInv'
    BY <1>4, <1>7, <2>5, <2>6, <2>11 DEF IndInv, PackInv, PullInv
  <2>13. IndInv'
    BY <1>6, <1>7, <2>8, <2>9, <2>10, <2>12 DEF IndInv
  <2> QED BY <1>11, <2>5, <2>13, KeptRunning
<1> QED BY <1>10, <1>11 DEF Sweep

\* The environment heals.
LEMMA HealKeeps ==
  ASSUME IndInv, Heal
  PROVE  Kept
<1>1. remote' = remote /\ store' = store /\ call' = call
  BY DEF Heal
<1> QED BY <1>1, UnmovedGrows, StillKeeps DEF IndInv, Unmoved

-----------------------------------------------------------------------------
(* The theorems.                                                           *)

\* The invariant holds at first,
LEMMA InitInv ==
  ASSUME Init
  PROVE  IndInv
<1>1. RemoteInv
  BY DEF Init, RemoteInv, RemoteFields, NoParts
<1>2. StoreInv
  BY DEF Init, StoreInv
<1>3. call = Idle /\ Shape(call)
  BY IdleFields DEF Init
<1>4. /\ call.pc = "idle" /\ call.accounted = {} /\ call.acked = {}
      /\ call.parts = NoParts /\ call.result = "none"
  BY <1>3 DEF Idle
<1>5. /\ call.unsent = {} /\ call.queue = {} /\ call.batch = {}
      /\ call.deferred = {} /\ call.granted = NoParts
  BY <1>3 DEF Idle
<1>6. CallTypes
  BY <1>3, <1>4, <1>5 DEF CallTypes, NoParts, Shape
<1>7. AccountInv /\ BlobInv /\ PackInv /\ PullInv
  BY <1>4 DEF AccountInv, BlobInv, PackInv, PullInv, PushPcs
<1> QED BY <1>1, <1>2, <1>6, <1>7 DEF IndInv

\* a step that returns no Ok tells no lie,
LEMMA KeptTells ==
  ASSUME Kept
  PROVE  Told
BY DEF Kept, Told

\* every step keeps the invariant and returns Ok only when it is true,
LEMMA NextTells ==
  ASSUME IndInv, Next
  PROVE  Told
<1>1. CASE Begin
  BY <1>1, StartKeeps, KeptTells DEF Begin, PushSnapshot, PullHead
<1>2. CASE Push
  <2>1. ASSUME NEW a \in At({"declare"}, DeclareRoute),
               NEW id \in {"ours", "theirs"},
               NEW packs \in Views(Objects \ (remote.promoted \cup Blobs), Blobs),
               NEW blobs \in Views(Blobs \ remote.promoted, Objects \ Blobs),
               Declare(a, packs, blobs, id)
        PROVE  Told
    BY <2>1, DeclareKeeps, KeptTells DEF At
  <2>2. ASSUME NEW a \in At({"blobGrants"}, BlobGrantsRoute),
               NEW whole \in BOOLEAN, BlobGrants(a, whole)
        PROVE  Told
    BY <2>2, BlobGrantsKeeps, KeptTells DEF At
  <2>3. ASSUME NEW a \in At({"packGrants"}, PackGrantsRoute),
               NEW whole \in BOOLEAN, PackGrants(a, whole)
        PROVE  Told
    BY <2>3, PackGrantsKeeps, KeptTells DEF At
  <2>4. ASSUME NEW a, UploadPart(a) PROVE Told
    BY <2>4, UploadPartKeeps, KeptTells
  <2>5. CASE PartsDone
    BY <2>5, PartsDoneKeeps, KeptTells
  <2>6. ASSUME NEW a \in At({"blobReport"}, ReportRoute), ReportBlobParts(a)
        PROVE  Told
    BY <2>6, ReportBlobPartsKeeps, KeptTells DEF At
  <2>7. ASSUME NEW a \in At({"blobProbe", "reprobe"}, PackGrantsRoute),
               NEW packs \in Views(PackLane, Blobs),
               NEW blobs \in Views(BlobLane, Objects \ Blobs),
               BlobProbe(a, packs, blobs) \/ Reprobe(a, packs, blobs)
        PROVE  Told
    BY <2>7, BlobProbeKeeps, ReprobeKeeps, KeptTells DEF At
  <2>8. ASSUME NEW a \in At({"putPack"}, UploadPack), UploadOnePack(a)
        PROVE  Told
    BY <2>8, UploadOnePackKeeps, KeptTells DEF At
  <2>9. ASSUME NEW a \in At({"complete"}, CompleteRoute),
               NEW more \in Admissions, Complete(a, more)
        PROVE  Told
    BY <2>9, CompleteTells DEF At
  <2> QED BY <1>2, <2>1, <2>2, <2>3, <2>4, <2>5, <2>6, <2>7, <2>8, <2>9
          DEF Push
<1>3. CASE Pull
  <2>1. ASSUME NEW a \in At({"head"}, HeadRoute), ReadHead(a) PROVE Told
    BY <2>1, ReadHeadKeeps, KeptTells DEF At
  <2>2. ASSUME NEW a \in At(DOMAIN Granting, DownloadGrantsRoute),
               NEW whole \in BOOLEAN, DownloadGrants(a, whole)
        PROVE  Told
    BY <2>2, DownloadGrantsKeeps, KeptTells DEF At
  <2>3. ASSUME NEW a \in At({"manifest"}, Download), FetchManifest(a)
        PROVE  Told
    BY <2>3, FetchManifestKeeps, KeptTells DEF At
  <2>4. ASSUME NEW a \in At({"fetch"}, Download), DownloadAndAdmit(a)
        PROVE  Told
    BY <2>4, DownloadAndAdmitKeeps, KeptTells DEF At
  <2> QED BY <1>3, <2>1, <2>2, <2>3, <2>4, AdoptTells DEF Pull
<1>4. CASE Environment
  BY <1>4, KillKeeps, CompeteKeeps, HealKeeps, SweepKeeps, KeptTells
     DEF Environment
<1> QED BY <1>1, <1>2, <1>3, <1>4 DEF Next, Step

\* and so does a step that changes nothing.
LEMMA StutterTells ==
  ASSUME IndInv, UNCHANGED vars
  PROVE  Told
<1>1. remote' = remote /\ store' = store /\ call' = call
  BY DEF vars
<1> QED BY <1>1, UnmovedGrows, StillKeeps, KeptTells DEF IndInv, Unmoved

\* The inductive invariant holds of every push and pull, for every closure,
\* every bound of the engine and every behaviour of the remote.
THEOREM SyncInvariant == Spec => []IndInv
<1>1. Init => IndInv
  BY InitInv
<1>2. IndInv /\ [Next]_vars => IndInv'
  BY NextTells, StutterTells DEF Told
<1> QED BY <1>1, <1>2, PTL DEF Spec

\* What the progress callback reported is at its destination, unless the
\* remote swept it since.
THEOREM ProgressIsTrue == Spec => []AccountedMeansLanded
<1>1. IndInv => AccountedMeansLanded
  <2>1. SUFFICES ASSUME IndInv PROVE AccountedMeansLanded
    OBVIOUS
  <2>2. ASSUME NEW o \in Blobs, remote.reported[o] = Parts(o)
        PROVE  remote.held[o] = Parts(o)
    BY <2>1, <2>2 DEF IndInv, RemoteInv
  <2> QED BY <2>1, <2>2 DEF IndInv, AccountInv, Landed, AccountedMeansLanded
<1> QED BY <1>1, SyncInvariant, PTL

\* No replan sends again a pack or a part the store accepted, and no pull
\* downloads what is resident.
THEOREM NothingIsSentTwice == Spec => []NothingMovedTwice
<1>1. IndInv => NothingMovedTwice
  <2>1. SUFFICES ASSUME IndInv PROVE NothingMovedTwice
    OBVIOUS
  <2>2. call.pc = "putPack" => Pack \cap call.acked = {}
    BY <2>1, PackIn DEF IndInv, PackInv, CallTypes
  <2>3. ASSUME call.pc = "blobPart", Owed(call) # {}
        PROVE  Part(call) \notin call.parts[First(call.batch)]
    <3> DEFINE o == First(call.batch)
    <3>1. call.parts[o] \subseteq call.granted[o] \cup call.landed
      BY <2>1, <2>3 DEF IndInv, BlobInv
    <3>2. Part(call) \in Owed(call)
      <4>1. Owed(call) \subseteq Nat
        BY SMT DEF Owed, Parts
      <4> QED BY <2>3, <4>1, Least DEF Part
    <3> QED BY <3>1, <3>2 DEF Owed
  <2>4. ASSUME call.pc = "fetch" PROVE First(call.batch) \notin store.objects
    BY <2>1, <2>4, FirstIn DEF IndInv, PullInv, CallTypes
  <2> QED BY <2>2, <2>3, <2>4 DEF NothingMovedTwice
<1> QED BY <1>1, SyncInvariant, PTL

\* push_snapshot returns Ok only when everything is promoted and the head is
\* the one pushed, pull_head only when every object is in the store.
THEOREM OkTells == Spec => OkIsTrue
<1>1. IndInv /\ [Next]_vars =>
        [call.result = "none" /\ call'.result = "Ok" =>
           \/ call.pc \in PushPcs /\ remote'.promoted = Objects
                                  /\ remote'.head = "ours"
           \/ call.pc \in PullPcs /\ store'.objects = Objects]_vars
  BY NextTells DEF Told
<1> QED BY <1>1, SyncInvariant, PTL DEF Spec, OkIsTrue
=============================================================================
