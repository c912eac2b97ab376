-------------------------------- MODULE Sync --------------------------------
(***************************************************************************)
(* The sync engine of sync.rs: push_snapshot with its blob and pack lanes  *)
(* and its completion poll, and pull_snapshot, over a carrier that loses   *)
(* requests and answers, grants that expire, a remote that is slow, wrong  *)
(* or swept, and a pushing process that dies and starts over.              *)
(*                                                                         *)
(* The remote is external: it is modelled from what sync.rs asks of it.    *)
(* Staging is content-addressed, so a pack is the set of its members, and  *)
(* the parts of a blob's upload outlive the session that sent them.        *)
(*                                                                         *)
(* An operator Name_Variant holds the mistake a mutant run puts in place   *)
(* of Name.                                                                *)
(***************************************************************************)
EXTENDS SyncWire, Integers, Sequences, FiniteSetsExt

CONSTANTS
  Length,               \* the bytes of each data object, in manifest order
  MaxPayload,           \* bytes one pack may carry; larger objects are blobs
  MaxPackObjects,       \* objects one pack may carry
  GrantBatch,           \* objects one call for grants may name
  MaxStalledReplans, MaxUploadAttempts, MaxCompletionStalls,  \* PushOptions
  DownloadAttempts,     \* DOWNLOAD_ATTEMPTS
  Calls,                \* which of "push" and "pull" the client makes
  MaxCalls,             \* bound on calls
  MaxSweeps,            \* bound on staging sweeps
  Faults                \* what may go wrong

\* An object is its place in the closure.
Objects == DOMAIN Length
FaultKinds ==
  {"carrier", "expire", "refuse", "lie", "slow", "compete", "kill"}

ASSUME SyncAssumption ==
  /\ Length \in Seq(Nat \ {0})
  /\ MaxPayload \in Nat \ {0} /\ MaxPackObjects \in Nat \ {0}
  /\ GrantBatch \in Nat \ {0}
  /\ MaxStalledReplans \in Nat /\ MaxUploadAttempts \in Nat
  /\ MaxCompletionStalls \in Nat /\ DownloadAttempts \in Nat
  /\ Calls \subseteq {"push", "pull"} /\ MaxCalls \in Nat
  /\ MaxSweeps \in Nat /\ Faults \subseteq FaultKinds

Blobs == {o \in Objects : Length[o] > MaxPayload}
PartCount(o) == (Length[o] + MaxPayload - 1) \div MaxPayload
Parts(o) == 1..PartCount(o)

VARIABLES
  remote,   \* the remote: see Init
  sweeps,   \* staging sweeps so far
  healed,   \* nothing goes wrong any more
  calls,    \* calls started so far
  call,     \* the client's running call and its locals
  store     \* the pulling store: its objects, and whether the pull is rooted

worldVars == <<sweeps, healed, calls>>
vars == <<remote, worldVars, call, store>>

NoParts == [o \in Blobs |-> {}]

Idle ==
  [pc |-> "idle",
   missing |-> {},      \* what the remote, or on a pull the store, lacks
   unsent |-> {},       \* of those, the ones this round has yet to send
   attempt |-> 0,       \* attempts at the envelope or the object in hand
   stalled |-> 0,       \* rounds in a row that moved nothing
   pending |-> {},      \* blobs still owed when the round began
   queue |-> {},        \* of those, not yet asked for
   batch |-> {},        \* of those, granted and in hand
   deferred |-> {},     \* of those, put back for the next round
   granted |-> NoParts, \* the parts the grant said the remote holds
   landed |-> {},       \* parts of the blob in hand that landed since
   moved |-> FALSE,     \* a part landed in this round
   live |-> TRUE,       \* the uploads of this batch still exist
   admitted |-> 0,      \* the remote's highest count of admitted objects
   result |-> "none",   \* how the call ended
   accounted |-> {},    \* history: objects reported as accounted for
   acked |-> {},        \* history: packed objects the store accepted
   parts |-> NoParts,   \* history: parts the store accepted
   swept |-> {}]        \* history: blobs a sweep took from under the call

Init ==
  /\ remote = [promoted |-> {},      \* objects it has admitted
               head |-> "none",      \* its head: "none", "ours", "theirs"
               staged |-> {},        \* packs at its store
               claimed |-> {},       \* packs granted to the session
               held |-> NoParts,     \* parts of each blob at its store
               reported |-> NoParts] \* parts the session can assemble
  /\ sweeps = 0 /\ healed = FALSE /\ calls = 0
  /\ call = Idle
  /\ store = [objects |-> {}, adopted |-> FALSE]

\* What may come back on a route.
Answers(route) ==
  {a \in DOMAIN route : a = "ok" \/ (~healed /\ FaultOf(a) \in Faults)}
Lies == "lie" \in Faults /\ ~healed

-----------------------------------------------------------------------------
(* What a session still lacks, as the remote lists it.  Every list and     *)
(* queue of the engine is in manifest order, so it is the set of its       *)
(* members; FirstOf(S, n) are the n at its head.                           *)
First(S) == Min(S)
FirstOf(S, n) == {o \in S : Cardinality({p \in S : p < o}) < n}

Claimed == UNION (remote.claimed \cap remote.staged)
PackLane == Objects \ (remote.promoted \cup Blobs \cup Claimed)
BlobLane == {o \in Blobs \ remote.promoted : remote.reported[o] # Parts(o)}

\* A list of rows is a function on numbers, read in their order.
Row(o) == <<o, Length[o]>>
Rows(S) == [o \in S |-> Row(o)]
Digests(rows) == {rows[i][1] : i \in DOMAIN rows}

\* What the remote may list: a lane or, if it is broken, the lane backwards,
\* some of it again, objects of the other lane, or a wrong length.
Views(lane, other) ==
  {Rows(lane)} \cup
    (IF ~Lies THEN {} ELSE
       {[i \in {-o : o \in lane} |-> Row(-i)],
        [i \in lane \cup {-o : o \in lane} |-> Row(IF i < 0 THEN -i ELSE i)],
        Rows(lane \cup other)}
         \cup {[Rows(lane) EXCEPT ![o] = <<o, Length[o] + 1>>] : o \in lane})

\* verify_canonical_missing: every row is found past the one before it, with
\* the length the manifest records.
VerifyCanonicalMissing(rows) ==
  /\ \A i \in DOMAIN rows :
       rows[i][1] \in Objects /\ rows[i][2] = Length[rows[i][1]]
  /\ \A i, j \in DOMAIN rows : i < j => rows[i][1] < rows[j][1]

VerifyLanes(packs, blobs) ==
  /\ VerifyCanonicalMissing(packs) /\ VerifyCanonicalMissing(blobs)
  /\ \A i \in DOMAIN packs : packs[i][2] <= MaxPayload
  /\ \A i \in DOMAIN blobs : blobs[i][2] > MaxPayload

\* Greedy assembly: a pack is as many objects from the head of what is unsent
\* as the bounds allow, and never none.
Fits(group) ==
  /\ MapThenSumSet(LAMBDA o : Length[o], group) <= MaxPayload
  /\ Cardinality(group) <= MaxPackObjects
Pack ==
  {o \in call.unsent :
     o = First(call.unsent) \/ Fits({p \in call.unsent : p <= o})}

-----------------------------------------------------------------------------
\* The call returns: its locals are gone, what it told its caller is not.
Ended(how) ==
  [Idle EXCEPT !.result = how, !.accounted = call.accounted,
               !.acked = call.acked, !.parts = call.parts,
               !.swept = call.swept]

\* One more attempt at an envelope or an object, if the budget has one left.
Retried(budget) ==
  IF call.attempt + 1 >= budget THEN Ended("Io")
  ELSE [call EXCEPT !.attempt = @ + 1]

Start(kind, first) ==
  /\ call.pc = "idle" /\ kind \in Calls /\ calls < MaxCalls
  /\ calls' = calls + 1
  /\ call' = [Idle EXCEPT !.pc = first]
  /\ UNCHANGED <<remote, sweeps, healed, store>>

\* push_snapshot, once the pending-sync lease is taken (see RootsGc).
PushSnapshot == Start("push", "declare")

\* The head of the pack loop: nothing owed is completion.
Packing(c, owed, rounds) ==
  [c EXCEPT !.missing = owed, !.unsent = owed, !.attempt = 0,
            !.stalled = rounds,
            !.pc = IF owed = {} THEN "complete" ELSE "packGrants"]

\* What declare's answer leads to: the objects the remote has are accounted
\* for, then blobs go first.
Declared(packs, blobs) ==
  LET known == [call EXCEPT !.accounted = remote.promoted] IN
  IF ~VerifyLanes(packs, blobs)
  THEN [Ended("Lied") EXCEPT !.accounted = remote.promoted]
  ELSE IF Digests(blobs) = {} THEN Packing(known, Digests(packs), 0)
  ELSE [known EXCEPT !.pc = "blobGrants", !.pending = Digests(blobs),
                     !.queue = Digests(blobs)]

\* declare opens a session of its own.
Declare(a, packs, blobs, id) ==
  /\ call.pc = "declare" /\ a \in Answers(DeclareRoute)
  /\ id = "ours" \/ Lies
  /\ remote' = IF a \in Heard
               THEN [remote EXCEPT !.claimed = {}, !.reported = NoParts]
               ELSE remote
  /\ call' = IF DeclareRoute[a] # "Ok" THEN Ended(DeclareRoute[a])
             ELSE IF id # "ours" THEN Ended("Lied")
             ELSE Declared(packs, blobs)
  /\ UNCHANGED <<worldVars, store>>

-----------------------------------------------------------------------------
(* The blob lane: push_blob_lane and push_one_blob.                        *)

RoundDone_Unbounded(c) ==
  [c EXCEPT !.pending = c.deferred, !.queue = c.deferred, !.deferred = {},
            !.moved = FALSE,
            !.pc = IF c.deferred = {} THEN "blobProbe" ELSE "blobGrants"]

\* The round is over.  A part that landed, or a blob less to do, is progress.
RoundDone(c) ==
  LET idle == ~c.moved /\ Cardinality(c.deferred) >= Cardinality(c.pending)
      rounds == IF idle THEN c.stalled + 1 ELSE 0
  IN  IF idle /\ rounds >= MaxStalledReplans THEN Ended("ReplansStalled")
      ELSE [c EXCEPT !.pending = c.deferred, !.queue = c.deferred,
                     !.deferred = {}, !.moved = FALSE, !.stalled = rounds,
                     !.pc = IF c.deferred = {} THEN "blobProbe"
                            ELSE "blobGrants"]

Asked(c) == FirstOf(c.queue, GrantBatch)

\* The parts of the blob in hand that are still to send: the grant's held
\* parts are skipped.
Owed_All(c) == Parts(First(c.batch)) \ c.landed
Owed(c) == Parts(First(c.batch)) \ (c.landed \cup c.granted[First(c.batch)])
Part(c) == Min(Owed(c))

\* On to the next blob, the next batch or the end of the round.
Onward(c) ==
  IF c.batch # {}
  THEN [c EXCEPT !.pc = "blobPart", !.landed = {}, !.attempt = 0]
  ELSE IF c.queue # {} THEN [c EXCEPT !.pc = "blobGrants", !.landed = {}]
  ELSE RoundDone([c EXCEPT !.landed = {}])

BlobGrants(a, whole) ==
  /\ call.pc = "blobGrants" /\ a \in Answers(BlobGrantsRoute)
  /\ whole \/ Lies
  /\ remote' = IF a \notin Heard THEN remote
               ELSE [remote EXCEPT !.reported =
                       [o \in Blobs |-> IF o \in Asked(call)
                                        THEN remote.held[o]
                                        ELSE remote.reported[o]]]
  /\ LET rest == [call EXCEPT !.queue = @ \ Asked(call)]
         outcome == BlobGrantsRoute[a]
     IN
     call' = CASE outcome = "Expired" ->
                    Onward([rest EXCEPT !.deferred = @ \cup Asked(call)])
               [] outcome \in {"Refused", "Io"} -> Ended(outcome)
               [] outcome = "Ok" /\ ~whole -> Ended("Lied")
               [] OTHER -> Onward([rest EXCEPT !.batch = Asked(call),
                                               !.granted = remote.held,
                                               !.live = TRUE])
  /\ UNCHANGED <<worldVars, store>>

\* Every part of the blob in hand is there: report what landed, if anything.
Finished(c) ==
  IF c.landed # {} THEN [c EXCEPT !.pc = "blobReport"]
  ELSE Onward([c EXCEPT !.batch = @ \ {First(@)},
                        !.accounted = @ \cup {First(c.batch)}])

PutBack_Counted(c) ==
  IF c.landed # {} THEN [c EXCEPT !.pc = "blobReport"]
  ELSE Onward([c EXCEPT !.batch = @ \ {First(@)},
                        !.accounted = @ \cup {First(c.batch)}])

\* The lease ran out: what landed is reported, and the blob goes back.
PutBack(c) ==
  LET back == [c EXCEPT !.deferred = @ \cup {First(c.batch)}] IN
  IF c.landed # {} THEN [back EXCEPT !.pc = "blobReport"]
  ELSE Onward([back EXCEPT !.batch = @ \ {First(@)}])

UploadPart(a) ==
  LET o == First(call.batch) IN
  /\ call.pc = "blobPart" /\ Owed(call) # {}
  /\ a \in IF call.live THEN Answers(UploadBlobPart) \ {"status404"}
           ELSE {"status404"}
  /\ remote' = IF a \in Heard
               THEN [remote EXCEPT !.held[o] = @ \cup {Part(call)}]
               ELSE remote
  /\ call' = CASE UploadBlobPart[a] = "Ok" ->
                    [call EXCEPT !.landed = @ \cup {Part(call)},
                                 !.parts[o] = @ \cup {Part(call)},
                                 !.moved = TRUE, !.attempt = 0]
               [] UploadBlobPart[a] = "Io" -> Retried(MaxUploadAttempts)
               [] UploadBlobPart[a] = "Expired" -> PutBack(call)
               [] UploadBlobPart[a] = "Refused" -> Ended("Refused")
  /\ UNCHANGED <<worldVars, store>>

PartsDone ==
  /\ call.pc = "blobPart" /\ Owed(call) = {}
  /\ call' = Finished(call)
  /\ UNCHANGED <<remote, worldVars, store>>

\* report_blob_parts: any failure ends the push, an expiry too.
ReportBlobParts(a) ==
  LET o == First(call.batch)
      back == o \in call.deferred
  IN
  /\ call.pc = "blobReport" /\ a \in Answers(ReportRoute)
  /\ remote' = IF a \in Heard
               THEN [remote EXCEPT !.reported[o] =
                       @ \cup (call.landed \cap remote.held[o])]
               ELSE remote
  /\ call' = IF ReportRoute[a] # "Ok" THEN Ended(ReportRoute[a])
             ELSE Onward([call EXCEPT !.batch = @ \ {o}, !.landed = {},
                            !.accounted = IF back THEN @ ELSE @ \cup {o}])
  /\ UNCHANGED <<worldVars, store>>

\* The probe after the lane: a blob still listed was not accepted.
BlobProbe(a, packs, blobs) ==
  /\ call.pc = "blobProbe" /\ a \in Answers(PackGrantsRoute)
  /\ call' = IF PackGrantsRoute[a] # "Ok" THEN Ended(PackGrantsRoute[a])
             ELSE IF ~VerifyLanes(packs, blobs) THEN Ended("Lied")
             ELSE IF Digests(blobs) # {} THEN Ended("BlobNotAccepted")
             ELSE Packing(call, Digests(packs), 0)
  /\ UNCHANGED <<remote, worldVars, store>>

-----------------------------------------------------------------------------
(* The pack lane: one pack at a time is claimed, granted and sent.         *)

\* The pack in hand is dealt with; after the last one comes the re-probe.
NextPack(c) ==
  [c EXCEPT !.unsent = @ \ Pack, !.attempt = 0,
            !.pc = IF c.unsent = Pack THEN "reprobe" ELSE "packGrants"]

PackGrants_NoResume(a, whole) ==
  LET outcome == PackGrantsRoute[a] IN
  /\ call.pc = "packGrants" /\ a \in Answers(PackGrantsRoute)
  /\ whole \/ Lies
  /\ remote' = IF a \in Heard THEN [remote EXCEPT !.claimed = @ \cup {Pack}]
               ELSE remote
  /\ call' = CASE outcome = "Expired" -> [call EXCEPT !.pc = "reprobe"]
               [] outcome \in {"Refused", "Io"} -> Ended(outcome)
               [] OTHER -> IF whole /\ Pack \notin remote.staged
                           THEN [call EXCEPT !.pc = "putPack"]
                           ELSE Ended("Lied")
  /\ UNCHANGED <<worldVars, store>>

\* A pack the store already has is recorded and not granted again.
PackGrants(a, whole) ==
  LET outcome == PackGrantsRoute[a] IN
  /\ call.pc = "packGrants" /\ a \in Answers(PackGrantsRoute)
  /\ whole \/ Lies
  /\ remote' = IF a \in Heard THEN [remote EXCEPT !.claimed = @ \cup {Pack}]
               ELSE remote
  /\ call' = CASE outcome = "Expired" -> [call EXCEPT !.pc = "reprobe"]
               [] outcome \in {"Refused", "Io"} -> Ended(outcome)
               [] outcome = "Ok" /\ Pack \in remote.staged -> NextPack(call)
               [] outcome = "Ok" /\ Pack \notin remote.staged ->
                    IF whole THEN [call EXCEPT !.pc = "putPack"]
                    ELSE Ended("Lied")
  /\ UNCHANGED <<worldVars, store>>

UploadOnePack(a) ==
  /\ call.pc = "putPack" /\ a \in Answers(UploadPack)
  /\ remote' = IF a \in Heard THEN [remote EXCEPT !.staged = @ \cup {Pack}]
               ELSE remote
  /\ call' = CASE UploadPack[a] = "Ok" ->
                    NextPack([call EXCEPT !.acked = @ \cup Pack,
                                          !.accounted = @ \cup Pack])
               [] UploadPack[a] = "Io" -> Retried(MaxUploadAttempts)
               [] UploadPack[a] = "Expired" -> [call EXCEPT !.pc = "reprobe"]
               [] UploadPack[a] = "Refused" -> Ended("Refused")
  /\ UNCHANGED <<worldVars, store>>

\* A round that shrank the missing set is free; enough that did not in a row
\* end the push.  A blob the probe lists is not looked at again.
Replanned(owed) ==
  LET idle == Cardinality(owed) >= Cardinality(call.missing)
      rounds == IF idle THEN call.stalled + 1 ELSE 0
  IN  IF idle /\ rounds >= MaxStalledReplans THEN Ended("ReplansStalled")
      ELSE Packing(call, owed, rounds)

Reprobe(a, packs, blobs) ==
  /\ call.pc = "reprobe" /\ a \in Answers(PackGrantsRoute)
  /\ call' = IF PackGrantsRoute[a] # "Ok" THEN Ended(PackGrantsRoute[a])
             ELSE IF ~VerifyLanes(packs, blobs) THEN Ended("Lied")
             ELSE Replanned(Digests(packs))
  /\ UNCHANGED <<remote, worldVars, store>>

-----------------------------------------------------------------------------
(* Completion is a poll.  A call of the remote admits some of what the     *)
(* session staged, and promotes the head once all of it is in.             *)
Ready ==
  (Claimed \cup {o \in Blobs : remote.reported[o] = Parts(o)})
    \ remote.promoted
Admissions == IF Ready = {} \/ ("slow" \in Faults /\ ~healed) THEN SUBSET Ready
              ELSE SUBSET Ready \ {{}}

Status(now) ==
  IF ~(Objects \subseteq now) THEN "Incomplete"
  ELSE IF remote.head = "theirs" THEN "Failed" ELSE "Promoted"

\* What the poll makes of one answer.
Stalled(how) ==
  IF call.stalled + 1 >= MaxCompletionStalls THEN Ended(how)
  ELSE [call EXCEPT !.stalled = @ + 1]
Polled_Settled(status, count) ==
  IF status \in {"Promoted", "Failed"} THEN Ended("Ok")
  ELSE IF count > call.admitted
  THEN [call EXCEPT !.admitted = count, !.stalled = 0]
  ELSE Stalled("CompletionStalled")

Polled(status, count) ==
  CASE status = "Promoted" -> Ended("Ok")
    [] status = "Failed" -> Ended("HeadRefused")
    [] status = "Incomplete" ->
         IF count > call.admitted
         THEN [call EXCEPT !.admitted = count, !.stalled = 0]
         ELSE Stalled("CompletionStalled")

Complete(a, more) ==
  LET now == remote.promoted \cup more
      status == Status(now)
      outcome == CompleteRoute[a]
  IN
  /\ call.pc = "complete" /\ a \in Answers(CompleteRoute)
  /\ more \in Admissions
  /\ remote' = IF a \notin Heard THEN remote
               ELSE [remote EXCEPT !.promoted = now,
                       !.head = IF status = "Promoted" THEN "ours" ELSE @]
  /\ call' = CASE outcome = "Ok" -> Polled(status, Cardinality(now))
               [] outcome = "Io" -> Stalled("Io")
               [] OTHER -> Ended(outcome)
  /\ UNCHANGED <<worldVars, store>>

-----------------------------------------------------------------------------
(* pull_head and pull_snapshot.  A head of someone else's is another       *)
(* snapshot, and its pull another closure.                                 *)
PullHead == Start("pull", "head")

\* The resident objects are the resume journal.
Journal(c) ==
  LET rest == Objects \ store.objects IN
  [c EXCEPT !.accounted = store.objects, !.missing = rest, !.batch = {},
            !.pc = IF rest = {} THEN "adopt" ELSE "fetchGrants"]

ReadHead(a) ==
  /\ call.pc = "head" /\ a \in Answers(HeadRoute)
  /\ call' = IF HeadRoute[a] # "Ok" THEN Ended(HeadRoute[a])
             ELSE IF remote.head = "none" THEN Ended("NoRemoteHead")
             ELSE IF remote.head = "theirs" THEN Ended("OtherSnapshot")
             ELSE IF store.adopted THEN Journal(call)
             ELSE [call EXCEPT !.pc = "manifestGrant"]
  /\ UNCHANGED <<remote, worldVars, store>>

\* A grant for the manifest, or for the next batch of the missing objects.
Granting == [manifestGrant |-> "manifest", fetchGrants |-> "fetch"]
DownloadGrants(a, whole) ==
  /\ call.pc \in DOMAIN Granting /\ a \in Answers(DownloadGrantsRoute)
  /\ whole \/ Lies
  /\ call' = IF DownloadGrantsRoute[a] # "Ok"
             THEN Ended(DownloadGrantsRoute[a])
             ELSE IF ~whole THEN Ended("Lied")
             ELSE [call EXCEPT !.pc = Granting[call.pc], !.attempt = 0,
                     !.batch = FirstOf(call.missing, GrantBatch)]
  /\ UNCHANGED <<remote, worldVars, store>>

\* The manifest is downloaded once, and its identity checked.
FetchManifest(a) ==
  /\ call.pc = "manifest" /\ a \in Answers(Download)
  /\ call' = IF Download[a] # "Ok" THEN Ended(Download[a])
             ELSE IF a = "forged" THEN Ended("RemoteManifestCorrupt")
             ELSE Journal(call)
  /\ UNCHANGED <<remote, worldVars, store>>

\* download_and_admit: every attempt has a writer of its own, and the bytes
\* are admitted only as the object they were asked for as.
Fetched(c) ==
  LET o == First(c.batch)
      rest == c.missing \ {o}
      more == c.batch \ {o}
  IN
  [c EXCEPT !.accounted = @ \cup {o}, !.attempt = 0, !.missing = rest,
            !.batch = more,
            !.pc = IF rest = {} THEN "adopt"
                   ELSE IF more = {} THEN "fetchGrants" ELSE "fetch"]
DownloadAndAdmit(a) ==
  /\ call.pc = "fetch" /\ a \in Answers(Download)
  /\ store' = IF a = "ok"
              THEN [store EXCEPT !.objects = @ \cup {First(call.batch)}]
              ELSE store
  /\ call' = CASE a = "ok" -> Fetched(call)
               [] a = "forged" -> Ended("Digest")
               [] Download[a] = "Io" -> Retried(DownloadAttempts)
               [] OTHER -> Ended(Download[a])
  /\ UNCHANGED <<remote, worldVars>>

\* adopt_snapshot, whose races with a collection are RootsGc's subject.
AdoptSnapshot ==
  /\ call.pc = "adopt"
  /\ store' = [store EXCEPT !.adopted = TRUE]
  /\ call' = Ended("Ok")
  /\ UNCHANGED <<remote, worldVars>>

-----------------------------------------------------------------------------
(* The environment.                                                        *)

\* The client's process dies.
Kill ==
  /\ "kill" \in Faults /\ ~healed /\ call.pc # "idle"
  /\ call' = [Idle EXCEPT !.result = "killed"]
  /\ UNCHANGED <<remote, worldVars, store>>

\* The remote sweeps a multipart upload that is not complete.
Sweep(o) ==
  /\ sweeps < MaxSweeps /\ ~healed
  /\ remote.held[o] # {} /\ remote.reported[o] # Parts(o)
  /\ o \notin remote.promoted
  /\ sweeps' = sweeps + 1
  /\ remote' = [remote EXCEPT !.held[o] = {}, !.reported[o] = {}]
  /\ call' = IF call.pc = "idle" THEN call
             ELSE [call EXCEPT !.swept = @ \cup {o},
                     !.live = @ /\ o \notin call.batch,
                     !.parts[o] = {}]
  /\ UNCHANGED <<healed, calls, store>>

\* Another client moves the head away from the one this push expects.
Compete ==
  /\ "compete" \in Faults /\ ~healed /\ remote.head = "none"
  /\ remote' = [remote EXCEPT !.head = "theirs"]
  /\ UNCHANGED <<worldVars, call, store>>

Heal ==
  /\ ~healed /\ healed' = TRUE
  /\ UNCHANGED <<remote, sweeps, calls, call, store>>

\* The answers worth trying at a point of a call.
At(pcs, route) == IF call.pc \in pcs THEN Answers(route) ELSE {}

Begin == PushSnapshot \/ PullHead
Push ==
  \/ \E a \in At({"declare"}, DeclareRoute), id \in {"ours", "theirs"} :
       \E packs \in Views(Objects \ (remote.promoted \cup Blobs), Blobs),
          blobs \in Views(Blobs \ remote.promoted, Objects \ Blobs) :
         Declare(a, packs, blobs, id)
  \/ \E a \in At({"blobGrants"}, BlobGrantsRoute), whole \in BOOLEAN :
       BlobGrants(a, whole)
  \/ \E a \in At({"packGrants"}, PackGrantsRoute), whole \in BOOLEAN :
       PackGrants(a, whole)
  \/ \E a \in At({"blobPart"}, UploadBlobPart) \cup {"status404"} :
       UploadPart(a)
  \/ PartsDone
  \/ \E a \in At({"blobReport"}, ReportRoute) : ReportBlobParts(a)
  \/ \E a \in At({"blobProbe", "reprobe"}, PackGrantsRoute) :
       \E packs \in Views(PackLane, Blobs),
          blobs \in Views(BlobLane, Objects \ Blobs) :
         BlobProbe(a, packs, blobs) \/ Reprobe(a, packs, blobs)
  \/ \E a \in At({"putPack"}, UploadPack) : UploadOnePack(a)
  \/ \E a \in At({"complete"}, CompleteRoute) :
       \E more \in Admissions : Complete(a, more)
Pull ==
  \/ \E a \in At({"head"}, HeadRoute) : ReadHead(a)
  \/ \E a \in At(DOMAIN Granting, DownloadGrantsRoute), whole \in BOOLEAN :
       DownloadGrants(a, whole)
  \/ \E a \in At({"manifest"}, Download) : FetchManifest(a)
  \/ \E a \in At({"fetch"}, Download) : DownloadAndAdmit(a)
  \/ AdoptSnapshot
Step == Push \/ Pull
Environment == Kill \/ Compete \/ Heal \/ \E o \in Blobs : Sweep(o)

Next == Begin \/ Step \/ Environment
Spec == Init /\ [][Next]_vars

\* A call that is running is carried on: nothing in the engine waits for
\* anything but the carrier, and the carrier's calls end.
FairSpec == Spec /\ WF_vars(Step)

-----------------------------------------------------------------------------
(* The inductive invariant.                                                *)

PushPcs == {"declare", "blobGrants", "blobPart", "blobReport", "blobProbe",
            "packGrants", "putPack", "reprobe", "complete"}
PullPcs == {"head", "manifestGrant", "manifest", "fetchGrants", "fetch",
            "adopt"}

Shape(c) == c = [f \in DOMAIN Idle |-> c[f]]

RemoteFields == {"promoted", "head", "staged", "claimed", "held", "reported"}

\* What the session can assemble of a blob is at the remote's store, and a
\* head of ours is whole.
RemoteInv ==
  /\ remote = [f \in RemoteFields |-> remote[f]]
  /\ remote.promoted \subseteq Objects
  /\ \A p \in remote.claimed : p \subseteq Objects
  /\ remote.held = [o \in Blobs |-> remote.held[o]]
  /\ remote.reported = [o \in Blobs |-> remote.reported[o]]
  /\ \A o \in Blobs : /\ remote.held[o] \subseteq Parts(o)
                      /\ remote.reported[o] \subseteq remote.held[o]
  /\ remote.head = "ours" => Objects \subseteq remote.promoted

StoreInv ==
  /\ store = [objects |-> store.objects, adopted |-> store.adopted]
  /\ store.objects \subseteq Objects
  /\ store.adopted => Objects \subseteq store.objects

CallTypes ==
  /\ Shape(call)
  /\ call.pc \in {"idle"} \cup PushPcs \cup PullPcs
  /\ call.unsent \subseteq Objects /\ call.queue \subseteq Blobs
  /\ call.deferred \subseteq Blobs /\ call.batch \subseteq Objects
  /\ call.granted = [o \in Blobs |-> call.granted[o]]
  /\ call.parts = [o \in Blobs |-> call.parts[o]]
  /\ call.pc # "idle" => call.result = "none"
  /\ call.pc \in {"declare", "blobGrants"} => call.batch = {}

\* Whoever was reported is at the destination; a push that has not declared
\* yet has reported nobody.
Landed ==
  remote.promoted \cup Claimed \cup store.objects
    \cup {o \in Blobs : remote.reported[o] = Parts(o)}
AccountInv ==
  /\ call.accounted \subseteq Landed \cup call.swept
  /\ call.acked \subseteq Claimed
  /\ call.pc \in PushPcs =>
       \A o \in Blobs : call.parts[o] \subseteq remote.held[o]
  /\ call.pc = "declare" => call.accounted = {} /\ call.acked = {}

\* A blob in hand: what the grant said is there is there, and so is what
\* landed since, unless a sweep took it; nothing else of it was accepted.
BlobInv ==
  call.pc \in {"blobPart", "blobReport"} =>
    LET o == First(call.batch) IN
    /\ call.batch \subseteq Blobs /\ call.batch # {}
    /\ \A p \in call.batch :
         p \in call.swept \/ call.granted[p] \subseteq remote.reported[p]
    /\ o \in call.swept \/ call.landed \subseteq remote.held[o]
    /\ call.parts[o] \subseteq call.granted[o] \cup call.landed
    /\ \A p \in call.batch \ {o} : call.parts[p] \subseteq call.granted[p]
    /\ call.pc = "blobReport" /\ o \notin call.deferred =>
         Parts(o) \subseteq call.granted[o] \cup call.landed

\* No pack still to be sent has an object in it that was accepted.
PackInv ==
  /\ call.pc \in {"packGrants", "putPack"} => call.unsent \cap call.acked = {}
  /\ call.pc = "putPack" => Pack \in remote.claimed

\* What a pull has yet to fetch is exactly what the store lacks.
PullInv ==
  /\ call.pc \in {"fetchGrants", "fetch"} =>
       /\ call.missing # {} /\ call.missing = Objects \ store.objects
       /\ call.batch \subseteq call.missing
  /\ call.pc = "fetch" => call.batch # {}
  /\ call.pc = "adopt" => Objects \subseteq store.objects
  /\ call.pc \in {"head", "manifestGrant"} => call.missing = {}

IndInv ==
  RemoteInv /\ StoreInv /\ CallTypes /\ AccountInv /\ BlobInv /\ PackInv
    /\ PullInv

-----------------------------------------------------------------------------
(* Properties.                                                             *)

\* Progress reports an object only when it is at its destination: promoted,
\* in a staged pack or fully uploaded on a push unless a sweep took it since,
\* admitted on a pull.
AccountedMeansLanded ==
  call.accounted \subseteq
    remote.promoted \cup Claimed \cup call.swept \cup store.objects
      \cup {o \in Blobs : remote.held[o] = Parts(o)}

\* A replan sends neither a pack nor a part again that the store accepted
\* from this push, and a pull never downloads an object that is resident.
NothingMovedTwice ==
  /\ call.pc = "putPack" => Pack \cap call.acked = {}
  /\ call.pc = "blobPart" /\ Owed(call) # {} =>
       Part(call) \notin call.parts[First(call.batch)]
  /\ call.pc = "fetch" => First(call.batch) \notin store.objects

\* A push that returns Ok has promoted the snapshot: every object is admitted
\* and the head is the one it pushed; a pull that returns Ok is complete.
OkIsTrue ==
  [][call.result = "none" /\ call'.result = "Ok" =>
       \/ call.pc \in PushPcs /\ remote'.promoted = Objects
                              /\ remote'.head = "ours"
       \/ call.pc \in PullPcs /\ store'.objects = Objects]_vars

\* Every call ends: a remote that expires every grant, refuses to move or
\* loses every answer fails the push in bounded time.
CallsEnd == call.pc # "idle" ~> call.pc = "idle"

\* Once nothing goes wrong any more a push succeeds, whatever the pushes,
\* kills and sweeps before it left at the remote.
HealthyPushSucceeds ==
  (healed /\ call.pc = "declare" /\ remote.head # "theirs")
    ~> call.result = "Ok"

=============================================================================
