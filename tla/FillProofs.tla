----------------------------- MODULE FillProofs -----------------------------
(***************************************************************************)
(* Fill's sinks for any tensors, destinations, offsets and staging sizes:  *)
(* a transfer carries the tensor it was staged for to the place it was     *)
(* staged for, whatever was retried, grown or retargeted in between.  That *)
(* the image of a tensor is the arrangement its record means               *)
(* (ArrangesExactly) is about folds over its shape and stays with the      *)
(* model-checking run; here it is the hypothesis.                          *)
(***************************************************************************)
EXTENDS Fill, TLAPS

USE FillAssumption, Zenon

\* The bytes of a sequence are those of the transfer that carries it.
LEMMA WholeSlab ==
  ASSUME NEW image \in Seq(Int)
  PROVE  [i \in 1..Len(image) |->
            IF i \in DOMAIN image THEN image[i] ELSE Undefined] = image
<1>1. DOMAIN image = 1..Len(image) /\ image = [i \in 1..Len(image) |-> image[i]]
  BY SMT
<1> DEFINE f == [i \in 1..Len(image) |->
                   IF i \in DOMAIN image THEN image[i] ELSE Undefined]
<1>2. \A i \in 1..Len(image) :
        (IF i \in DOMAIN image THEN image[i] ELSE Undefined) = image[i]
  BY <1>1
<1>3. f = [i \in 1..Len(image) |-> image[i]]
  BY <1>2
<1> QED BY <1>1, <1>3

\* A tensor that is filled has an image.
LEMMA HasImage ==
  ASSUME NEW t \in Tensors \cup Streamed, NEW via \in Vias, Filled(t, via).ok
  PROVE  Filled(t, via).image \in Seq(Int)
  BY DEF Vias
-----------------------------------------------------------------------------
(* Transfers.                                                              *)

\* ensure_capacity changes the slab and its size.
LEMMA Growing ==
  ASSUME NEW s, Shape(s), NEW n, ~(n <= s.capacity), NEW g, g = Grown(s, n)
  PROVE  /\ Shape(g) /\ g.base = s.base /\ g.room = s.room
         /\ g.capacity = n /\ g.staged = s.staged
         /\ g.offset = s.offset /\ g.slab = <<>>
<1>1. g = [s EXCEPT !.capacity = n, !.slab = <<>>]
  BY DEF Grown
<1> QED BY <1>1 DEF Shape, Fields

\* retarget changes the destination.
LEMMA Targeting ==
  ASSUME NEW s, Shape(s), NEW base, NEW g, g = Targeted(s, base)
  PROVE  /\ Shape(g) /\ g.base = base /\ g.room = Rooms[base]
         /\ g.capacity = s.capacity /\ g.staged = s.staged
         /\ g.offset = s.offset /\ g.slab = s.slab
  BY DEF Shape, Fields, Targeted

\* staging changes what is pending.
LEMMA Staging ==
  ASSUME NEW s, Shape(s), NEW image, NEW offset,
         NEW g, g = Staged(s, image, offset)
  PROVE  /\ Shape(g) /\ g.base = s.base /\ g.room = s.room
         /\ g.capacity = s.capacity /\ g.staged = Len(image)
         /\ g.offset = offset /\ g.slab = image
  BY DEF Shape, Fields, Staged

\* commit leaves nothing pending.
LEMMA Sending ==
  ASSUME NEW s, Shape(s), NEW g, g = [s EXCEPT !.staged = 0]
  PROVE  /\ Shape(g) /\ g.base = s.base /\ g.room = s.room
         /\ g.capacity = s.capacity /\ g.staged = 0
  BY DEF Shape, Fields

\* What LandedInv says of a transfer from a full sink.
LEMMA TransferIs ==
  ASSUME NEW s, NEW whose, s.slab \in Seq(Int), s.staged = Len(s.slab),
         landed' = Transfer(s, whose)
  PROVE  /\ landed'.at = s.offset /\ landed'.base = s.base
         /\ landed'.whose = whose /\ landed'.bytes = s.slab
<1>1. /\ landed'.at = s.offset /\ landed'.base = s.base
      /\ landed'.whose = whose
      /\ landed'.bytes = [i \in 1..s.staged |->
           IF i \in DOMAIN s.slab THEN s.slab[i] ELSE Undefined]
  BY DEF Transfer
<1> QED BY <1>1, WholeSlab

\* A transfer of what StagedInv says is staged is one LandedInv allows.
LEMMA TransferLands ==
  ASSUME SinkInv, StagedInv, sink.staged # 0,
         landed' = Transfer(sink, owner)
  PROVE  LandedInv'
<1>1. /\ owner.tensor \in Streamed /\ owner.via \in Vias
      /\ Filled(owner.tensor, owner.via).ok
      /\ sink.slab = Image(owner) /\ sink.staged = Len(sink.slab)
      /\ sink.offset = owner.offset /\ sink.base = owner.base
      /\ sink.offset + sink.staged <= sink.room
      /\ sink.room = Rooms[sink.base]
  BY DEF StagedInv, SinkInv, Arrives
<1>2. sink.slab \in Seq(Int)
  BY <1>1, HasImage DEF Image
<1> QED
  BY <1>1, <1>2, TransferIs DEF LandedInv, Arrives, Image

\* One fill into a sink with nothing wrong about its destination.
LEMMA FillsInto ==
  ASSUME NEW s, NEW t \in Streamed, NEW via \in Vias, NEW offset \in Offsets,
         NEW copied \in BOOLEAN,
         Shape(s), s.base \in Bases, s.room = Rooms[s.base],
         s.capacity \in Nat, s.staged \in Nat,
         s.staged # 0 => /\ s.staged = sink.staged /\ s.slab = sink.slab
                         /\ s.offset = sink.offset /\ s.base = sink.base,
         StagedInv, LandedInv, SinkInv,
         FillInto(s, t, via, Filled(t, via), offset, copied)
  PROVE  SinkInv' /\ StagedInv' /\ LandedInv'
<1> DEFINE fill == Filled(t, via)
           full == Staged(s, fill.image, offset)
           sent == [full EXCEPT !.staged = 0]
           whose == [tensor |-> t, via |-> via, offset |-> offset,
                     base |-> s.base]
<1>1. CASE ~fill.ok \/ StagingRefused(s, Len(fill.image), offset)
  <2>1. sink' = s /\ owner' = owner /\ landed' = landed
    BY <1>1 DEF FillInto
  <2>2. SinkInv'
    BY <2>1 DEF SinkInv
  <2>3. StagedInv'
    BY <2>1 DEF StagedInv, SinkInv, Arrives, Image
  <2> QED
    BY <2>1, <2>2, <2>3 DEF LandedInv, Arrives, Image
<1>2. CASE fill.ok /\ ~StagingRefused(s, Len(fill.image), offset)
  <2>1. /\ owner' = whose
        /\ IF copied THEN landed' = Transfer(full, whose) /\ sink' = sent
           ELSE sink' = full /\ landed' = landed
    BY <1>2 DEF FillInto
  <2>2. /\ fill.image \in Seq(Int) /\ Len(fill.image) \in Nat
        /\ offset \in Nat /\ offset + Len(fill.image) <= Rooms[s.base]
    <3>1. fill.image \in Seq(Int)
      BY <1>2, HasImage
    <3>2. offset \in Nat /\ Rooms[s.base] \in Nat
      OBVIOUS
    <3>3. Len(fill.image) \in Nat
      BY <3>1, SMT
    <3>4. ~(offset + Len(fill.image) > Rooms[s.base])
      BY <1>2 DEF StagingRefused
    <3> QED
      BY <3>1, <3>2, <3>3, <3>4, SMT
  <2>3. /\ Shape(full) /\ full.base = s.base /\ full.room = s.room
        /\ full.capacity = s.capacity /\ full.staged = Len(fill.image)
        /\ full.offset = offset /\ full.slab = fill.image
    <3>1. full = Staged(s, fill.image, offset)
      OBVIOUS
    <3> HIDE DEF full, fill
    <3> QED BY <3>1, Staging, SMT
  <2>4. /\ Shape(sent) /\ sent.base = full.base /\ sent.room = full.room
        /\ sent.capacity = full.capacity /\ sent.staged = 0
    <3> HIDE DEF full
    <3> QED BY <2>3, Sending
  <2>5. /\ whose.tensor = t /\ whose.via = via /\ whose.offset = offset
        /\ whose.base = s.base
    OBVIOUS
  <2>0. 0 \in Nat
    BY SMT
  <2> HIDE DEF whose, full, sent, fill
  <2>6. CASE copied
    <3>1. sink' = sent /\ landed' = Transfer(full, whose)
      BY <2>1, <2>6
    <3>2. SinkInv' /\ StagedInv'
      BY <2>0, <2>3, <2>4, <3>1 DEF SinkInv, StagedInv
    <3>3. /\ landed'.at = offset /\ landed'.base = s.base
          /\ landed'.whose = whose /\ landed'.bytes = fill.image
      BY <2>2, <2>3, <3>1, TransferIs
    <3> QED
      BY <1>2, <2>2, <2>5, <3>2, <3>3 DEF LandedInv, Arrives, Image, fill
  <2>7. CASE ~copied
    <3>1. sink' = full /\ landed' = landed
      BY <2>1, <2>7
    <3>2. SinkInv'
      BY <2>2, <2>3, <3>1 DEF SinkInv
    <3>3. StagedInv'
      BY <1>2, <2>1, <2>2, <2>3, <2>5, <3>1
         DEF StagedInv, Arrives, Image, fill
    <3> QED
      BY <3>1, <3>2, <3>3 DEF LandedInv, Arrives, Image
  <2> QED
    BY <2>6, <2>7
<1> QED
  BY <1>1, <1>2

-----------------------------------------------------------------------------
(* The invariant.                                                          *)

\* IndInv survives: the calls of a host buffer's client.
LEMMA HostInd ==
  ASSUME IndInv, HostCalls
  PROVE  IndInv'
<1>1. PICK t \in Tensors, via \in Vias : HostFill(t, via)
  BY DEF HostCalls
<1> DEFINE image == Filled(t, via).image
<1>2. PICK base \in Bases, offset \in Offsets :
        /\ Filled(t, via).ok /\ offset + Len(image) <= Rooms[base]
        /\ host' = [tensor |-> t, via |-> via, offset |-> offset,
                    stats |-> Filled(t, via).stats,
                    bytes |-> [i \in 1..Rooms[base] |->
                      IF i - offset \in DOMAIN image
                      THEN image[i - offset] ELSE Undefined]]
        /\ UNCHANGED <<sink, owner, landed>>
  BY <1>1 DEF HostFill
<1>3. /\ host'.tensor = t /\ host'.via = via /\ host'.offset = offset
      /\ host'.bytes = [i \in 1..Rooms[base] |->
           IF i - offset \in DOMAIN image THEN image[i - offset]
           ELSE Undefined]
  BY <1>2
<1>4. Arrives(host', Tensors) /\ host'.offset \in Nat /\ Image(host') = image
  BY <1>2, <1>3, FillAssumption DEF Arrives, Image
<1> HIDE DEF image
<1>5. HostInv'
  <2>1. \E x \in Bases :
          /\ host'.offset + Len(Image(host')) <= Rooms[x]
          /\ host'.bytes = [i \in 1..Rooms[x] |->
               IF i - host'.offset \in DOMAIN Image(host')
               THEN Image(host')[i - host'.offset] ELSE Undefined]
    <3>1. /\ host'.offset + Len(image) <= Rooms[base]
          /\ host'.bytes = [i \in 1..Rooms[base] |->
               IF i - host'.offset \in DOMAIN image
               THEN image[i - host'.offset] ELSE Undefined]
      BY <1>2, <1>3
    <3> QED BY <1>4, <3>1
  <2> QED BY <1>4, <2>1 DEF HostInv
<1> QED
  BY <1>2, <1>5 DEF IndInv, SinkInv, StagedInv, LandedInv, Arrives, Image

\* IndInv survives: ensure_capacity, which replaces no slab that is needed.
LEMMA EnsureInd ==
  ASSUME SinkInv, StagedInv, NEW bytes \in Nat, NEW allocated \in BOOLEAN,
         EnsureCapacity(bytes, allocated)
  PROVE  SinkInv' /\ StagedInv' /\ landed' = landed
<1>1. /\ ~(bytes <= sink.capacity) /\ sink.staged = 0 /\ landed' = landed
      /\ sink' = Grown(sink, bytes)
  <2>1. bytes > sink.capacity => ~(bytes <= sink.capacity)
    BY SMT DEF SinkInv
  <2> QED BY <2>1 DEF EnsureCapacity, EnsureRefused
<1>2. /\ Shape(sink') /\ sink'.base = sink.base /\ sink'.room = sink.room
      /\ sink'.capacity = bytes /\ sink'.staged = sink.staged
  BY <1>1, Growing, SMT DEF SinkInv
<1> QED
  BY <1>1, <1>2 DEF SinkInv, StagedInv

\* IndInv survives: retarget, which refuses while a transfer is pending.
LEMMA RetargetInd ==
  ASSUME SinkInv, StagedInv, NEW base \in Bases, Retarget(base)
  PROVE  SinkInv' /\ StagedInv' /\ landed' = landed
<1>1. /\ sink.staged = 0 /\ landed' = landed /\ sink' = Targeted(sink, base)
  BY DEF Retarget, RetargetRefused
<1>2. /\ Shape(sink') /\ sink'.base = base /\ sink'.room = Rooms[base]
      /\ sink'.capacity = sink.capacity /\ sink'.staged = sink.staged
  <2>1. Shape(sink) /\ sink' = Targeted(sink, base)
    BY <1>1 DEF SinkInv
  <2> QED BY <2>1, Targeting, SMT
<1> QED
  BY <1>1, <1>2 DEF SinkInv, StagedInv

\* IndInv survives: commit asked for again.
LEMMA CommitInd ==
  ASSUME SinkInv, StagedInv, NEW copied \in BOOLEAN, Commit(copied)
  PROVE  SinkInv' /\ StagedInv' /\ LandedInv'
<1>1. /\ sink.staged # 0 /\ landed' = Transfer(sink, owner)
      /\ sink' = [sink EXCEPT !.staged = 0]
  BY DEF Commit
<1>2. 0 \in Nat
  BY SMT
<1>3. SinkInv' /\ StagedInv'
  BY <1>1, <1>2, Sending DEF SinkInv, StagedInv
<1> QED
  BY <1>1, <1>3, TransferLands

\* IndInv survives: a call of the CUDA client, which grows and retargets the
\* sink before it fills it.
LEMMA ClientInd ==
  ASSUME SinkInv, StagedInv, LandedInv, NEW t \in Streamed, NEW via \in Vias,
         ClientFill(t, via)
  PROVE  SinkInv' /\ StagedInv' /\ LandedInv'
<1>1. PICK base \in Bases, allocated \in BOOLEAN :
        /\ ~EnsureRefused(sink, Rooms[base], allocated)
        /\ LET grown == Grown(sink, Rooms[base])
           IN IF RetargetRefused(grown)
              THEN sink' = grown /\ UNCHANGED <<owner, landed>>
              ELSE \E offset \in Offsets, copied \in BOOLEAN :
                     FillInto(Targeted(grown, base), t, via, Filled(t, via),
                              offset, copied)
  BY DEF ClientFill
<1> DEFINE grown == Grown(sink, Rooms[base])
           s == Targeted(grown, base)
<1>2. /\ Shape(grown) /\ grown.base = sink.base /\ grown.room = sink.room
      /\ grown.capacity \in Nat /\ grown.staged = sink.staged
      /\ grown.offset = sink.offset
      /\ sink.staged # 0 => grown.slab = sink.slab
  <2>1. CASE Rooms[base] <= sink.capacity
    BY <2>1 DEF Grown, SinkInv
  <2>2. CASE ~(Rooms[base] <= sink.capacity)
    <3>1. grown = Grown(sink, Rooms[base])
      OBVIOUS
    <3>2. Rooms[base] > sink.capacity
      BY <2>2, SMT DEF SinkInv
    <3>3. sink.staged = 0
      BY <1>1, <3>2 DEF EnsureRefused
    <3> HIDE DEF grown
    <3>4. /\ Shape(grown) /\ grown.base = sink.base
          /\ grown.room = sink.room /\ grown.capacity = Rooms[base]
          /\ grown.staged = sink.staged /\ grown.offset = sink.offset
      BY <2>2, <3>1, Growing, SMT DEF SinkInv
    <3> QED BY <3>3, <3>4
  <2> QED BY <2>1, <2>2
<1>3. CASE RetargetRefused(grown)
  <2>1. sink' = grown /\ owner' = owner /\ landed' = landed
    BY <1>1, <1>3
  <2> HIDE DEF grown
  <2>2. SinkInv'
    BY <1>2, <2>1 DEF SinkInv
  <2>3. StagedInv'
    BY <1>2, <2>1 DEF StagedInv, SinkInv, Arrives, Image
  <2> QED BY <2>1, <2>2, <2>3 DEF LandedInv, Arrives, Image
<1>4. CASE ~RetargetRefused(grown)
  <2>1. PICK offset \in Offsets, copied \in BOOLEAN :
          FillInto(s, t, via, Filled(t, via), offset, copied)
    BY <1>1, <1>4
  <2>2. sink.staged = 0
    BY <1>2, <1>4 DEF RetargetRefused
  <2> HIDE DEF grown
  <2>3. /\ Shape(s) /\ s.base = base /\ s.room = Rooms[base]
        /\ s.capacity \in Nat /\ s.staged = 0
    <3>1. s = Targeted(grown, base)
      OBVIOUS
    <3> HIDE DEF s
    <3>2. /\ Shape(s) /\ s.base = base /\ s.room = Rooms[base]
          /\ s.capacity = grown.capacity /\ s.staged = grown.staged
      BY <1>2, <3>1, Targeting, SMT
    <3> QED BY <1>2, <2>2, <3>2
  <2>4. 0 \in Nat
    BY SMT
  <2> HIDE DEF s
  <2> QED
    BY <2>1, <2>3, <2>4, FillsInto
<1> QED BY <1>3, <1>4

\* IndInv survives: the calls of the CUDA client and of a raw sink.
LEMMA CudaInd ==
  ASSUME IndInv, CudaCalls
  PROVE  IndInv'
<1>1. SinkInv /\ StagedInv /\ LandedInv /\ HostInv
  BY DEF IndInv
<1>2. HostInv'
  <2>1. host' = host
    BY DEF CudaCalls, EnsureCapacity, Retarget, FillTensor, Commit,
           ClientFill, others
  <2> QED BY <1>1, <2>1 DEF HostInv, Arrives, Image
<1>3. ASSUME landed' = landed PROVE LandedInv'
  BY <1>1, <1>3 DEF LandedInv, Arrives, Image
<1>4. ASSUME NEW bytes \in Capacities, NEW allocated \in BOOLEAN,
             EnsureCapacity(bytes, allocated)
      PROVE  SinkInv' /\ StagedInv' /\ LandedInv'
  BY <1>1, <1>3, <1>4, EnsureInd
<1>5. ASSUME NEW base \in Bases, Retarget(base)
      PROVE  SinkInv' /\ StagedInv' /\ LandedInv'
  BY <1>1, <1>3, <1>5, RetargetInd
<1>6. ASSUME NEW t \in Streamed, NEW via \in Vias, FillTensor(t, via)
      PROVE  SinkInv' /\ StagedInv' /\ LandedInv'
  <2>1. PICK offset \in Offsets, copied \in BOOLEAN :
          FillInto(sink, t, via, Filled(t, via), offset, copied)
    BY <1>6 DEF FillTensor
  <2> QED
    BY <1>1, <2>1, FillsInto DEF SinkInv
<1>7. ASSUME NEW copied \in BOOLEAN, Commit(copied)
      PROVE  SinkInv' /\ StagedInv' /\ LandedInv'
  BY <1>1, <1>7, CommitInd
<1>8. ASSUME NEW t \in Streamed, NEW via \in Vias, ClientFill(t, via)
      PROVE  SinkInv' /\ StagedInv' /\ LandedInv'
  BY <1>1, <1>8, ClientInd
<1> QED
  BY <1>2, <1>4, <1>5, <1>6, <1>7, <1>8 DEF CudaCalls, IndInv

\* The inductive invariant of the sinks (HostSink, CudaSink, the clients).
THEOREM SinksInvariant == Spec => []IndInv
<1>1. Init => IndInv
  <2> SUFFICES ASSUME Init PROVE IndInv
    OBVIOUS
  <2>1. PICK base \in Bases, capacity \in Capacities :
          sink = [base |-> base, room |-> Rooms[base],
                  capacity |-> capacity, staged |-> 0, offset |-> 0,
                  slab |-> <<>>]
    BY DEF Init
  <2>2. SinkInv /\ StagedInv
    <3>1. 0 \in Nat /\ capacity \in Nat
      BY SMT
    <3> QED
      BY <2>1, <3>1 DEF SinkInv, StagedInv, Shape, Fields
  <2> QED
    BY <2>2 DEF Init, IndInv, LandedInv, HostInv
<1>2. IndInv /\ [Next]_vars => IndInv'
  <2> SUFFICES ASSUME IndInv, [Next]_vars PROVE IndInv'
    OBVIOUS
  <2>1. ASSUME UNCHANGED <<sink, owner, landed, host>> PROVE IndInv'
    <3>1. SinkInv' /\ StagedInv'
      BY <2>1 DEF IndInv, SinkInv, StagedInv, Arrives, Image
    <3>2. LandedInv' /\ HostInv'
      BY <2>1 DEF IndInv, LandedInv, HostInv, Arrives, Image
    <3> QED BY <3>1, <3>2 DEF IndInv
  <2>2. CASE Ratification
    BY <2>1, <2>2 DEF Ratification, RatifyRecord
  <2>3. CASE UNCHANGED vars
    BY <2>1, <2>3 DEF vars
  <2> QED
    BY <2>2, <2>3, HostInd, CudaInd DEF Next
<1> QED
  BY <1>1, <1>2, PTL DEF Spec

\* However transfers fail and are committed again, between growing,
\* retargeting and refilling the sink, a transfer the device accepts carries
\* its own tensor to its own place (CudaSink), provided the arrangement is
\* computed exactly.
THEOREM TransfersAreArranged ==
  ASSUME ArrangesExactly
  PROVE  Spec => []DeviceIsArranged
<1>1. IndInv => DeviceIsArranged
  <2> SUFFICES ASSUME IndInv, landed # NoTransfer
               PROVE  DeviceIsArranged
    BY DEF DeviceIsArranged
  <2>1. Image(landed.whose) = Wanted(landed.whose.tensor, landed.whose.via)
    BY DEF IndInv, LandedInv, Arrives, Image, ArrangesExactly
  <2> QED
    BY <2>1 DEF DeviceIsArranged, IndInv, LandedInv
<1> QED
  BY <1>1, SinksInvariant, PTL
=============================================================================
