-------------------------------- MODULE Fill --------------------------------
(***************************************************************************)
(* Filling a destination with one arranged tensor: the fill of             *)
(* layout_fill.rs, its host sink and its CUDA sink (tensorfs-cuda), and    *)
(* the clients of tensorfs-py that feed them from records, files or an     *)
(* address.                                                                *)
(*                                                                         *)
(* Undefined is what a buffer holds before it is written.                  *)
(***************************************************************************)
EXTENDS Integers, Sequences

CONSTANTS
  Filled(_, _), \* Arrange's Filling: [ok, image, stats], or the refusal
  Wanted(_, _), \* Arrange's Arrangement: the bytes the tensor should have
  Judged(_),   \* Morphism's Ratify
  Tensors,     \* the tensors host buffers are filled with
  Streamed,    \* those filled through the CUDA client
  Rooms,       \* the destinations: base |-> bytes behind it
  Offsets,     \* device offsets callers ask for
  Records,     \* the records put to ratification
  Capacities   \* staging sizes callers ask for

Bases == DOMAIN Rooms
Vias == {"reader", "files", "address"}

ASSUME FillAssumption ==
  /\ \A base \in Bases : Rooms[base] \in Nat
  /\ Offsets \subseteq Nat /\ Capacities \subseteq Nat
  /\ \A t \in Tensors \cup Streamed, via \in Vias :
       Filled(t, via).ok => Filled(t, via).image \in Seq(Int)

VARIABLES
  caller,  \* whose calls the behaviour makes: they share no state
  sink,    \* CudaSink: [base, room, capacity, staged, offset, slab]
  owner,   \* whose bytes are staged: the tensor, or NoTensor
  landed,  \* the latest transfer the device accepted, or NoTransfer
  host,    \* the latest fill of a host buffer, or NoFill
  wished   \* the ratification asked for: [record, verdict]

vars == <<caller, sink, owner, landed, host, wished>>
others == <<caller, host, wished>>

Undefined == -1
NoTensor == [shape |-> <<>>]
NoTransfer == [bytes |-> <<>>]
NoFill == [bytes |-> <<>>]
NoWish == [verdict |-> "none"]

(***************************************************************************)
(* HostSink (BufferSink in the bindings): the staging is the destination.  *)
(***************************************************************************)
HostFill(t, via) ==
  /\ host = NoFill
  /\ LET fill == Filled(t, via)
     IN /\ fill.ok
        /\ \E base \in Bases, offset \in Offsets :
             /\ offset + Len(fill.image) <= Rooms[base]
             /\ host' = [tensor |-> t, via |-> via, offset |-> offset,
                         stats |-> fill.stats,
                         bytes |-> [i \in 1..Rooms[base] |->
                           IF i - offset \in DOMAIN fill.image
                           THEN fill.image[i - offset] ELSE Undefined]]
  /\ UNCHANGED <<caller, sink, owner, landed, wished>>

(***************************************************************************)
(* CudaSink.  The operations are functions of the sink so that a client's  *)
(* sequence of them, made under its lock, is one action.                   *)
(***************************************************************************)
Grown(s, bytes) == IF bytes <= s.capacity THEN s
                   ELSE [s EXCEPT !.capacity = bytes, !.slab = <<>>]

(* ensure_capacity refuses to replace a slab with a transfer pending, and  *)
(* the allocation may fail.                                                *)
EnsureRefused(s, bytes, allocated) ==
  bytes > s.capacity /\ (s.staged # 0 \/ ~allocated)

Targeted(s, base) == [s EXCEPT !.base = base, !.room = Rooms[base]]

(* retarget refuses while a staged transfer is pending.                    *)
RetargetRefused(s) == s.staged # 0

StagingRefused_SlabOnly(s, bytes, offset) == bytes > s.capacity

(* staging: the bounds, then the tensor's bytes written into the slab.     *)
StagingRefused(s, bytes, offset) ==
  bytes > s.capacity \/ offset + bytes > s.room

Staged(s, image, offset) ==
  [s EXCEPT !.staged = Len(image), !.offset = offset, !.slab = image]

(* commit: one transfer of the staged bytes to base + offset.              *)
Transfer(s, whose) ==
  [at |-> s.offset, base |-> s.base, whose |-> whose,
   bytes |-> [i \in 1..s.staged |->
                IF i \in DOMAIN s.slab THEN s.slab[i] ELSE Undefined]]

EnsureCapacity(bytes, allocated) ==
  /\ ~EnsureRefused(sink, bytes, allocated)
  /\ bytes > sink.capacity
  /\ sink' = Grown(sink, bytes)
  /\ UNCHANGED <<owner, landed>> /\ UNCHANGED others

Retarget(base) ==
  /\ ~RetargetRefused(sink)
  /\ sink' = Targeted(sink, base)
  /\ UNCHANGED <<owner, landed>> /\ UNCHANGED others

(* fill into a given sink; the transfer itself may fail, which leaves the  *)
(* tensor staged.                                                          *)
FillInto(s, t, via, fill, offset, copied) ==
  LET full == Staged(s, fill.image, offset)
  IN IF ~fill.ok \/ StagingRefused(s, Len(fill.image), offset)
     THEN /\ sink' = s
          /\ UNCHANGED <<owner, landed>>
     ELSE /\ owner' = [tensor |-> t, via |-> via, offset |-> offset,
                       base |-> s.base]
          /\ IF copied
             THEN /\ landed' = Transfer(full, owner')
                  /\ sink' = [full EXCEPT !.staged = 0]
             ELSE sink' = full /\ UNCHANGED landed

FillTensor(t, via) ==
  /\ LET fill == Filled(t, via)
     IN \E offset \in Offsets, copied \in BOOLEAN :
          FillInto(sink, t, via, fill, offset, copied)
  /\ UNCHANGED others

(* commit asked for again after a failed transfer.                         *)
Commit(copied) ==
  /\ sink.staged # 0 /\ copied
  /\ landed' = Transfer(sink, owner)
  /\ sink' = [sink EXCEPT !.staged = 0]
  /\ UNCHANGED owner /\ UNCHANGED others

(* CudaFillClient: ensure_capacity, retarget and fill under one lock.      *)
ClientFill(t, via) ==
  /\ LET fill == Filled(t, via)
     IN \E base \in Bases, allocated \in BOOLEAN :
          /\ ~EnsureRefused(sink, Rooms[base], allocated)
          /\ LET grown == Grown(sink, Rooms[base])
             IN IF RetargetRefused(grown)
                THEN sink' = grown /\ UNCHANGED <<owner, landed>>
                ELSE \E offset \in Offsets, copied \in BOOLEAN :
                       FillInto(Targeted(grown, base), t, via, fill,
                                offset, copied)
  /\ UNCHANGED others

(* Ratifying a record of the catalogue or a candidate.                     *)
RatifyRecord(record) ==
  /\ wished = NoWish
  /\ wished' = [record |-> record, verdict |-> Judged(record)]
  /\ UNCHANGED <<caller, sink, owner, landed, host>>

(* CudaSink::new; a client starts with no destination.                     *)
Init ==
  /\ \E base \in Bases, capacity \in Capacities :
       sink = [base |-> base, room |-> Rooms[base], capacity |-> capacity,
               staged |-> 0, offset |-> 0, slab |-> <<>>]
  /\ caller \in {"host", "cuda", "verifier"}
  /\ owner = NoTensor /\ landed = NoTransfer
  /\ host = NoFill /\ wished = NoWish

HostCalls ==
  /\ caller = "host"
  /\ \E t \in Tensors, via \in Vias : HostFill(t, via)

CudaCalls ==
  /\ caller = "cuda"
  /\ \/ \E bytes \in Capacities, allocated \in BOOLEAN :
          EnsureCapacity(bytes, allocated)
     \/ \E base \in Bases : Retarget(base)
     \/ \E t \in Streamed, via \in Vias : FillTensor(t, via)
     \/ \E copied \in BOOLEAN : Commit(copied)
     \/ \E t \in Streamed, via \in Vias : ClientFill(t, via)

Ratification ==
  /\ caller = "verifier"
  /\ \E record \in Records : RatifyRecord(record)

Next == HostCalls \/ CudaCalls \/ Ratification

Spec == Init /\ [][Next]_vars

(***************************************************************************)
(* The inductive invariant: what is staged is whole, its owner's, and fits *)
(* where its owner asked for it; what has landed was staged so.            *)
(***************************************************************************)
Arrives(whose, tensors) ==
  /\ whose.tensor \in tensors /\ whose.via \in Vias
  /\ Filled(whose.tensor, whose.via).ok
Image(whose) == Filled(whose.tensor, whose.via).image

Fields == {"base", "room", "capacity", "staged", "offset", "slab"}
Shape(s) == s = [f \in Fields |-> s[f]]
SinkInv ==
  /\ Shape(sink)
  /\ sink.base \in Bases /\ sink.room = Rooms[sink.base]
  /\ sink.capacity \in Nat /\ sink.staged \in Nat

StagedInv ==
  sink.staged # 0 =>
    /\ Arrives(owner, Streamed)
    /\ sink.slab = Image(owner) /\ sink.staged = Len(sink.slab)
    /\ sink.offset = owner.offset /\ sink.base = owner.base
    /\ sink.offset \in Nat /\ sink.offset + sink.staged <= sink.room

LandedInv ==
  landed # NoTransfer =>
    /\ Arrives(landed.whose, Streamed)
    /\ landed.bytes = Image(landed.whose)
    /\ landed.base = landed.whose.base /\ landed.at = landed.whose.offset
    /\ landed.at + Len(landed.bytes) <= Rooms[landed.base]

HostInv ==
  host # NoFill =>
    /\ Arrives(host, Tensors) /\ host.offset \in Nat
    /\ \E base \in Bases :
         /\ host.offset + Len(Image(host)) <= Rooms[base]
         /\ host.bytes = [i \in 1..Rooms[base] |->
              IF i - host.offset \in DOMAIN Image(host)
              THEN Image(host)[i - host.offset] ELSE Undefined]

IndInv == SinkInv /\ StagedInv /\ LandedInv /\ HostInv

(* The arrangement fill computes is the one the record means.              *)
ArrangesExactly ==
  \A t \in Tensors \cup Streamed, via \in Vias :
    Filled(t, via).ok => Filled(t, via).image = Wanted(t, via)

(* A host fill writes, at the offset asked for, the whole tensor in the    *)
(* arrangement's order with zero padding, and not a byte more: whatever    *)
(* chunks its records cut it into, and by whichever route they came.       *)
HostIsArranged ==
  host # NoFill =>
    LET wanted == Wanted(host.tensor, host.via)
    IN /\ host.offset + Len(wanted) <= Len(host.bytes)
       /\ \A i \in DOMAIN host.bytes :
            host.bytes[i] = IF i - host.offset \in DOMAIN wanted
                            THEN wanted[i - host.offset] ELSE Undefined

(* A transfer the device accepted carries exactly the tensor that was      *)
(* staged for it, to the destination and offset that tensor was staged     *)
(* for, inside that destination: also when an earlier transfer failed and  *)
(* was committed again after the sink was grown, retargeted or refilled.   *)
DeviceIsArranged ==
  landed # NoTransfer =>
    LET whose == landed.whose
    IN /\ landed.bytes = Wanted(whose.tensor, whose.via)
       /\ landed.base = whose.base /\ landed.at = whose.offset
       /\ landed.at + Len(landed.bytes) <= Rooms[landed.base]
=============================================================================
