------------------------------ MODULE Composed ------------------------------
(***************************************************************************)
(* What Ingest's plans and compositions promise when the algorithms its    *)
(* calls run are those of Planner, Compose and Adapter.                    *)
(***************************************************************************)
EXTENDS Ingest, Adapter

(* More of their algorithms, as parameters too.                            *)
CONSTANTS
  Listed(_, _),          \* inventory: Inventory
  CutBy(_, _, _, _),     \* Contract::runs_of: RunsOf
  Streamed(_, _, _, _),  \* StreamReader::read_exact_at: StreamRead
  Decided(_, _, _),      \* decide: Decide
  Roles(_, _)            \* the bytes of every role: RoleBytes

(* A file whose header lists its tensors is never refused for the regions  *)
(* it is cut into (plan_once), whatever the seams of its contract.  And    *)
(* unless it is kept as one blob, a tensor is a run of whole objects of    *)
(* its own: no object holds bytes of two tensors, or of a tensor and of a  *)
(* header or padding.                                                      *)
PlansCutAtTensors ==
  LET listed == Listed(call.view, call.stamp.length)
      Within(r, t) == /\ t.offset <= r.offset
                      /\ r.offset + r.length <= t.offset + t.length
      Meets(r, t) == /\ t.offset < r.offset + r.length
                     /\ r.offset < t.offset + t.length
  IN call.pc = "recheck" /\ listed.ok =>
       /\ call.plan.err \notin {"ObjectLimit", "InvalidCoverage"}
       /\ call.plan.planner # "blob" =>
            \A i \in DOMAIN call.plan.regions, j \in DOMAIN listed.tensors :
              LET r == call.plan.regions[i]
                  t == listed.tensors[j]
              IN Meets(r, t) => r.kind = "Tensor" /\ Within(r, t)

(***************************************************************************)
(* Properties of a composition.                                            *)
(***************************************************************************)
Was == asked.was.records
Now == body.records
Made(ops) == asked.err = "none" /\ asked.op \in ops

(* Streaming any range of a body, buffered or directly, into an aligned    *)
(* buffer or not, gives the bytes of the records, holes as zeros, and      *)
(* nothing past their end (StreamReader::read_exact_at).                   *)
StreamsBack ==
  LET cells == Cells(Now)
  IN \A offset \in 0..Len(cells), length \in 0..(MaxObject + 2),
        mode \in Modes :
       LET got == Streamed(Now, offset, length, mode)
       IN IF offset + length > Len(cells) THEN ~got.ok
          ELSE got.ok /\ got.bytes = Slice(cells, offset, length)

InventoryOf(records) == Listed(View(Cells(records)), Len(Cells(records)))
Contents(records, t) == Slice(Cells(records), t.offset, t.length)

(* rekey and subset: the container they make is read as the named tensors, *)
(* in their order, under the new names and with the bytes they had.        *)
RekeyKeepsTensors ==
  Made({"rekey", "subset"}) =>
    LET new == InventoryOf(Now)
        kept == SelectSeq(InventoryOf(Was).tensors,
                          LAMBDA t : t.name \in DOMAIN asked.names)
    IN /\ new.ok /\ new.format = asked.was.format
       /\ Len(new.tensors) = Len(kept)
       /\ \A i \in DOMAIN kept :
            /\ new.tensors[i].name = asked.names[kept[i].name]
            /\ new.tensors[i].dtype = kept[i].dtype
            /\ new.tensors[i].shape = kept[i].shape
            /\ Contents(Now, new.tensors[i]) = Contents(Was, kept[i])

Ingested(contract) ==
  LET plan == Planned(View(Cells(Now)), Len(Cells(Now)), contract)
  IN /\ plan.planner = body.format
     /\ Len(Now) = Len(plan.regions)
     /\ \A k \in DOMAIN Now :
          /\ Position(Now, k) = plan.regions[k].offset
          /\ RecordLength(Now[k]) = plan.regions[k].length

(* What the derivation made the file of.                                   *)
Makings ==
  Decided(asked.source, InventoryOf(Was), asked.target).tensors
Lengths(runs) == [i \in DOMAIN runs |-> runs[i].length]

(* Every fused tensor of the derived file is large enough to be cut, and   *)
(* its parts have the shares the target layout declares.                   *)
PartsFit ==
  \A i \in DOMAIN Makings : LET t == Makings[i] IN
    EntryFor(asked.target, t.name)[1].fusion.groups > 0 =>
      LET cut == CutBy(asked.target, t.name, t.shape, t.length)
      IN cut.ok /\ Lengths(cut.runs) = Lengths(t.runs)

(* Some tensor is made of several runs that are all permuted.              *)
FusesPermuted ==
  \E i \in DOMAIN Makings : /\ Len(Makings[i].runs) > 1
                            /\ Makings[i].transform.kind # "Identity"

(* A composition is indistinguishable from an ingested file: adopting a    *)
(* contract, deriving a layout or trimming an unstamped file cuts it where *)
(* planning its bytes would (compose.rs), as long as the parts             *)
(* of a derived layout fit and are not permuted.                           *)
ComposedIsIngested ==
  /\ Made({"adopt"}) => Cells(Now) = Cells(Was) /\ Ingested(asked.target)
  /\ Made({"derive"}) /\ PartsFit /\ ~FusesPermuted =>
       Ingested(asked.target)
  /\ Made({"rekey", "subset"}) /\ asked.was.stamp = "none" =>
       Ingested(NoContract)

SameRoles == Roles(Now, asked.target) = Roles(Was, asked.source)

(* derive serves the target layout: under the target contract the file it  *)
(* makes gives every role the canonical bytes the source gave it, as long  *)
(* as its parts fit and it fuses nothing that is permuted.                 *)
DerivedServesTarget ==
  Made({"derive"}) /\ PartsFit /\ ~FusesPermuted => SameRoles

(* The same of every derivation: the transform between two layouts is the  *)
(* target's after the inverse of the source's (adapter.rs, Transform).     *)
PermutesUndone == Made({"derive"}) /\ PartsFit => SameRoles
=============================================================================
