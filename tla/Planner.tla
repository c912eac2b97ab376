------------------------------ MODULE Planner ------------------------------
(***************************************************************************)
(* Where a file is cut into objects: planner/mod.rs with its safetensors   *)
(* and GGUF planners, and the seams a contract declares (contract.rs).     *)
(*                                                                         *)
(* A role is the sequence of its pieces ("qkv" followed by "#q", "@1"),    *)
(* and a name pattern with its holes is the sequence of its instances, in  *)
(* the order of the captured values.                                       *)
(* Sizes the code reads with checked arithmetic stay far from 2^64 here,   *)
(* and the spelling of keys, dtypes and metadata values is left out.       *)
(***************************************************************************)
EXTENDS Container, SequencesExt, FiniteSetsExt

CONSTANTS
  MaxObject,    \* MAX_OBJECT_SIZE, in cells
  MaxObjects,   \* MAX_OBJECT_COUNT
  MinSeamPart,  \* MIN_SEAM_PART_BYTES, in cells
  MinAlignment  \* the least GGUF alignment

CeilDiv(a, b) == (a + b - 1) \div b
AlignUp(value, alignment) == CeilDiv(value, alignment) * alignment
Product(shape) == FoldLeft(LAMBDA a, b : a * b, 1, shape)
Total(lengths) == FoldLeft(LAMBDA a, b : a + b, 0, lengths)
Upto(n) == [i \in 1..n |-> i]

(***************************************************************************)
(* A contract's runs and seams.                                            *)
(***************************************************************************)
NoFusion == [groups |-> 0, parts |-> <<>>]

(* The role suffix of one part of one group.                               *)
Suffix(fusion, group, part) ==
  (IF part.role = "" THEN <<>> ELSE <<part.role>>)
    \o (IF fusion.groups > 1 THEN <<"@" \o ToString(group)>> ELSE <<>>)

(* The runs' roles and shares in file order: part by part, group by group. *)
Cycle(fusion) ==
  FlattenSeq([g \in 1..fusion.groups |->
    [p \in DOMAIN fusion.parts |->
       [role |-> Suffix(fusion, g, fusion.parts[p]),
        share |-> fusion.parts[p].share]]])

(* Fusion::runs.                                                           *)
Runs(fusion, shape, length) ==
  LET units == Total([i \in DOMAIN fusion.parts |-> fusion.parts[i].share])
                 * fusion.groups
      rows == shape[1]
      cycle == Cycle(fusion)
  IN IF \/ shape = <<>> \/ units = 0
        \/ rows = 0 \/ rows % units # 0 \/ length % rows # 0
     THEN None
     ELSE [ok |-> TRUE,
           runs |-> [i \in DOMAIN cycle |->
             [role |-> cycle[i].role,
              length |-> (length \div units) * cycle[i].share]]]

(* entry_for: the first declaration with an instance of this name.         *)
EntryFor(contract, name) ==
  SelectSeq(contract.tensors,
            LAMBDA e : \E i \in DOMAIN e.instances :
                         e.instances[i].name = name)

(* runs_of: no cut at all when one run is below the floor.                 *)
RunsOf(contract, name, shape, length) ==
  LET entry == EntryFor(contract, name)
      cut == IF entry = <<>> \/ entry[1].fusion.groups = 0 THEN None
             ELSE Runs(entry[1].fusion, shape, length)
  IN IF cut.ok /\ \A i \in DOMAIN cut.runs : cut.runs[i].length >= MinSeamPart
     THEN cut
     ELSE None

SeamOffsets(contract, name, shape, length) ==
  LET cut == RunsOf(contract, name, shape, length)
  IN IF ~cut.ok THEN <<>>
     ELSE [i \in 1..(Len(cut.runs) - 1) |->
             Total([j \in 1..i |-> cut.runs[j].length])]

(***************************************************************************)
(* Regions.                                                                *)
(***************************************************************************)
Region(offset, length, kind) ==
  [offset |-> offset, length |-> length, kind |-> kind]
NoRegions == [err |-> "none", regions |-> <<>>]
Failed(acc, err) == [acc EXCEPT !.err = err]

(* The grid of a part starts at the part's own start.                      *)
Grid(offset, length, kind) ==
  [i \in 1..CeilDiv(length, MaxObject) |->
     Region(offset + (i - 1) * MaxObject,
            Min({MaxObject, length - (i - 1) * MaxObject}), kind)]

AppendSplitRegion(acc, offset, length, kind) ==
  IF acc.err # "none" THEN acc
  ELSE IF Len(acc.regions) + CeilDiv(length, MaxObject) > MaxObjects
  THEN Failed(acc, "ObjectLimit")
  ELSE [acc EXCEPT !.regions = @ \o Grid(offset, length, kind)]

(* append_tensor_regions: cut at the seams, then on the grid of each part. *)
AppendTensorRegions(acc, offset, length, seams, kind) ==
  LET cuts == <<0>> \o seams \o <<length>>
      Misplaced(i) == /\ i <= Len(seams)
                      /\ seams[i] <= cuts[i] \/ seams[i] >= length
      Piece(a, i) == IF a.err # "none" THEN a
                     ELSE IF Misplaced(i) THEN Failed(a, "InvalidCoverage")
                     ELSE AppendSplitRegion(a, offset + cuts[i],
                                            cuts[i + 1] - cuts[i], kind)
  IN FoldLeft(Piece, acc, Upto(Len(seams) + 1))

Plan(planner, stamp, size, regions) ==
  [err |-> "none", planner |-> planner, stamp |-> stamp, size |-> size,
   regions |-> regions]
BlobPlan(size) ==
  Plan("blob", "none", size,
       IF size = 0 THEN <<>> ELSE <<Region(0, size, "Blob")>>)

(* Plan::validate.                                                         *)
Validate(plan) ==
  LET rs == plan.regions
      Ends(i) == IF i = 0 THEN 0 ELSE rs[i].offset + rs[i].length
      blob == plan.planner = "blob"
  IN IF plan.err # "none" THEN plan
     ELSE IF Len(rs) > MaxObjects THEN Refused("ObjectLimit")
     ELSE IF \/ blob /\ Len(rs) > 1
             \/ \E i \in DOMAIN rs : \/ rs[i].offset # Ends(i - 1)
                                     \/ rs[i].length = 0
                                     \/ ~blob /\ rs[i].length > MaxObject
             \/ Ends(Len(rs)) # plan.size
     THEN Refused("InvalidCoverage")
     ELSE plan

(***************************************************************************)
(* safetensors.rs.  The dtypes are named by their size in half cells.      *)
(***************************************************************************)
Halves == [F4 |-> 1, U8 |-> 2, F16 |-> 4]

(* tensor_byte_size, or -1.                                                *)
TensorByteSize(t) ==
  IF t.dtype \notin DOMAIN Halves THEN -1
  ELSE LET halves == Product(t.shape) * Halves[t.dtype]
       IN IF halves % 2 = 0 THEN halves \div 2 ELSE -1

(* Names a header cannot declare: a tensor under the safetensors metadata  *)
(* key or under no name, and a GGUF name longer than MAX_TENSOR_NAME_LEN   *)
(* or with a NUL in it, of which "overlong" is one.                        *)
Unusable == [safetensors |-> {"", "__metadata__"}, gguf |-> {"overlong"}]

Distinct(tensors) == IsInjective([i \in DOMAIN tensors |-> tensors[i].name])

(* read_layout: view holds the two header cells that were read.            *)
SafetensorsLayout(view, size) ==
  IF \/ "headerSize" \notin DOMAIN view.prefix
     \/ "tensors" \notin DOMAIN view.header
  THEN None
  ELSE
    LET headerEnd == 1 + view.prefix.headerSize
        sorted == SortSeq(view.header.tensors,
                    LAMBDA a, b : \/ a.start < b.start
                                  \/ a.start = b.start /\ a.end < b.end)
        Cursor(i) == IF i = 0 THEN 0 ELSE sorted[i].end
    IN IF /\ headerEnd <= size
          /\ Distinct(sorted)
          /\ \A i \in DOMAIN sorted :
               /\ sorted[i].name \notin Unusable.safetensors
               /\ sorted[i].end >= sorted[i].start
               /\ TensorByteSize(sorted[i]) = sorted[i].end - sorted[i].start
               /\ sorted[i].start = Cursor(i - 1)
          /\ Cursor(Len(sorted)) = size - headerEnd
       THEN [ok |-> TRUE, headerEnd |-> headerEnd, tensors |-> sorted]
       ELSE None

(* try_plan: a file with more objects than a plan may have is a blob.      *)
SafetensorsPlan(view, size, contract) ==
  LET layout == SafetensorsLayout(view, size)
      Add(acc, t) ==
        IF t.end = t.start THEN acc
        ELSE AppendTensorRegions(acc, layout.headerEnd + t.start,
               t.end - t.start,
               SeamOffsets(contract, t.name, t.shape, t.end - t.start),
               "Tensor")
      acc == FoldLeft(Add,
               AppendSplitRegion(NoRegions, 0, layout.headerEnd, "Header"),
               layout.tensors)
  IN IF ~layout.ok \/ acc.err = "ObjectLimit" THEN None
     ELSE [ok |-> TRUE,
           plan |-> IF acc.err = "none"
                    THEN Plan("safetensors", contract.stamp, size,
                              acc.regions)
                    ELSE Refused(acc.err)]

(***************************************************************************)
(* gguf.rs.  The dtypes are the blocks [elements, cells] of ggml_layout.   *)
(***************************************************************************)
Block == [U8 |-> [elements |-> 1, cells |-> 1],
          F16 |-> [elements |-> 1, cells |-> 2],
          Q4 |-> [elements |-> 2, cells |-> 1]]

LogicalShape(t) == Reverse(t.dims)

(* tensor_length, or -1.                                                   *)
TensorLength(t) ==
  LET inner == IF t.dims = <<>> THEN 1 ELSE t.dims[1]
      block == Block[t.dtype]
  IN IF t.dtype \notin DOMAIN Block \/ inner % block.elements # 0 THEN -1
     ELSE (Product(t.dims) \div block.elements) * block.cells

(* parse: every tensor at the aligned end of the one before it, and the    *)
(* file ending with the last tensor's padding.                             *)
GgufLayout(view, size) ==
  IF \/ "version" \notin DOMAIN view.prefix
     \/ "alignment" \notin DOMAIN view.header
     \/ view.prefix.count > 0 /\ "tensors" \notin DOMAIN view.directory
  THEN None
  ELSE
    LET h == view.header
        count == view.prefix.count
        ts == IF count = 0 THEN <<>> ELSE view.directory.tensors
        directoryStart == 2 + h.metadata
        directoryEnd == directoryStart + count
        Padded(i) == AlignUp(TensorLength(ts[i]), h.alignment)
        Expected(i) == Total([j \in 1..(i - 1) |-> Padded(j)])
        dataStart == IF ts = <<>> THEN directoryEnd
                     ELSE AlignUp(directoryEnd, h.alignment)
    IN IF /\ view.prefix.version \in {2, 3}
          /\ h.alignment >= MinAlignment
          /\ h.alignment \in {2^k : k \in 0..6}
          /\ Len(ts) = count
          /\ Distinct(ts)
          /\ \A i \in DOMAIN ts : /\ ts[i].name \notin Unusable.gguf
                                  /\ Len(ts[i].dims) <= 4
                                  /\ TensorLength(ts[i]) >= 0
                                  /\ ts[i].offset = Expected(i)
          /\ dataStart + Expected(Len(ts) + 1) = size
       THEN [ok |-> TRUE, alignment |-> h.alignment,
             directoryStart |-> directoryStart,
             directoryEnd |-> directoryEnd, dataStart |-> dataStart,
             tensors |-> ts]
       ELSE None

(* Padding planned with the tensor it follows.                             *)
GgufPlan_Padded(view, size, contract) ==
  LET layout == GgufLayout(view, size)
      Add(acc, t) ==
        AppendTensorRegions(acc, layout.dataStart + t.offset,
          AlignUp(TensorLength(t), layout.alignment),
          SeamOffsets(contract, t.name, LogicalShape(t), TensorLength(t)),
          "Tensor")
      head == AppendSplitRegion(NoRegions, 0, layout.dataStart, "Header")
      acc == FoldLeft(Add, head, layout.tensors)
  IN IF ~layout.ok \/ acc.err # "none" THEN None
     ELSE [ok |-> TRUE,
           plan |-> Plan("gguf", contract.stamp, size, acc.regions)]

(* plan_layout: metadata, directory and the padding before the data apart; *)
(* every tensor by its unpadded extent, its padding a header region.       *)
GgufPlan(view, size, contract) ==
  LET layout == GgufLayout(view, size)
      Domain(acc, span) ==
        AppendSplitRegion(acc, span[1], span[2] - span[1], "Header")
      Add(acc, t) ==
        LET start == layout.dataStart + t.offset
            length == TensorLength(t)
            seams == SeamOffsets(contract, t.name, LogicalShape(t), length)
        IN AppendSplitRegion(
             AppendTensorRegions(acc, start, length, seams, "Tensor"),
             start + length, AlignUp(length, layout.alignment) - length,
             "Header")
      heads == << <<0, layout.directoryStart>>,
                  <<layout.directoryStart, layout.directoryEnd>>,
                  <<layout.directoryEnd, layout.dataStart>> >>
      acc == FoldLeft(Add, FoldLeft(Domain, NoRegions, heads), layout.tensors)
  IN IF ~layout.ok \/ acc.err # "none" THEN None
     ELSE [ok |-> TRUE,
           plan |-> Plan("gguf", contract.stamp, size, acc.regions)]

(***************************************************************************)
(* plan_once, inventory.                                                   *)
(***************************************************************************)
PlanOnce(view, size, contract) ==
  LET gguf == GgufPlan(view, size, contract)
      safetensors == SafetensorsPlan(view, size, contract)
  IN Validate(IF size < 2 THEN BlobPlan(size)
              ELSE IF gguf.ok THEN gguf.plan
              ELSE IF safetensors.ok THEN safetensors.plan
              ELSE BlobPlan(size))

Item(name, dtype, shape, offset, length) ==
  [name |-> name, dtype |-> dtype, shape |-> shape, offset |-> offset,
   length |-> length]

Inventory(view, size) ==
  LET gguf == GgufLayout(view, size)
      safetensors == SafetensorsLayout(view, size)
  IN IF gguf.ok
     THEN [ok |-> TRUE, format |-> "gguf",
           tensors |-> [i \in DOMAIN gguf.tensors |->
             LET t == gguf.tensors[i]
             IN Item(t.name, t.dtype, LogicalShape(t),
                     gguf.dataStart + t.offset, TensorLength(t))]]
     ELSE IF safetensors.ok
     THEN [ok |-> TRUE, format |-> "safetensors",
           tensors |-> [i \in DOMAIN safetensors.tensors |->
             LET t == safetensors.tensors[i]
             IN Item(t.name, t.dtype, t.shape,
                     safetensors.headerEnd + t.start, t.end - t.start)]]
     ELSE None
=============================================================================
