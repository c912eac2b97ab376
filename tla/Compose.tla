------------------------------ MODULE Compose ------------------------------
(***************************************************************************)
(* What is made of committed records without the file they came from:      *)
(* reading them (workspace_source.rs, stream.rs), recomposing a container  *)
(* out of its own objects (compose.rs) and deriving one in another layout  *)
(* (adapter.rs).                                                           *)
(* The objects a body names are resident throughout: RootsGc is about that.*)
(***************************************************************************)
EXTENDS Planner

CONSTANTS
  DirectAlign,  \* DIRECT_ALIGNMENT, in cells
  BounceCells   \* BOUNCE_BYTES, in cells: a multiple of DirectAlign

Position(records, k) == Total([j \in 1..(k - 1) |-> RecordLength(records[j])])
Cells(records) == FlattenSeq([k \in DOMAIN records |-> records[k].bytes])

(***************************************************************************)
(* Reading.                                                                *)
(***************************************************************************)
(* A range that starts inside a block is read from the block's start.      *)
DirectRead_NoSkip(object, within, length, aligned) ==
  LET UpTo(from, n) == Slice(object, from, Min({n, Len(object) - from}))
      Window(acc, step) ==
        LET cursor == within + Len(acc)
            skip == cursor % DirectAlign
            want == Min({length - Len(acc), BounceCells - skip})
            got == UpTo(cursor - skip, AlignUp(skip + want, DirectAlign))
        IN acc \o Slice(got, 0, want)
  IN FoldLeft(Window, <<>>, Upto(length))

(* direct_read of a range of one object.  An aligned destination takes     *)
(* whole blocks and the tail through one block; any other goes through the *)
(* bounce buffer, a window at a time.                                      *)
DirectRead(object, within, length, aligned) ==
  LET UpTo(from, n) == Slice(object, from, Min({n, Len(object) - from}))
      body == length - (length % DirectAlign)
      tail == UpTo(within + body, DirectAlign)
      Window(acc, step) ==
        LET cursor == within + Len(acc)
            skip == cursor % DirectAlign
            want == Min({length - Len(acc), BounceCells - skip})
            got == UpTo(cursor - skip, AlignUp(skip + want, DirectAlign))
        IN acc \o Slice(got, skip, want)
  IN IF aligned /\ within % DirectAlign = 0
     THEN UpTo(within, body) \o Slice(tail, 0, length - body)
     ELSE FoldLeft(Window, <<>>, Upto(length))

(* How an object is read: through the page cache, or directly into a       *)
(* destination that is aligned at its first byte or is not.                *)
Modes == {"buffered", "aligned", "unaligned"}

ReadObject(object, within, length, mode, at) ==
  IF mode = "buffered" THEN Slice(object, within, length)
  ELSE DirectRead(object, within, length,
                  mode = "aligned" /\ at % DirectAlign = 0)

(* read_exact_at of StreamReader: the part of each record in the range, in *)
(* its place in the destination.                                           *)
StreamRead(records, offset, length, mode) ==
  LET finish == offset + length
      Part(acc, record) ==
        LET start == acc.at
            end == start + RecordLength(record)
            from == Max({offset, start})
            to == Min({finish, end})
            got == IF end <= offset \/ start >= finish THEN <<>>
                   ELSE IF record.hole THEN Hole(to - from).bytes
                   ELSE ReadObject(record.bytes, from - start, to - from,
                                   mode, from - offset)
        IN [at |-> end, bytes |-> acc.bytes \o got]
      all == FoldLeft(Part, [at |-> 0, bytes |-> <<>>], records)
  IN IF finish > all.at THEN None ELSE [ok |-> TRUE, bytes |-> all.bytes]

(* RecordsSource, the planner's view of committed records.                 *)
RecordsRead(records, offset, length) ==
  StreamRead(records, offset, length, "buffered").bytes
RecordsView(records) == View(Cells(records))
RecordsInventory(records) ==
  Inventory(RecordsView(records), Len(Cells(records)))
PlanRecords(records, contract) ==
  PlanOnce(RecordsView(records), Len(Cells(records)), contract)

(***************************************************************************)
(* compose.rs: rekey, subset and adopt.                                    *)
(***************************************************************************)
NotComposed(err) == [err |-> err, records |-> <<>>]

(* Pieces on the grid.                                                     *)
Admit(cells) == Admitted(cells, Grid(0, Len(cells), "Header"))

(* inherit: the records that make up exactly this range.                   *)
Inherit(records, start, length) ==
  LET end == start + length
      ks == SelectSeq(Upto(Len(records)), LAMBDA k :
              /\ Position(records, k + 1) > start
              /\ Position(records, k) < end)
      taken == [i \in DOMAIN ks |-> records[ks[i]]]
  IN IF /\ \A i \in DOMAIN ks : /\ Position(records, ks[i]) >= start
                                /\ Position(records, ks[i] + 1) <= end
        /\ Len(Cells(taken)) = length
     THEN [ok |-> TRUE, records |-> taken]
     ELSE None

(* The first inheritance that is refused ends the composition.             *)
InheritAll(records, ranges) ==
  LET got == [i \in DOMAIN ranges |->
                Inherit(records, ranges[i].offset, ranges[i].length)]
  IN IF \A i \in DOMAIN got : got[i].ok
     THEN [err |-> "none",
           records |-> FlattenSeq([i \in DOMAIN got |-> got[i].records])]
     ELSE NotComposed("NotObjectAligned")

(* select: the tensors that survive and their names.                       *)
Select(tensors, names, unnamed) ==
  LET olds == {tensors[i].name : i \in DOMAIN tensors}
      kept == SelectSeq(tensors, LAMBDA t : t.name \in DOMAIN names)
  IN IF unnamed = "refuse" /\ ~(olds \subseteq DOMAIN names)
     THEN NotComposed("UnnamedTensor")
     ELSE IF ~IsInjective([i \in DOMAIN kept |-> names[kept[i].name]])
     THEN NotComposed("DuplicateName")
     ELSE IF ~(DOMAIN names \subseteq olds) THEN NotComposed("UnknownTensor")
     ELSE [err |-> "none",
           tensors |-> [i \in DOMAIN kept |->
                          [kept[i] EXCEPT !.name = names[@]]],
           kept |-> kept]

(* A new name the format cannot declare is refused.                        *)
Usable(selected, format) ==
  IF /\ selected.err = "none"
     /\ \E i \in DOMAIN selected.tensors :
          selected.tensors[i].name \in Unusable[format]
  THEN NotComposed("UnusableName") ELSE selected

(* safetensors_header: as many cells as it takes to name the tensors.      *)
SafetensorsHeader(tensors) ==
  LET size == Max({1, Len(tensors)})
      Start(i) == Total([j \in 1..(i - 1) |-> tensors[j].length])
      entry == [i \in DOMAIN tensors |->
                  [name |-> tensors[i].name, dtype |-> tensors[i].dtype,
                   shape |-> tensors[i].shape, start |-> Start(i),
                   end |-> Start(i + 1)]]
  IN <<[headerSize |-> size], [tensors |-> entry]>>
       \o [i \in 1..(size - 1) |-> Byte(0)]

ComposeSafetensors(records, names, unnamed) ==
  LET found == RecordsInventory(records)
      selected == Usable(Select(found.tensors, names, unnamed), "safetensors")
      data == InheritAll(records, selected.kept)
  IN IF ~found.ok \/ found.format # "safetensors"
     THEN NotComposed("Unreadable")
     ELSE IF selected.err # "none" \/ data.err # "none"
     THEN NotComposed(IF selected.err # "none" THEN selected.err
                      ELSE data.err)
     ELSE [err |-> "none",
           records |-> Admit(SafetensorsHeader(selected.tensors))
                         \o data.records]

(* A directory that keeps the offsets the tensors had.                     *)
GgufDirectory_Offsets(tensors, alignment) ==
  IF tensors = <<>> THEN <<>>
  ELSE <<[tensors |-> tensors]>>
         \o [i \in 1..(Len(tensors) - 1) |-> Byte(0)]

(* The directory: offsets run on from zero, padded lengths apart.          *)
GgufDirectory(tensors, alignment) ==
  LET Start(i) == Total([j \in 1..(i - 1) |->
                           AlignUp(TensorLength(tensors[j]), alignment)])
  IN IF tensors = <<>> THEN <<>>
     ELSE <<[tensors |-> [i \in DOMAIN tensors |->
                            [tensors[i] EXCEPT !.offset = Start(i)]]]>>
            \o [i \in 1..(Len(tensors) - 1) |-> Byte(0)]

(* compose_gguf: the metadata is inherited unless the tensor count in it   *)
(* changes; a tensor is inherited with its padding.                        *)
ComposeGguf(records, names, unnamed) ==
  LET layout == GgufLayout(RecordsView(records), Len(Cells(records)))
      selected == Usable(Select(layout.tensors, names, unnamed), "gguf")
      kept == selected.kept
      metadata == RecordsRead(records, 0, layout.directoryStart)
      head == IF Len(kept) = Len(layout.tensors)
              THEN InheritAll(records, <<Region(0, layout.directoryStart,
                                                "Header")>>)
              ELSE [err |-> "none",
                    records |-> Admit([metadata EXCEPT
                                         ![1].count = Len(kept)])]
      directory == GgufDirectory(selected.tensors, layout.alignment)
      directoryEnd == layout.directoryStart + Len(directory)
      padding == IF kept = <<>> THEN 0
                 ELSE AlignUp(directoryEnd, layout.alignment) - directoryEnd
      data == InheritAll(records, [i \in DOMAIN kept |->
                Region(layout.dataStart + kept[i].offset,
                       AlignUp(TensorLength(kept[i]), layout.alignment),
                       "Tensor")])
      errs == SelectSeq(<<selected.err, head.err, data.err>>,
                        LAMBDA e : e # "none")
  IN IF ~layout.ok THEN NotComposed("Unreadable")
     ELSE IF selected.err # "none" THEN NotComposed(selected.err)
     ELSE IF errs # <<>> THEN NotComposed(errs[1])
     ELSE [err |-> "none",
           records |-> head.records \o Admit(directory)
                         \o Admit([i \in 1..padding |-> Byte(0)])
                         \o data.records]

(* rekey ("refuse" the unnamed) and subset ("drop" them).                  *)
Recompose(body, names, unnamed) ==
  LET gguf == ComposeGguf(body.records, names, unnamed)
      safetensors == ComposeSafetensors(body.records, names, unnamed)
  IN IF body.format = "blob" THEN NotComposed("NotATensorContainer")
     ELSE IF body.format = "gguf" THEN gguf ELSE safetensors

(* Fresh objects handed out by position, not by order of need.             *)
Adopted_ByPosition(records, regions) ==
  LET pending == SelectSeq(regions, LAMBDA r :
                   \A k \in DOMAIN records :
                     \/ Position(records, k) # r.offset
                     \/ RecordLength(records[k]) # r.length)
      fresh == Admitted(Cells(records), pending)
  IN [i \in DOMAIN regions |->
        IF i <= Len(fresh) THEN fresh[i]
        ELSE Admitted(Cells(records), regions)[i]]

(* A region a data record already covers is inherited, the others are      *)
(* read and admitted.                                                      *)
Adopted(records, regions) ==
  LET Covers(k, r) == /\ ~records[k].hole
                      /\ Position(records, k) = r.offset
                      /\ RecordLength(records[k]) = r.length
      Covered(r) == \E k \in DOMAIN records : Covers(k, r)
      pending == SelectSeq(regions, LAMBDA r : ~Covered(r))
      fresh == [i \in DOMAIN pending |->
                  Data(RecordsRead(records, pending[i].offset,
                                   pending[i].length))]
      Before(i) == Len(SelectSeq(SubSeq(regions, 1, i),
                                 LAMBDA r : ~Covered(r)))
  IN [i \in DOMAIN regions |->
        IF Covered(regions[i])
        THEN records[CHOOSE k \in DOMAIN records : Covers(k, regions[i])]
        ELSE fresh[Before(i)]]

(* adopt: re-cut a committed container under a contract, or under none.    *)
Adopt(body, contract) ==
  LET plan == PlanRecords(body.records, contract)
  IN IF body.format = "blob" THEN NotComposed("NotATensorContainer")
     ELSE IF plan.err # "none" THEN NotComposed(plan.err)
     ELSE IF plan.planner # body.format THEN NotComposed("Unreadable")
     ELSE [err |-> "none", records |-> Adopted(body.records, plan.regions)]
=============================================================================
