------------------------------ MODULE Arrange -------------------------------
(***************************************************************************)
(* One arranged tensor as a function of where its bytes are: the fill of   *)
(* layout_fill.rs and the segment builders of tensorfs-py.                 *)
(*                                                                         *)
(* The tensor [record, shape, element, container, offset] is a range of a  *)
(* container, which is a sequence of records [hole, length, held, lead]:   *)
(* the object of a data record holds held bytes, and when the record is    *)
(* read from a file the range starts lead bytes in.  A byte of the         *)
(* container has its own position (from 1) as its value, a byte of a hole  *)
(* is 0.  Statistics a bench reads (bytes_to_device) are left out.         *)
(***************************************************************************)
EXTENDS Morphism

(***************************************************************************)
(* The sources.                                                            *)
(***************************************************************************)
Begins(records, k) == SumOver(1..(k - 1), LAMBDA j : records[j].length)

(* The bytes of a record from byte `from` of the container to byte `to`.   *)
Slice(record, from, to) ==
  [i \in 1..(to - from) |-> IF record.hole THEN 0 ELSE from + i]

NoSegments == [ok |-> FALSE]

(* source_segments: the pieces of the records a tensor's range crosses.    *)
SourceSegments(records, offset, length) ==
  LET finish == offset + length
      Ends(k) == Begins(records, k + 1)
      From(k) == Max({offset, Begins(records, k)})
      To(k) == Min({finish, Ends(k)})
      Crossed(k) == Ends(k) > offset /\ Begins(records, k) < finish
      ks == SetToSortSeq({k \in DOMAIN records : Crossed(k)}, <)
      Whole(k) == \/ records[k].hole
                  \/ To(k) - Begins(records, k) <= records[k].held
  IN IF /\ \A i \in DOMAIN ks : Whole(ks[i])
        /\ SumOver(DOMAIN ks, LAMBDA i : To(ks[i]) - From(ks[i])) = length
     THEN [ok |-> TRUE,
           chunks |-> [i \in DOMAIN ks |->
                         Slice(records[ks[i]], From(ks[i]), To(ks[i]))]]
     ELSE NoSegments

(* Every file read from its first byte.                                    *)
FileSegments_NoOffset(records) ==
  [ok |-> TRUE,
   chunks |-> [k \in DOMAIN records |->
     Slice(records[k], Begins(records, k) - records[k].lead,
           Begins(records, k + 1) - records[k].lead)]]

(* file_segments: the caller names files and ranges, and holes.            *)
FileSegments(records) ==
  LET ks == SetToSortSeq({k \in DOMAIN records : records[k].length # 0}, <)
      Whole(k) == IF records[k].hole THEN records[k].lead = 0
                  ELSE records[k].length <= records[k].held
  IN IF \A i \in DOMAIN ks : Whole(ks[i])
     THEN [ok |-> TRUE,
           chunks |-> [i \in DOMAIN ks |->
             Slice(records[ks[i]], Begins(records, ks[i]),
                   Begins(records, ks[i] + 1))]]
     ELSE NoSegments

(* ChunkedSource: chunk starts plus the total, and read_at, which looks    *)
(* the offset up by binary search and crosses chunks as needed.  A search  *)
(* that meets equal starts (an empty chunk) may answer with any of them.   *)
Starts(chunks) ==
  [k \in 1..(Len(chunks) + 1) |-> SumOver(1..(k - 1), LAMBDA j :
                                          Len(chunks[j]))]

Found(starts, offset) ==
  IF offset \in Range(starts) THEN {k \in DOMAIN starts : starts[k] = offset}
  ELSE {Max({k \in DOMAIN starts : starts[k] < offset})}

ReadAt(chunks, offset, length) ==
  LET starts == Starts(chunks)
      index == CHOOSE k \in Found(starts, offset) : TRUE
      Fed == SubSeq(chunks, index, Len(chunks))
      rest == FoldLeft(\o, <<>>, Fed)
      within == offset - starts[index]
  IN SubSeq(rest, within + 1, within + length)

(***************************************************************************)
(* fill: the arrangement of one tensor.                                    *)
(***************************************************************************)
Total(chunks) == SumOver(DOMAIN chunks, LAMBDA k : Len(chunks[k]))

(* What fill writes into the staging it is given: apply on one chunk, the  *)
(* chunked reader run by run otherwise.  The runs are all of one length.   *)
Arranged(plan, chunks, e) ==
  LET runs == Runs(plan)
      width == runs[1].length * e
      Piece(r) == IF r.from = Padding THEN [i \in 1..width |-> 0]
                  ELSE ReadAt(chunks, r.from * e, width)
      pieces == <<>> \o [k \in DOMAIN runs |-> Piece(runs[k])]
  IN IF Len(chunks) = 1 THEN Apply(plan, chunks[1], e)
     ELSE <<>> \o [i \in 1..(plan.dest * e) |->
                     pieces[1 + (i - 1) \div width][1 + ((i - 1) % width)]]

FillStats(plan, e) ==
  LET runs == Runs(plan)
      padding == {k \in DOMAIN runs : runs[k].from = Padding}
  IN [source |-> plan.source * e, destination |-> plan.dest * e,
      padding |-> Cardinality(padding) * runs[1].length * e,
      runs |-> Len(runs)]

(* fill's own refusals, before it asks the sink for staging.               *)
Fills(t, chunks) ==
  /\ ~t.record.candidate
  /\ t.element # 0
  /\ Plan(t.record, t.shape).ok
  /\ Total(chunks) = Plan(t.record, t.shape).source * t.element

Needs(t) == Plan(t.record, t.shape).dest * t.element

(* fill_tensor: the tensor's bytes must divide over its shape; fill_slices *)
(* asks the same of the segments it is given.                              *)
Elements(t) == ProductOver(DOMAIN t.shape, LAMBDA a : t.shape[a])
Bytes(t) == Elements(t) * t.element

(* The segments each client method builds for a tensor.                    *)
Segments(t, via) ==
  CASE via = "reader" -> SourceSegments(t.container, t.offset, Bytes(t))
    [] via = "files" -> FileSegments(t.container)
    [] via = "address" ->
         [ok |-> TRUE, chunks |-> <<[i \in 1..Bytes(t) |-> t.offset + i]>>]

(* What the methods of the clients and fill itself refuse before any       *)
(* staging is asked for.                                                   *)
Accepted(t, via) ==
  /\ Segments(t, via).ok
  /\ Elements(t) # 0
  /\ Total(Segments(t, via).chunks) = Bytes(t)
  /\ Fills(t, Segments(t, via).chunks)

NotFilled == [ok |-> FALSE]

(* What a call to fill has for its sink, or its refusal.                   *)
Filling(t, via) ==
  LET plan == Plan(t.record, t.shape)
  IN IF Accepted(t, via)
     THEN [ok |-> TRUE, stats |-> FillStats(plan, t.element),
           image |-> Arranged(plan, Segments(t, via).chunks, t.element)]
     ELSE NotFilled

(***************************************************************************)
(* The reference: the arrangement read element by element, with no runs,   *)
(* strides or odometer.                                                    *)
(***************************************************************************)

(* The source element stored at element d of the destination: the storage  *)
(* coordinates of d, regrouped by axis in declaration order.               *)
Meaning(record, shape, d) ==
  LET axes == Axes(record, shape)
      extents == Extents(record, shape)
      n == Len(extents)
      perm == IF IsIdentity(record) THEN [i \in 1..n |-> i] ELSE record.perm
      After(p) == ProductOver((p + 1)..n, LAMBDA q : extents[perm[q]])
      Place(i) == CHOOSE p \in 1..n : perm[p] = i
      Count(i) == (d \div After(Place(i))) % extents[i]
      Coordinate(a) ==
        FoldLeft(LAMBDA v, i : v * extents[i] + Count(i), 0,
                 SetToSortSeq({i \in 1..n : axes[i] = a}, <))
  IN IF \E a \in DOMAIN shape : Coordinate(a) >= shape[a] THEN Padding
     ELSE FoldLeft(LAMBDA v, a : v * shape[a] + Coordinate(a), 0,
                   [a \in DOMAIN shape |-> a])

(* Byte i (from 0) of a tensor, as its container or its address holds it.  *)
TensorByte(t, via, i) ==
  LET at == i + IF via = "files" THEN 0 ELSE t.offset
      Holds(k) == at \in Begins(t.container, k)
                           ..(Begins(t.container, k + 1) - 1)
  IN IF via # "address" /\ \E k \in DOMAIN t.container :
          Holds(k) /\ t.container[k].hole
     THEN 0 ELSE at + 1

Arrangement(t, via) ==
  [i \in 1..Needs(t) |->
     LET element == Meaning(t.record, t.shape, (i - 1) \div t.element)
     IN IF element = Padding THEN 0
        ELSE TensorByte(t, via,
                        element * t.element + ((i - 1) % t.element))]
=============================================================================
