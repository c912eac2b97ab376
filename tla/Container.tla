----------------------------- MODULE Container -----------------------------
(***************************************************************************)
(* A file as its readers see it, and the body it is stored as.             *)
(*                                                                         *)
(* A file is a sequence of cells, each a record: data is [byte |-> n], and *)
(* some cells of a container hold what its header says, so a parse is a    *)
(* look at them.  Cell 1 is the safetensors length prefix [headerSize] or  *)
(* the fixed part of a GGUF [version, count].  Cell 2 is the safetensors   *)
(* header [tensors] or the GGUF metadata [alignment, metadata], and then   *)
(* the first cell of the GGUF directory, which has a cell for each tensor, *)
(* is [tensors].  The other cells of a header are opaque.                  *)
(*                                                                         *)
(* A body is [format, stamp, records]; a record is [hole, bytes], where an *)
(* object's digest is its bytes and the bytes of a hole are zeros.         *)
(***************************************************************************)
EXTENDS Integers, Sequences

Byte(n) == [byte |-> n]
NoContract == [stamp |-> "none", tensors |-> <<>>]
None == [ok |-> FALSE]

(* What a plan that is refused is.                                         *)
Refused(err) == [err |-> err, planner |-> "blob", stamp |-> "none",
                 size |-> 0, regions |-> <<>>]

NoView == [prefix |-> Byte(0), header |-> Byte(0), directory |-> Byte(0)]

(* Where the directory cell is, given the cells before it, or 0.           *)
DirectoryAt(view, size) ==
  IF /\ "version" \in DOMAIN view.prefix
     /\ "alignment" \in DOMAIN view.header
     /\ 2 + view.header.metadata < size
  THEN 3 + view.header.metadata
  ELSE 0

(* What a reader of unchanging cells sees.                                 *)
View(cells) ==
  LET view == [NoView EXCEPT !.prefix = cells[1], !.header = cells[2]]
      at == DirectoryAt(view, Len(cells))
  IN IF Len(cells) < 2 THEN NoView
     ELSE IF at = 0 THEN view
     ELSE [view EXCEPT !.directory = cells[at]]

Data(bytes) == [hole |-> FALSE, bytes |-> bytes]
Hole(n) == [hole |-> TRUE, bytes |-> [i \in 1..n |-> Byte(0)]]
RecordLength(record) == Len(record.bytes)
Slice(cells, offset, length) == SubSeq(cells, offset + 1, offset + length)
Body(format, stamp, records) ==
  [format |-> format, stamp |-> stamp, records |-> records]

(* The records of a plan's regions.                                        *)
Admitted(cells, regions) ==
  [i \in DOMAIN regions |->
     Data(Slice(cells, regions[i].offset, regions[i].length))]
=============================================================================
