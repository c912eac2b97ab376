--------------------------- MODULE MCWorkspaceTree ---------------------------
(***************************************************************************)
(* Instances of WorkspaceTree: paths of up to two segments, of which "a"   *)
(* and "A" fold to one name; a safetensors file that was uploaded in the   *)
(* pieces of a grid, and blobs, one of them sparse.                        *)
(***************************************************************************)
EXTENDS WorkspaceTree

CONSTANTS w1, w2, h1, h2

MCSymmetry == Permutations({w1, w2}) \cup Permutations({h1, h2})

MCFold == [a |-> "a", A |-> "a", b |-> "b"]
MCRank == [A |-> 1, a |-> 2, b |-> 3]

(* The contract: a tensor that fuses two halves.                           *)
MCSeams ==
  [stamp |-> "seams",
   tensors |-> <<
     [instances |-> <<[name |-> "t", role |-> <<"t">>]>>, required |-> TRUE,
      fusion |-> [groups |-> 1, parts |-> <<[role |-> "#x", share |-> 1],
                                            [role |-> "#y", share |-> 1]>>],
      permute |-> [view |-> <<>>, axes |-> <<>>]]>>]

File ==
  SafetensorsHeader(<<[name |-> "t", dtype |-> "U8", shape |-> <<4, 1>>,
                       length |-> 4]>>)
    \o [i \in 1..4 |-> Byte(i)]
Uploaded == <<Data(SubSeq(File, 1, 3)), Data(SubSeq(File, 4, 6))>>
Small == <<Data(<<Byte(7)>>)>>
Sparse == <<Data(<<Byte(8)>>), Hole(1)>>

Make(path, planner, records) ==
  [op |-> "CreateFile", path |-> path, executable |-> FALSE,
   planner |-> planner, records |-> records]
Dir(path) == [op |-> "Mkdir", path |-> path]
Move(path, to) == [op |-> "Rename", path |-> path, to |-> to]
Link(path, target) == [op |-> "Hardlink", path |-> path, target |-> target]
Cut(path, n) == [op |-> "Truncate", path |-> path, length |-> n]
Gone(path) == [op |-> "Unlink", path |-> path]
Bare(path) == [op |-> "Rmdir", path |-> path]

a == <<"a">>
b == <<"b">>
A == <<"A">>
ab == <<"a", "b">>
ba == <<"b", "a">>

MCStarts ==
  {<<>>, <<Make(b, "blob", Uploaded)>>,
   <<Dir(a), Make(ab, "blob", Uploaded), Link(b, ab)>>,
   <<Dir(a), Dir(b), Make(ba, "safetensors", Uploaded)>>}

MCBatches ==
  {<<Dir(a)>>, <<Dir(A), Dir(<<"A", "b">>)>>,
   <<Make(b, "blob", Small)>>, <<Make(b, "blob", Uploaded)>>,
   <<Make(ab, "blob", Sparse)>>,
   <<[op |-> "SetRecords", path |-> ab, records |-> Small]>>,
   <<Cut(b, 0)>>, <<Cut(b, 3)>>, <<Cut(b, 4)>>, <<Cut(ab, 7)>>,
   <<Move(a, b)>>, <<Move(a, ab)>>, <<Move(b, ab)>>, <<Move(a, ba)>>,
   <<Move(ab, A)>>, <<Link(A, b)>>, <<Link(ab, b)>>,
   <<Gone(b)>>, <<Gone(ab)>>, <<Bare(a)>>, <<Gone(ba), Bare(b)>>,
   <<[op |-> "Symlink", path |-> A, target |-> "b"]>>,
   <<[op |-> "SetExecutable", path |-> b, executable |-> TRUE]>>}
MCLeasable == {b, ab}
=============================================================================
