-------------------------------- MODULE Tfm1 --------------------------------
(***************************************************************************)
(* The snapshot manifest of tfm1.rs: SnapshotBuilder, its only writer, and *)
(* the checks of decode, its only reader.                                  *)
(*                                                                         *)
(* A path is the sequence of its segments, and MAX_PATH_BYTES counts them: *)
(* the spelling of a segment is left out, except what it folds to and its  *)
(* place in byte order.  A manifest is the sequence of its entries, each a *)
(* [path, entry]; its bytes and its parent are left out.                   *)
(***************************************************************************)
EXTENDS Compose

CONSTANTS
  FoldOf,     \* segment |-> its case-folded form
  RankOf,     \* segment |-> its place in byte order
  MaxPath,    \* MAX_PATH_BYTES, in segments
  MaxRecords  \* MAX_FILE_RECORDS

(***************************************************************************)
(* Paths and records.                                                      *)
(***************************************************************************)
ValidPath(path) == Len(path) \in 1..MaxPath

(* The byte order of paths whose segments are single characters above '/'. *)
PathLess(p, q) ==
  \/ Len(p) < Len(q) /\ IsPrefix(p, q)
  \/ \E i \in DOMAIN p \cap DOMAIN q :
       /\ SubSeq(p, 1, i - 1) = SubSeq(q, 1, i - 1)
       /\ RankOf[p[i]] < RankOf[q[i]]
Least(paths) == CHOOSE p \in paths : \A q \in paths \ {p} : PathLess(p, q)
CaseFold(path) == [i \in DOMAIN path |-> FoldOf[path[i]]]

ValidRun(records) ==
  /\ Len(records) <= MaxRecords
  /\ \A k \in DOMAIN records :
       /\ RecordLength(records[k]) > 0
       /\ k > 1 /\ records[k].hole => ~records[k - 1].hole

(* validate_records: the rule of tensor bodies.                            *)
ValidRecords(records) ==
  /\ ValidRun(records)
  /\ \A k \in DOMAIN records :
       ~records[k].hole => RecordLength(records[k]) <= MaxObject

(* validate_tree.                                                          *)
ValidTree(entries) ==
  LET directories == {entries[i].path : i \in
        {j \in DOMAIN entries : entries[j].entry.kind = "directory"}}
  IN /\ IsInjective([i \in DOMAIN entries |-> CaseFold(entries[i].path)])
     /\ \A i \in DOMAIN entries :
          Len(entries[i].path) > 1 => Front(entries[i].path) \in directories

(***************************************************************************)
(* SnapshotBuilder.  What was declared is a function from paths to         *)
(* [kind], with [executable, planner, contract, records] of a file,        *)
(* [target] of a symlink and [to] of a hardlink.                           *)
(***************************************************************************)
IsLink(pending, path) == pending[path].kind = "hardlinkTo"
Files(pending) == {p \in DOMAIN pending : pending[p].kind = "file"}
Group(pending, file) ==
  {file} \cup {p \in DOMAIN pending :
                 IsLink(pending, p) /\ pending[p].to = file}

(* A file and its links: the file on the first path, the others to it.     *)
Rooted(pending) ==
  [p \in DOMAIN pending |->
     LET file == IF IsLink(pending, p) THEN pending[p].to ELSE p
         carrier == Least(Group(pending, file))
     IN IF pending[p].kind \notin {"file", "hardlinkTo"} THEN pending[p]
        ELSE IF p = carrier THEN pending[file]
        ELSE [kind |-> "hardlinkTo", to |-> carrier]]

(* resolve: the tree in path order, or the rule that was broken.  What is  *)
(* declared is a function of the path, as build_tree declares it: a path   *)
(* declared twice, which resolve refuses, is not an input here, and a      *)
(* symlink's target is a name nothing looks into.                          *)
ResolveTree(pending) ==
  LET rooted == Rooted(pending)
      paths == SetToSortSeq(DOMAIN pending, PathLess)
      Ordinal(p) == Cardinality({q \in Files(rooted) : PathLess(q, p)})
      Entry(p) == IF IsLink(rooted, p)
                  THEN [kind |-> "hardlink", ordinal |-> Ordinal(rooted[p].to)]
                  ELSE rooted[p]
      entries == [i \in DOMAIN paths |->
                    [path |-> paths[i], entry |-> Entry(paths[i])]]
      Err(err) == [err |-> err, entries |-> <<>>]
  IN IF \E p \in DOMAIN pending : ~ValidPath(p) THEN Err("PathLength")
     ELSE IF \E p \in DOMAIN pending :
               IsLink(pending, p) /\ pending[p].to \notin Files(pending)
     THEN Err("HardlinkTarget")
     ELSE IF \E p \in Files(rooted) : ~ValidRun(rooted[p].records)
     THEN Err("Records")
     ELSE IF \E p \in DOMAIN pending : /\ IsLink(rooted, p)
                                       /\ ~PathLess(rooted[p].to, p)
     THEN Err("HardlinkOrdinal")
     ELSE IF ~ValidTree(entries) THEN Err("Tree")
     ELSE [err |-> "none", entries |-> entries]

(* canonical_body: the records of a tensor file, or one blob.              *)
CanonicalBody(file) ==
  LET records == file.records
      Made(body) == [err |-> "none",
                     entry |-> [kind |-> "file", body |-> body,
                                executable |-> file.executable]]
  IN IF file.planner # "blob"
     THEN IF ValidRecords(records)
          THEN Made(Body(file.planner, file.contract, records))
          ELSE [err |-> "Records"]
     ELSE IF records = <<>> \/ (Len(records) = 1 /\ ~records[1].hole)
     THEN Made(Body("blob", "none", records))
     ELSE [err |-> "BlobRecords"]

(* finish: the tree with every file body in its canonical form.            *)
Finish(pending) ==
  LET tree == ResolveTree(pending)
      done == [i \in DOMAIN tree.entries |->
                 LET e == tree.entries[i].entry
                 IN IF e.kind = "file" THEN CanonicalBody(e)
                    ELSE [err |-> "none", entry |-> e]]
      bad == SelectSeq(done, LAMBDA x : x.err # "none")
  IN IF tree.err # "none" THEN tree
     ELSE IF bad # <<>> THEN [err |-> bad[1].err, entries |-> <<>>]
     ELSE [err |-> "none",
           entries |-> [i \in DOMAIN done |->
                          [path |-> tree.entries[i].path,
                           entry |-> done[i].entry]]]

(***************************************************************************)
(* decode.                                                                 *)
(***************************************************************************)
FilesBefore(entries, i) ==
  SelectSeq(SubSeq(entries, 1, i - 1), LAMBDA x : x.entry.kind = "file")

(* The path of the file with this ordinal.                                 *)
OrdinalPath(entries, ordinal) ==
  FilesBefore(entries, Len(entries) + 1)[ordinal + 1].path

(* Whether the reader accepts what the writer has made.                    *)
Decodes(entries) ==
  /\ \A i \in DOMAIN entries :
       LET e == entries[i].entry
       IN /\ ValidPath(entries[i].path)
          /\ i > 1 => PathLess(entries[i - 1].path, entries[i].path)
          /\ e.kind = "file" /\ e.body.format # "blob" =>
               ValidRecords(e.body.records)
          /\ e.kind = "hardlink" =>
               e.ordinal < Len(FilesBefore(entries, i))
  /\ ValidTree(entries)
=============================================================================
