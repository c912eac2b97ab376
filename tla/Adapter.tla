------------------------------ MODULE Adapter ------------------------------
(***************************************************************************)
(* Serving one layout from a checkpoint written in another: adapter.rs,    *)
(* and derive of compose.rs, which stores the result.                      *)
(*                                                                         *)
(* A declaration is [instances, required, fusion, permute]; an instance is *)
(* the [name, role] of one value of the pattern's holes.                   *)
(***************************************************************************)
EXTENDS Compose

NoPermute == [view |-> <<>>, axes |-> <<>>]

(***************************************************************************)
(* Permutes.                                                               *)
(***************************************************************************)
(* Permute::resolve, with axes counted from 1: the dimensions of the view  *)
(* of a tensor of this shape.                                              *)
Resolve(permute, shape) ==
  LET auto == {i \in DOMAIN permute.view : "auto" \in DOMAIN permute.view[i]}
      Fits(d) == "axis" \in DOMAIN d =>
                   /\ d.axis \in DOMAIN shape
                   /\ shape[d.axis] % d.divisor = 0
      Size(d) == IF "auto" \in DOMAIN d THEN 1
                 ELSE IF "axis" \in DOMAIN d THEN shape[d.axis] \div d.divisor
                 ELSE d.literal
      dims == [i \in DOMAIN permute.view |-> Size(permute.view[i])]
      known == Product(dims)
      elements == Product(shape)
  IN IF \/ Cardinality(auto) > 1
        \/ \E i \in DOMAIN permute.view : ~Fits(permute.view[i])
        \/ known = 0
        \/ auto = {} /\ known # elements
        \/ elements % known # 0
     THEN None
     ELSE [ok |-> TRUE,
           dims |-> [i \in DOMAIN dims |->
                       IF i \in auto THEN elements \div known ELSE dims[i]]]

(* permute_bytes: axis t of the output is axis axes[t] of the input.       *)
PermuteBytes(input, size, dims, axes) ==
  LET Stride(ds, a) == Product(SubSeq(ds, a + 1, Len(ds)))
      outDims == [t \in DOMAIN axes |-> dims[axes[t]]]
      Index(j, t) == (j \div Stride(outDims, t)) % outDims[t]
      Source(j) == Total([t \in DOMAIN axes |->
                            Index(j, t) * Stride(dims, axes[t])])
  IN FlattenSeq([j \in 1..Product(dims) |->
                   Slice(input, Source(j - 1) * size, size)])

InvertAxes(axes) == [a \in DOMAIN axes |->
                       CHOOSE t \in DOMAIN axes : axes[t] = a]

Identity == [kind |-> "Identity", permute |-> NoPermute]

(* The view of permuted bytes taken for the view of the canonical ones.    *)
Apply_SameView(transform, bytes, size, shape) ==
  LET permute == transform.permute
      view == Resolve(permute, shape)
  IN IF transform.kind = "Identity" THEN [ok |-> TRUE, bytes |-> bytes]
     ELSE IF ~view.ok THEN None
     ELSE [ok |-> TRUE,
           bytes |-> PermuteBytes(bytes, size, view.dims,
                       IF transform.kind = "Forward" THEN permute.axes
                       ELSE InvertAxes(permute.axes))]

(* Transform::apply.                                                       *)
Apply(transform, bytes, size, shape) ==
  LET axes == transform.permute.axes
      view == Resolve(transform.permute, shape)
      permuted == [t \in DOMAIN axes |-> view.dims[axes[t]]]
  IN IF transform.kind = "Identity" THEN [ok |-> TRUE, bytes |-> bytes]
     ELSE IF ~view.ok THEN None
     ELSE [ok |-> TRUE,
           bytes |-> IF transform.kind = "Forward"
                     THEN PermuteBytes(bytes, size, view.dims, axes)
                     ELSE PermuteBytes(bytes, size, permuted,
                                       InvertAxes(axes))]

(***************************************************************************)
(* The runs of a file by role.                                             *)
(***************************************************************************)
RoleOf(entry, name) ==
  entry.instances[CHOOSE i \in DOMAIN entry.instances :
                    entry.instances[i].name = name].role

Undecided(verdict) == [verdict |-> verdict, tensors |-> <<>>]

(* source_run, for each part of a declared tensor.                         *)
TensorRuns(contract, t) ==
  LET entry == EntryFor(contract, t.name)
      cut == RunsOf(contract, t.name, t.shape, t.length)
      parts == IF cut.ok THEN cut.runs
               ELSE <<[role |-> <<>>, length |-> t.length]>>
      outer == IF t.shape = <<>> THEN 1 ELSE Max({1, t.shape[1]})
      row == t.length \div outer
  IN IF entry = <<>> THEN <<>>
     ELSE [p \in DOMAIN parts |->
             [role |-> RoleOf(entry[1], t.name) \o parts[p].role,
              dtype |-> t.dtype, permute |-> entry[1].permute,
              offset |-> t.offset + Total([q \in 1..(p - 1) |->
                                             parts[q].length]),
              length |-> parts[p].length,
              whole |-> row > 0 /\ parts[p].length % row = 0,
              rows |-> IF row = 0 THEN 0 ELSE parts[p].length \div row,
              rowShape |-> SubSeq(t.shape, 2, Len(t.shape))]]

(* role_runs: a role carried twice, or by part of a row, is an error.      *)
RoleRuns(contract, inventory) ==
  LET runs == FlattenSeq([i \in DOMAIN inventory.tensors |->
                            TensorRuns(contract, inventory.tensors[i])])
  IN IF /\ \A i \in DOMAIN runs : runs[i].whole
        /\ IsInjective([i \in DOMAIN runs |-> runs[i].role])
     THEN [ok |-> TRUE, runs |-> runs]
     ELSE None

(* entry_suffixes.                                                         *)
EntrySuffixes(entry) ==
  IF entry.fusion.groups = 0 THEN << <<>> >>
  ELSE [i \in DOMAIN Cycle(entry.fusion) |-> Cycle(entry.fusion)[i].role]

(***************************************************************************)
(* decide.                                                                 *)
(***************************************************************************)
(* derived_tensor: runs of one dtype, row shape and arrangement, and what  *)
(* is left to do to their concatenation.                                   *)
DerivedTensor(name, runs, permute) ==
  LET first == runs[1]
      Same(f) == \A i \in DOMAIN runs : runs[i][f] = first[f]
      both == first.permute # NoPermute /\ permute # NoPermute
      transform == IF first.permute = permute THEN Identity
                   ELSE IF permute # NoPermute
                   THEN [kind |-> "Forward", permute |-> permute]
                   ELSE [kind |-> "Inverse", permute |-> first.permute]
  IN IF ~Same("dtype") \/ ~Same("rowShape") THEN Undecided("conversion")
     ELSE IF ~Same("permute") \/ (both /\ first.permute # permute)
     THEN Undecided("error")
     ELSE [verdict |-> "derived",
           tensors |-> <<[name |-> name, dtype |-> first.dtype,
             shape |-> <<Total([i \in DOMAIN runs |-> runs[i].rows])>>
                         \o first.rowShape,
             length |-> Total([i \in DOMAIN runs |-> runs[i].length]),
             runs |-> runs, transform |-> transform]>>]

(* One instance of a target declaration, from the runs that are available. *)
DeriveInstance(entry, instance, available) ==
  LET suffixes == EntrySuffixes(entry)
      Carried(role) == \E i \in DOMAIN available : available[i].role = role
      Run(role) == available[CHOOSE i \in DOMAIN available :
                               available[i].role = role]
      roles == [i \in DOMAIN suffixes |-> instance.role \o suffixes[i]]
  IN IF \A i \in DOMAIN roles : ~Carried(roles[i])
     THEN Undecided("absent")
     ELSE IF \E i \in DOMAIN roles : ~Carried(roles[i])
     THEN Undecided("conversion")
     ELSE DerivedTensor(instance.name, [i \in DOMAIN roles |-> Run(roles[i])],
                        entry.permute)

(* One target declaration: all the instances the source has bytes for.     *)
DeriveEntry(entry, available) ==
  LET all == [i \in DOMAIN entry.instances |->
                DeriveInstance(entry, entry.instances[i], available)]
      found == SelectSeq(all, LAMBDA d : d.verdict # "absent")
  IN IF found = <<>>
     THEN Undecided(IF entry.required THEN "conversion" ELSE "derived")
     ELSE FoldLeft(LAMBDA a, d :
                     IF a.verdict # "derived" THEN a
                     ELSE [verdict |-> d.verdict,
                           tensors |-> a.tensors \o d.tensors],
                   Undecided("derived"), found)

(* decide: every target tensor from runs of the source, every role of the  *)
(* source used.                                                            *)
Decide(source, inventory, target) ==
  LET available == RoleRuns(source, inventory)
      Add(a, entry) ==
        IF a.verdict # "derived" THEN a
        ELSE LET d == DeriveEntry(entry, available.runs)
             IN [verdict |-> d.verdict, tensors |-> a.tensors \o d.tensors]
      got == FoldLeft(Add, Undecided("derived"), target.tensors)
      claimed == {r.role : r \in UNION {ToSet(got.tensors[i].runs) :
                                          i \in DOMAIN got.tensors}}
  IN IF ~available.ok THEN Undecided("error")
     ELSE IF got.verdict # "derived" THEN Undecided(got.verdict)
     ELSE IF \/ got.tensors = <<>>
             \/ \E i \in DOMAIN available.runs :
                  available.runs[i].role \notin claimed
     THEN Undecided("conversion")
     ELSE got

(***************************************************************************)
(* derive.                                                                 *)
(***************************************************************************)
(* The records of one tensor: its runs by reference, or its bytes moved.   *)
Materialize(records, t) ==
  LET bytes == FlattenSeq([i \in DOMAIN t.runs |->
                 RecordsRead(records, t.runs[i].offset, t.runs[i].length)])
      size == t.length \div Max({1, Product(t.shape)})
      moved == Apply(t.transform, bytes, size, t.shape)
  IN IF t.transform.kind = "Identity" THEN InheritAll(records, t.runs)
     ELSE IF size = 0 \/ ~moved.ok THEN NotComposed("NotDerivable")
     ELSE [err |-> "none", records |-> Admit(moved.bytes)]

Derive(body, source, target) ==
  LET found == RecordsInventory(body.records)
      decision == Decide(source, found, target)
      parts == [i \in DOMAIN decision.tensors |->
                  Materialize(body.records, decision.tensors[i])]
      refused == SelectSeq(parts, LAMBDA p : p.err # "none")
  IN IF body.format = "blob" THEN NotComposed("NotATensorContainer")
     ELSE IF ~found.ok THEN NotComposed("Unreadable")
     ELSE IF decision.verdict # "derived" THEN NotComposed("NotDerivable")
     ELSE IF refused # <<>> THEN refused[1]
     ELSE [err |-> "none",
           records |-> Admit(SafetensorsHeader(decision.tensors))
                         \o FlattenSeq([i \in DOMAIN parts |->
                                          parts[i].records])]

(***************************************************************************)
(* The reference: the canonical bytes a layout gives each role.            *)
(***************************************************************************)
CanonicalBytes(records, run, shape) ==
  LET bytes == Slice(Cells(records), run.offset, run.length)
  IN IF run.permute = NoPermute THEN bytes
     ELSE Apply([kind |-> "Inverse", permute |-> run.permute], bytes,
                run.length \div Product(shape), shape).bytes

(* The role map of a file under a contract: role and canonical bytes.      *)
RoleBytes(records, contract) ==
  LET found == RoleRuns(contract, RecordsInventory(records))
  IN {<<found.runs[i].role,
        CanonicalBytes(records, found.runs[i],
                       <<found.runs[i].rows>> \o found.runs[i].rowShape)>> :
        i \in DOMAIN found.runs}
=============================================================================
