------------------------------ MODULE Morphism ------------------------------
(***************************************************************************)
(* Layout morphisms (layout_morphism.rs): a storage arrangement of a       *)
(* tensor written as data.  A record factors every logical axis into sub-  *)
(* axes and permutes them; Plan turns it into numbers for one shape, Runs  *)
(* is the walk every byte mover uses, Ratify is the automatic verifier of  *)
(* a record.  Axes and positions are counted from 1 here, element indices  *)
(* from 0 as in the code.                                                  *)
(*                                                                         *)
(* A record is [rank, subs, perm, candidate, evidence]; subs is a sequence *)
(* of [axis, extent]; extent is a chain of terms [op, kind, n, inner] read *)
(* left to right.  A formula's text is abstracted to that chain.           *)
(***************************************************************************)
EXTENDS Integers, Sequences, SequencesExt, FiniteSets, FiniteSetsExt

(* The value of a formula that does not evaluate on a shape.               *)
Bad == -1

Lit(n) == [op |-> "*", kind |-> "lit", n |-> n, inner |-> <<>>]
Dim(axis) == [op |-> "*", kind |-> "dim", n |-> axis, inner |-> <<>>]
Ceil(chain) == [op |-> "*", kind |-> "ceil", n |-> 0, inner |-> chain]
Over(term) == [term EXCEPT !.op = "/"]

RECURSIVE EvalChain(_, _, _)

(* Division is exact outside ceil(): a record that divides an axis it      *)
(* cannot divide refuses the shape.                                        *)
EvalChain(chain, shape, ceiling) ==
  LET Operand(term) ==
        CASE term.kind = "lit" -> IF term.n = 0 THEN Bad ELSE term.n
          [] term.kind = "dim" ->
               IF term.n \in DOMAIN shape THEN shape[term.n] ELSE Bad
          [] term.kind = "ceil" -> EvalChain(term.inner, shape, TRUE)
      Quotient(value, by) ==
        IF by = 0 THEN Bad
        ELSE IF ceiling THEN (value + by - 1) \div by
        ELSE IF value % by = 0 THEN value \div by ELSE Bad
      Apply(value, term) ==
        LET operand == Operand(term)
        IN IF Bad \in {value, operand} THEN Bad
           ELSE IF term.op = "/" THEN Quotient(value, operand)
           ELSE value * operand
  IN IF chain = <<>> THEN Bad ELSE FoldLeft(Apply, 1, chain)

Eval(chain, shape) == EvalChain(chain, shape, FALSE)

IsIdentity(record) == record.subs = <<>>

ProductOver(S, f(_)) == FoldSet(LAMBDA i, total : f(i) * total, 1, S)

SumOver(S, f(_)) == MapThenSumSet(f, S)

(* LayoutMorphism::check.  Sub-axes are grouped by axis, outermost first,  *)
(* no axis skipped, and the permutation is a bijection.                    *)
Check(record) ==
  LET n == Len(record.subs)
      Axis(i) == record.subs[i].axis
  IN /\ record.evidence
     /\ IF IsIdentity(record) THEN record.perm = <<>> /\ record.rank = 0
        ELSE /\ record.rank # 0
             /\ Len(record.perm) = n
             /\ Axis(1) = 1
             /\ \A i \in 2..n : Axis(i) \in {Axis(i - 1), Axis(i - 1) + 1}
             /\ Axis(n) = record.rank
             /\ \A i \in 1..n : record.perm[i] \in 1..n
             /\ \A i, j \in 1..n :
                  record.perm[i] = record.perm[j] => i = j

NoPlan == [ok |-> FALSE]

(* The stride of each logical axis in the source.                          *)
LogicalStride(shape) ==
  [a \in DOMAIN shape |->
     ProductOver((a + 1)..Len(shape), LAMBDA b : shape[b])]

(* The factorization a record gives a shape: the axis and the extent of    *)
(* every sub-axis.  The identity is one sub-axis per logical axis.         *)
Axes(record, shape) ==
  IF IsIdentity(record) THEN [a \in DOMAIN shape |-> a]
  ELSE [i \in DOMAIN record.subs |-> record.subs[i].axis]

Extents(record, shape) ==
  IF IsIdentity(record) THEN shape
  ELSE [i \in DOMAIN record.subs |-> Eval(record.subs[i].extent, shape)]

(* A sub-axis coordinate's multiplier inside its logical axis: the product *)
(* of the factors that follow it in that axis.                             *)
Within(axes, extents) ==
  [i \in DOMAIN axes |->
     ProductOver({j \in DOMAIN axes : j > i /\ axes[j] = axes[i]},
                 LAMBDA j : extents[j])]

(* What the factors of an axis multiply to.                                *)
Spans(shape, axes, extents) ==
  [a \in DOMAIN shape |-> ProductOver({i \in DOMAIN axes : axes[i] = a},
                                      LAMBDA i : extents[i])]

Short_Allowed(shape, axes, extents) == FALSE

(* An axis whose factors fall short of its dimension.                      *)
Short(shape, axes, extents) ==
  \E a \in DOMAIN shape : /\ a \in Range(axes)
                          /\ Spans(shape, axes, extents)[a] < shape[a]

(* LayoutMorphism::plan.                                                   *)
Plan(record, shape) ==
  LET axes == Axes(record, shape)
      extents == Extents(record, shape)
      within == Within(axes, extents)
      stride == LogicalStride(shape)
      spans == Spans(shape, axes, extents)
      n == Len(extents)
  IN IF \/ record.rank \notin {0, Len(shape)}
        \/ shape = <<>> \/ 0 \in Range(shape)
        \/ \E i \in 1..n : extents[i] \in {Bad, 0}
        \/ \E i \in 1..n : axes[i] \notin DOMAIN shape
        \/ Short(shape, axes, extents)
     THEN NoPlan
     ELSE [ok |-> TRUE, shape |-> shape, axes |-> axes, extents |-> extents,
           within |-> within, stride |-> stride,
           perm |-> IF IsIdentity(record) THEN [i \in 1..n |-> i]
                    ELSE record.perm,
           srcStride |-> [i \in 1..n |-> within[i] * stride[axes[i]]],
           paddedAxis |-> {a \in DOMAIN shape : spans[a] > shape[a]},
           source |-> ProductOver(DOMAIN shape, LAMBDA a : shape[a]),
           dest |-> ProductOver(1..n, LAMBDA i : extents[i])]

(***************************************************************************)
(* Plan::for_each_run.  Trailing storage positions fold into one run while *)
(* their source stride equals the run gathered so far and their axis is    *)
(* not padded; an odometer walks the positions outside.                    *)
(***************************************************************************)
AtPosition(plan, p) == plan.perm[p]

Inner(plan, p) ==
  ProductOver((p + 1)..Len(plan.perm),
              LAMBDA q : plan.extents[AtPosition(plan, q)])

Folds(plan, p) == /\ plan.axes[AtPosition(plan, p)] \notin plan.paddedAxis
                  /\ plan.srcStride[AtPosition(plan, p)] = Inner(plan, p)

(* The number of storage positions the odometer walks.                     *)
Outer(plan) ==
  Min({p \in 0..Len(plan.perm) :
         \A q \in (p + 1)..Len(plan.perm) : Folds(plan, q)})

(* The odometer's k-th reading, a count for every outer position: the last *)
(* position turns at every step, a position when the one after it wraps.   *)
Reading(plan, outer, k) ==
  [p \in 1..outer |->
     (k \div ProductOver((p + 1)..outer,
                         LAMBDA q : plan.extents[AtPosition(plan, q)]))
       % plan.extents[AtPosition(plan, p)]]

(* The logical coordinate a reading stands for.                            *)
Coord(plan, reading) ==
  [a \in DOMAIN plan.shape |->
     SumOver({p \in DOMAIN reading : plan.axes[AtPosition(plan, p)] = a},
             LAMBDA p : reading[p] * plan.within[AtPosition(plan, p)])]

Padding == -1

(* The source element a coordinate names, or Padding past the shape.       *)
SourceOf(plan, coord) ==
  IF \E a \in DOMAIN coord : coord[a] >= plan.shape[a] THEN Padding
  ELSE SumOver(DOMAIN coord, LAMBDA a : coord[a] * plan.stride[a])

(* The runs [to, from, length], in the order they are visited.             *)
Runs(plan) ==
  LET outer == Outer(plan)
      run == Inner(plan, outer)
      Visit(k) == [to |-> k * run, length |-> run,
                   from |-> SourceOf(plan,
                                     Coord(plan, Reading(plan, outer, k)))]
  IN <<>> \o [k \in 1..(plan.dest \div run) |-> Visit(k - 1)]

(* Plan::apply on a source of bytes: the copy of every run, or its zeros.  *)
Apply(plan, source, e) ==
  LET runs == Runs(plan)
      Byte(b) == LET r == runs[1 + (b \div e) \div runs[1].length]
                 IN IF r.from = Padding THEN 0
                    ELSE source[1 + r.from * e + (b - r.to * e)]
  IN [i \in 1..(plan.dest * e) |-> Byte(i - 1)]

Poison == 165

(* Plan::apply_inverse into a buffer of poison.                            *)
ApplyInverse(plan, destination, e) ==
  LET runs == {r \in Range(Runs(plan)) : r.from # Padding}
      Writers(b) == {r \in runs : b \div e \in r.from..(r.from + r.length - 1)}
      Byte(b) == IF Writers(b) = {} THEN Poison
                 ELSE LET last == CHOOSE r \in Writers(b) :
                                    \A s \in Writers(b) : s.to <= r.to
                      IN destination[1 + last.to * e + (b - last.from * e)]
  IN [i \in 1..(plan.source * e) |-> Byte(i - 1)]

(***************************************************************************)
(* probe_shapes and ratify.                                                *)
(***************************************************************************)
ProbeShapes(record) ==
  LET Literals(a) == {i \in DOMAIN record.subs :
                        /\ record.subs[i].axis = a
                        /\ Len(record.subs[i].extent) = 1
                        /\ record.subs[i].extent[1].kind = "lit"}
      aligned == [a \in 1..record.rank |->
                    (a + 1) * ProductOver(Literals(a), LAMBDA i :
                                record.subs[i].extent[1].n)]
      ragged == [a \in 1..record.rank |->
                   IF aligned[a] > 1 THEN aligned[a] - 1 ELSE aligned[a]]
  IN IF IsIdentity(record)
     THEN {[a \in 1..rank |-> a + 1] : rank \in 1..4}
     ELSE {aligned, ragged}

(* One probe of a record, on a source of distinct one-byte elements.       *)
ProbePasses(plan) ==
  LET source == [i \in 1..plan.source |-> i + Poison]
      destination == Apply(plan, source, 1)
      runs == Range(Runs(plan))
      padding == {r \in runs : r.from = Padding}
      mapped == SumOver(runs \ padding, LAMBDA r : r.length)
  IN /\ mapped = plan.source
     /\ \A r \in padding : \A i \in r.to..(r.to + r.length - 1) :
          destination[i + 1] = 0
     /\ plan.paddedAxis = {} => padding = {}
     /\ ApplyInverse(plan, destination, 1) = source

(* The verdict on a record.  A probe shape the record refuses is skipped.  *)
Ratify(record) ==
  LET plans == {p \in {Plan(record, s) : s \in ProbeShapes(record)} : p.ok}
  IN IF ~Check(record) THEN "malformed"
     ELSE IF \E p \in plans : ~ProbePasses(p) THEN "refuted"
     ELSE IF plans = {} THEN "unreached" ELSE "ratified"
=============================================================================
