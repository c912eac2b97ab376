------------------------------ MODULE MCIngest ------------------------------
(***************************************************************************)
(* Instances of Ingest.  One set of weights, q of six rows, k of three and *)
(* a norm n, is packaged fused (one tensor qkv), split and as a GGUF twin, *)
(* and another fused head by head; others have more objects than a plan    *)
(* may have, are torn, or are not containers.                              *)
(***************************************************************************)
EXTENDS Composed

CONSTANTS w1, w2

Part(role, share) == [role |-> role, share |-> share]
Fuse(groups, parts) == [groups |-> groups, parts |-> parts]
Entry(instances, fusion, permute) ==
  [instances |-> instances, required |-> TRUE, fusion |-> fusion,
   permute |-> permute]
Named(name, role) == [name |-> name, role |-> role]
Layout(stamp, entries) == [stamp |-> stamp, tensors |-> entries]

Norm == [Entry(<<Named("n", <<"n">>)>>, NoFusion, NoPermute) EXCEPT
           !.required = FALSE]
Q(fusion, permute) == Entry(<<Named("q", <<"qkv", "#q">>)>>, fusion, permute)
K(fusion, permute) == Entry(<<Named("k", <<"qkv", "#k">>)>>, fusion, permute)
Qkv(fusion) == Entry(<<Named("qkv", <<"qkv">>)>>, fusion, NoPermute)
Rope == [view |-> <<[literal |-> 3], [auto |-> TRUE]>>, axes |-> <<2, 1>>]

Stacked(a, b) == Fuse(1, <<Part("#q", a), Part("#k", b)>>)
Heads(a, b) == Fuse(2, <<Part("#q", a), Part("#k", b)>>)
Head2 == Fuse(2, <<Part("", 1)>>)

Split == Layout("split", <<Q(NoFusion, NoPermute), K(NoFusion, NoPermute),
                           Norm>>)
Fused == Layout("fused", <<Qkv(Stacked(2, 1)), Norm>>)
SplitHeads == Layout("splitheads", <<Q(Head2, NoPermute),
                                     K(Head2, NoPermute), Norm>>)
FusedHeads == Layout("fusedheads", <<Qkv(Heads(1, 1)), Norm>>)
Roped == Layout("roped", <<Q(NoFusion, Rope), K(NoFusion, Rope), Norm>>)

T(name, shape, from) ==
  [name |-> name, dtype |-> "U8", shape |-> shape,
   length |-> Product(shape), from |-> from]
Bytes(t) == [i \in 1..t.length |-> Byte(t.from + i)]
Safetensors(ts) ==
  SafetensorsHeader(ts) \o FlattenSeq([i \in DOMAIN ts |-> Bytes(ts[i])])

Zeros(n) == [i \in 1..n |-> Byte(0)]
Gguf(ts, alignment, metadata) ==
  LET Start(i) == Total([j \in 1..(i - 1) |->
                           AlignUp(ts[j].length, alignment)])
      entry == [i \in DOMAIN ts |->
                  [name |-> ts[i].name, dtype |-> ts[i].dtype,
                   dims |-> Reverse(ts[i].shape), offset |-> Start(i)]]
      directory == IF ts = <<>> THEN <<>>
                   ELSE <<[tensors |-> entry]>> \o Zeros(Len(ts) - 1)
      head == <<[version |-> 3, count |-> Len(ts)],
                [alignment |-> alignment, metadata |-> metadata]>>
                \o Zeros(metadata) \o directory
      Pad(cells) == cells \o Zeros(AlignUp(Len(cells), alignment)
                                     - Len(cells))
  IN Pad(head) \o FlattenSeq([i \in DOMAIN ts |-> Pad(Bytes(ts[i]))])

q6 == T("q", <<6, 1>>, 10)
k3 == T("k", <<3, 1>>, 20)
q4 == T("q", <<4, 1>>, 10)
k4 == T("k", <<4, 1>>, 20)
n1 == T("n", <<1>>, 30)

MCSplit == Safetensors(<<n1, q6, k3>>)
MCSplit4 == Safetensors(<<q4, k4>>)
MCFused == LET t == T("qkv", <<9, 1>>, 0)
           IN SafetensorsHeader(<<t, n1>>) \o Bytes(q6) \o Bytes(k3)
                \o Bytes(n1)
MCFused4 == SafetensorsHeader(<<T("qkv", <<8, 1>>, 0)>>)
              \o SubSeq(Bytes(q4), 1, 2) \o SubSeq(Bytes(k4), 1, 2)
              \o SubSeq(Bytes(q4), 3, 4) \o SubSeq(Bytes(k4), 3, 4)
MCTwin == Gguf(<<q6, k3, n1>>, 4, 1)
MCLittle == Gguf(<<T("k", <<2>>, 20)>>, 4, 0)
MCEmptyGguf == Gguf(<<>>, 4, 1)
MCBlob == <<Byte(1), Byte(2), Byte(3), Byte(4), Byte(5)>>
MCTorn == SubSeq(MCSplit, 1, 6)
MCCrowd == Safetensors([i \in 1..8 |-> T(ToString(i), <<3>>, 3 * i)])

MCFiles == {MCFused, MCLittle, MCTorn, <<>>}
MCImportable == {MCFused, MCLittle, MCBlob}
MCContracts == {NoContract, Fused}
MCPackaged == {<<MCSplit, NoContract>>, <<MCSplit, Split>>,
               <<MCSplit, Roped>>, <<MCSplit4, SplitHeads>>,
               <<MCFused, Fused>>, <<MCFused, NoContract>>,
               <<MCFused4, FusedHeads>>, <<MCTwin, Split>>,
               <<MCEmptyGguf, NoContract>>, <<MCBlob, NoContract>>,
               <<MCCrowd, NoContract>>}
Names(ns) == [n \in ns |-> n]
MCNameMaps == {Names({"q", "k", "n"}), Names({"q"}), Names({}),
               [q |-> "k", k |-> "q", n |-> "n"], [q |-> "x", k |-> "x"],
               Names({"qkv"}), [q |-> "__metadata__"], [q |-> "overlong"]}
MCAdoptions == {NoContract, Fused, FusedHeads}
MCDerivations == {<<Split, Fused>>, <<Fused, Split>>, <<Split, Roped>>,
                  <<Roped, Split>>, <<SplitHeads, FusedHeads>>,
                  <<FusedHeads, SplitHeads>>, <<Roped, Fused>>}
=============================================================================
