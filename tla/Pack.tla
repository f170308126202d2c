-------------------------------- MODULE Pack ------------------------------
(* `bitter`'s packer (src/bitter/src/pack.rs): the linked values become    *)
(* the bytes of the image.  A first pass works out every entry's width     *)
(* from its type alone, a second one packs the values, resolving byte      *)
(* distances with the first pass's widths, and a last one pads the image.  *)
(*                                                                         *)
(* A value is a run of groups of fields; a group may be wrapped in         *)
(* LittleEndian.  Deeper nesting concatenates the same way.  Positions     *)
(* count from 0, as in the code.                                           *)
EXTENDS Integers, Sequences, SequencesExt

CONSTANTS
    StreamSpace,  \* the value streams considered
    NoNumber      \* what stands where a number should, and is none

ASSUME NoNumberAssumption == NoNumber \notin Int

---------------------------------------------------------------------------
(* A Deferred expression is the sequence of its nodes, operands before     *)
(* what is done with them, the whole of it last.  "leaf" is Deferred.Leaf  *)
(* or Pos, "here" Deferred.Here, "op" a Deferred.Node whose BinOp has its  *)
(* fields; anything else is "malformed": another variant, a payload or a   *)
(* field missing or of another kind.  NoNumber as a payload is a cross-    *)
(* file reference never linked, or no integer.                             *)

Operator == {"Add", "Sub", "Mul", "Shr", "Band", "Span"}
Node     == [kind : {"leaf"}, n : Int \cup {NoNumber}]
            \cup [kind : {"op"}, op : Operator \cup {"other"}, left : Nat, right : Nat]
            \cup [kind : {"here", "malformed"}]

Operands(node) == IF node.kind = "op" THEN {node.left, node.right} ELSE {}

Expr == {e \in Seq(Node) :
            /\ e # <<>>
            /\ \A i \in 1..Len(e) : Operands(e[i]) \subseteq 1..(i - 1)
            /\ \A i \in 1..(Len(e) - 1) : \E k \in (i + 1)..Len(e) : i \in Operands(e[k])}

---------------------------------------------------------------------------
(* The values the packer knows, and everything else ("opaque"): a bare     *)
(* int, an enum, a reference, a directive inside another value or with no  *)
(* number as its argument, and a field whose width is no number.  NoNumber *)
(* as a bits' value is one still Deferred, missing or no int; declared is  *)
(* NoNumber when LittleEndian lacks its width or the value it wraps.       *)

Field    == [kind : {"bits"}, width : Nat, value : Int \cup {NoNumber}]
            \cup [kind : {"positioned"}, width : Nat, expr : Expr]
Group    == [little : BOOLEAN, declared : Nat \cup {NoNumber}, fields : Seq(Field)]
Value    == [kind : {"data"}, groups : Seq(Group)]
            \cup [kind : {"align", "pad"}, n : Nat]
            \cup [kind : {"opaque"}]

ASSUME StreamSpaceAssumption == \A s \in StreamSpace : s \in Seq(Value)

---------------------------------------------------------------------------
VARIABLES
    stream,   \* the linked values, fixed
    phase,    \* the pass under way
    offsets,  \* where the first pass says each entry starts, the last one open
    widths,   \* the byte widths it found
    bytes,    \* the image so far
    starts,   \* history: how many bytes stood before each packed entry
    padTo,    \* the PadImage sizes met, applied to the finished image
    error

vars == <<stream, phase, offsets, widths, bytes, starts, padTo, error>>

SumOf(s) ==
    LET upto[k \in 0..Len(s)] == IF k = 0 THEN 0 ELSE upto[k - 1] + s[k]
    IN  upto[Len(s)]

CeilDiv(a, b) == (a + b - 1) \div b

---------------------------------------------------------------------------
(* Widths: `structural_width_bits` and `entry_byte_widths`.                *)

GroupBits(g) == SumOf([i \in DOMAIN g.fields |-> g.fields[i].width])
ValueBits(v) == SumOf([i \in DOMAIN v.groups |-> GroupBits(v.groups[i])])

Misplaced(v) == v.kind = "opaque" \/ (v.kind \in {"align", "pad"} /\ v.n = 0)

\* Slips of the definitions that follow them, for testing the properties.
WidthOfCountingPad(v, offset) ==
    CASE v.kind \in {"align", "pad"} -> (v.n - (offset % v.n)) % v.n
      [] v.kind = "data"             -> CeilDiv(ValueBits(v), 8)

WidthOfRemainder(v, offset) ==
    CASE v.kind = "align" -> offset % v.n
      [] v.kind = "pad"   -> 0
      [] v.kind = "data"  -> CeilDiv(ValueBits(v), 8)

WidthOf(v, offset) ==
    CASE v.kind = "align" -> (v.n - (offset % v.n)) % v.n
      [] v.kind = "pad"   -> 0
      [] v.kind = "data"  -> CeilDiv(ValueBits(v), 8)

Offset == offsets[Len(offsets)]

---------------------------------------------------------------------------
(* The numbers' own operations (num_bigint): `Band` is that of two's       *)
(* complement of any width.  `eval` shifts by nothing instead of by a      *)
(* negative amount.                                                        *)

Bit(n, i)     == (n \div 2^i) % 2
Fits(n, w)    == 0 - 2^w <= n /\ n < 2^w
Magnitude(n)  == IF n < 0 THEN 0 - n ELSE n
BitAnd(a, b)  ==
    LET w == CHOOSE w \in 0..(Magnitude(a) + Magnitude(b)) : Fits(a, w) /\ Fits(b, w)
    IN  SumOf([i \in 1..w |-> 2^(i - 1) * Bit(a, i - 1) * Bit(b, i - 1)])
            - (IF a < 0 /\ b < 0 THEN 2^w ELSE 0)

Arithmetic(op, a, b) ==
    CASE op = "Add"  -> a + b
      [] op = "Sub"  -> a - b
      [] op = "Mul"  -> a * b
      [] op = "Shr"  -> a \div 2^(IF b < 0 THEN 0 ELSE b)
      [] op = "Band" -> BitAnd(a, b)

---------------------------------------------------------------------------
(* Values: `resolve_deferred` and `pack_value`.  What a node resolves to   *)
(* is <<n>>, or <<>> where the code returns an error.                      *)

SpanEndpointsInside(from, to) == {from, to} \subseteq 0..(Len(widths) - 1)

SpanEndpointsOk(from, to) == {from, to} \subseteq 0..Len(widths)

SpanUnsigned(from, to) ==
    IF from <= to THEN SumOf(SubSeq(widths, from + 1, to)) ELSE SumOf(SubSeq(widths, to + 1, from))

Span(from, to) ==
    IF from <= to THEN SumOf(SubSeq(widths, from + 1, to)) ELSE 0 - SumOf(SubSeq(widths, to + 1, from))

ResolveOp(op, l, r) ==
    IF op # "Span" THEN <<Arithmetic(op, l, r)>>
    ELSE IF SpanEndpointsOk(l, r) THEN <<Span(l, r)>> ELSE <<>>

\* value: what the nodes before this one resolve to.
ResolveNode(node, value, here) ==
    CASE node.kind = "leaf" /\ node.n # NoNumber -> <<node.n>>
      [] node.kind = "here" -> <<here>>
      [] node.kind = "op" /\ node.op \in Operator /\ value[node.left] # <<>> /\ value[node.right] # <<>> ->
             ResolveOp(node.op, value[node.left][1], value[node.right][1])
      [] OTHER -> <<>>

ResolveDeferred(e, here) ==
    LET value[i \in 1..Len(e)] == ResolveNode(e[i], value, here) IN value[Len(e)]

FieldValue(f, here) ==
    (IF f.kind = "bits" THEN f.value ELSE ResolveDeferred(f.expr, here)[1]) % 2^f.width

\* Most significant field first, as `value << width | packed`.
Concatenated(ws, vs) ==
    FoldLeft(LAMBDA acc, i : acc * 2^ws[i] + vs[i], 0, [i \in DOMAIN vs |-> i])

\* `to_bytes`: big-endian, and never shorter than BigInt's own encoding,
\* which is one byte for zero.
ToBytes(v, n) ==
    LET len == IF n = 0 THEN 1 ELSE n IN [i \in 1..len |-> (v \div 256^(len - i)) % 256]

FromBytes(bs) == FoldLeft(LAMBDA acc, b : acc * 256 + b, 0, bs)

ReverseBytes(v, n) == FromBytes(Reverse(ToBytes(v, n)))

GroupValue(g, here) ==
    LET v == Concatenated([i \in DOMAIN g.fields |-> g.fields[i].width],
                          [i \in DOMAIN g.fields |-> FieldValue(g.fields[i], here)])
    IN  IF g.little THEN ReverseBytes(v, g.declared \div 8) ELSE v

PackedBytes(v, here) ==
    ToBytes(Concatenated([i \in DOMAIN v.groups |-> GroupBits(v.groups[i])],
                         [i \in DOMAIN v.groups |-> GroupValue(v.groups[i], here)]),
            CeilDiv(ValueBits(v), 8))

\* What stops a value being packed: a field without a number, still
\* deferred or not to be resolved, or a LittleEndian whose width is no
\* number, wrong, or not one of whole bytes.
FieldRefused(f, here) ==
    IF f.kind = "bits" THEN f.value = NoNumber ELSE ResolveDeferred(f.expr, here) = <<>>

Unpackable(v, here) ==
    \E g \in Range(v.groups) :
        \/ g.little /\ (GroupBits(g) # g.declared \/ g.declared % 8 # 0)
        \/ \E f \in Range(g.fields) : FieldRefused(f, here)

Zeros(n) == [i \in 1..n |-> 0]

---------------------------------------------------------------------------
Init ==
    /\ stream \in StreamSpace
    /\ phase = "widths"
    /\ offsets = <<0>>
    /\ widths = <<>>
    /\ bytes = <<>>
    /\ starts = <<>>
    /\ padTo = <<>>
    /\ error = "none"

Fail(why) == phase' = "failed" /\ error' = why

\* One entry of the first pass.
MeasureEntry ==
    /\ phase = "widths" /\ Len(widths) < Len(stream)
    /\ LET v == stream[Len(widths) + 1] IN
       IF Misplaced(v)
       THEN Fail("unmeasurable") /\ UNCHANGED <<widths, offsets>>
       ELSE /\ widths' = Append(widths, WidthOf(v, Offset))
            /\ offsets' = Append(offsets, Offset + WidthOf(v, Offset))
            /\ UNCHANGED <<phase, error>>
    /\ UNCHANGED <<stream, bytes, starts, padTo>>

AllMeasured ==
    /\ phase = "widths" /\ Len(widths) = Len(stream)
    /\ phase' = "pack"
    /\ UNCHANGED <<stream, offsets, widths, bytes, starts, padTo, error>>

Current   == stream[Len(starts) + 1]
HereIndex == Len(starts)
Packing   == phase = "pack" /\ Len(starts) < Len(stream)

PackAlign ==
    /\ Packing /\ Current.kind = "align"
    /\ bytes' = bytes \o Zeros(widths[HereIndex + 1])
    /\ starts' = Append(starts, Len(bytes))
    /\ UNCHANGED <<stream, phase, offsets, widths, padTo, error>>

NotePadImage ==
    /\ Packing /\ Current.kind = "pad"
    /\ padTo' = Append(padTo, Current.n)
    /\ starts' = Append(starts, Len(bytes))
    /\ UNCHANGED <<stream, phase, offsets, widths, bytes, error>>

PackValue ==
    /\ Packing /\ Current.kind = "data"
    /\ IF Unpackable(Current, HereIndex)
       THEN Fail("unpackable") /\ UNCHANGED <<bytes, starts>>
       ELSE /\ bytes' = bytes \o PackedBytes(Current, HereIndex)
            /\ starts' = Append(starts, Len(bytes))
            /\ UNCHANGED <<phase, error>>
    /\ UNCHANGED <<stream, offsets, widths, padTo>>

AllPacked ==
    /\ phase = "pack" /\ Len(starts) = Len(stream)
    /\ phase' = "pad"
    /\ starts' = Append(starts, Len(bytes))
    /\ UNCHANGED <<stream, offsets, widths, bytes, padTo, error>>

PaddedTo(bs, n) == bs \o Zeros(CeilDiv(Len(bs), n) * n - Len(bs))

PadImage ==
    /\ phase = "pad" /\ padTo # <<>>
    /\ bytes' = PaddedTo(bytes, Head(padTo))
    /\ padTo' = Tail(padTo)
    /\ UNCHANGED <<stream, phase, offsets, widths, starts, error>>

Packed ==
    /\ phase = "pad" /\ padTo = <<>>
    /\ phase' = "done"
    /\ UNCHANGED <<stream, offsets, widths, bytes, starts, padTo, error>>

Stopped == phase \in {"done", "failed"} /\ UNCHANGED vars

Next ==
    \/ MeasureEntry \/ AllMeasured
    \/ PackAlign \/ NotePadImage \/ PackValue \/ AllPacked
    \/ PadImage \/ Packed
    \/ Stopped

Spec     == Init /\ [][Next]_vars
---------------------------------------------------------------------------
(* Properties.                                                             *)

TypeOK ==
    /\ stream \in Seq(Value)
    /\ phase \in {"widths", "pack", "pad", "done", "failed"}
    /\ widths \in Seq(Nat) /\ Len(widths) <= Len(stream)
    /\ offsets \in Seq(Nat) /\ Len(offsets) = Len(widths) + 1
    /\ bytes \in Seq(0..255)
    /\ starts \in Seq(Nat) /\ Len(starts) <= Len(stream) + 1
    /\ padTo \in Seq(Nat \ {0})
    /\ error \in {"none", "unmeasurable", "unpackable"}
    /\ (error # "none") = (phase = "failed")

IsEmptyValue(v) == v.kind = "data" /\ ValueBits(v) = 0
NoEmptyValue    == \A k \in DOMAIN stream : ~IsEmptyValue(stream[k])

\* Each pass places every entry, and the end of the image, on the same byte.
PassesAgree == \A k \in DOMAIN starts : starts[k] = offsets[k]

\* The two passes agree on every stream whose values all have a width.
WidthsMatchBytes == NoEmptyValue => PassesAgree

\* What follows an Align<n> really starts at a multiple of n bytes.
AlignedStart(k) == stream[k].kind = "align" => starts[k + 1] % stream[k].n = 0
AlignAligns ==
    NoEmptyValue => \A k \in DOMAIN stream : k + 1 \in DOMAIN starts => AlignedStart(k)

(* The reference: bits written out one by one, distances read off where    *)
(* the entries are (place), and no errors on the way.                      *)

FromBits(bits) == FoldLeft(LAMBDA acc, b : 2 * acc + b, 0, bits)
BitsOf(v, w) == [i \in 1..w |-> (v \div 2^(w - i)) % 2]

Positions == 0..Len(stream)
Distance(place, from, to) ==
    IF {from, to} \subseteq Positions THEN place[to + 1] - place[from + 1] ELSE 0

NodeMeans(node, means, place, here) ==
    CASE node.kind = "leaf" /\ node.n # NoNumber -> node.n
      [] node.kind = "here" -> here
      [] node.kind = "op" /\ node.op = "Span" -> Distance(place, means[node.left], means[node.right])
      [] node.kind = "op" /\ node.op \in Operator \ {"Span"} ->
             Arithmetic(node.op, means[node.left], means[node.right])
      [] OTHER -> 0

Means(e, place, here) ==
    LET means[i \in 1..Len(e)] == NodeMeans(e[i], means, place, here) IN means

FieldBits(f, here) ==
    BitsOf(IF f.kind = "bits" THEN f.value ELSE Means(f.expr, starts, here)[Len(f.expr)], f.width)

GroupBitString(g, here) ==
    LET bits == FlattenSeq([i \in DOMAIN g.fields |-> FieldBits(g.fields[i], here)])
        n    == Len(bits) \div 8
    IN  IF g.little
        THEN [i \in DOMAIN bits |-> bits[8 * (n - 1 - ((i - 1) \div 8)) + ((i - 1) % 8) + 1]]
        ELSE bits

ReferenceBytes(v, here) ==
    LET bits   == FlattenSeq([i \in DOMAIN v.groups |-> GroupBitString(v.groups[i], here)])
        whole  == CeilDiv(Len(bits), 8)
        padded == Zeros(8 * whole - Len(bits)) \o bits
    IN  [i \in 1..whole |-> FromBits(SubSeq(padded, 8 * i - 7, 8 * i))]

\* In the finished image each value's bytes are its own, at its own place,
\* and a span is the number of image bytes that lie between its endpoints.
BytesMean ==
    phase = "done" /\ NoEmptyValue =>
        \A k \in DOMAIN stream : stream[k].kind = "data" =>
            SubSeq(bytes, starts[k] + 1, starts[k + 1]) = ReferenceBytes(stream[k], k - 1)

\* A node is in order by itself, whatever surrounds it: it is well-formed,
\* and as a span leads from one position of the stream to another.
NodeInOrder(node, means) ==
    CASE node.kind = "leaf" -> node.n # NoNumber
      [] node.kind = "op"   -> /\ node.op # "other"
                               /\ node.op = "Span" => {means[node.left], means[node.right]} \subseteq Positions
      [] OTHER              -> node.kind = "here"

FieldInOrder(f, here) ==
    CASE f.kind = "bits"       -> f.value # NoNumber
      [] f.kind = "positioned" ->
             \A i \in 1..Len(f.expr) : NodeInOrder(f.expr[i], Means(f.expr, offsets, here))

\* An entry the second pass can pack.
EntryInOrder(v, here) ==
    v.kind = "data" =>
        \A g \in Range(v.groups) :
            /\ g.little => GroupBits(g) = g.declared /\ GroupBits(g) % 8 = 0
            /\ \A f \in Range(g.fields) : FieldInOrder(f, here)

\* The image is packed exactly when every entry has a size, and every part
\* of every value is in order: of an expression all its nodes are.
WellFormed ==
    /\ \A k \in 1..Len(stream) : ~Misplaced(stream[k])
    /\ \A k \in 1..Len(stream) : EntryInOrder(stream[k], k - 1)

PacksWhenWellFormed ==
    /\ phase = "done" => WellFormed
    /\ phase = "failed" => ~WellFormed

PadSizes == {stream[k].n : k \in {k \in DOMAIN stream : stream[k].kind = "pad"}}
Divides(m, n) == n % m = 0

\* Entry k is the last of the first n to ask for padding.
LastPad(k, n) == stream[k].kind = "pad" /\ \A j \in (k + 1)..n : stream[j].kind # "pad"

\* Padding comes after everything else: it moves no entry and adds only
\* zeros.  Of several sizes asked for, the image is a multiple of the last;
\* and if one of them is a multiple of the others, the least multiple of it
\* that holds every entry, in whatever order they were asked for.
PaddingIsMinimal ==
    phase = "done" =>
        LET size == starts[Len(stream) + 1] IN
        /\ \A i \in (size + 1)..Len(bytes) : bytes[i] = 0
        /\ \A k \in 1..Len(stream) : LastPad(k, Len(stream)) => Divides(stream[k].n, Len(bytes))
        /\ \A n \in PadSizes : (\A m \in PadSizes : Divides(m, n)) =>
               Divides(n, Len(bytes)) /\ Len(bytes) < size + n
        /\ PadSizes = {} => Len(bytes) = size

\* Padding, of an entry or of the image, is in its place and no more than
\* what was asked for.
PaddingAligns == AlignAligns /\ PaddingIsMinimal

\* What the docs of align say: it pads so that the next value starts at a
\* multiple of n bytes from the start of the image, whatever was emitted.
EveryAlignAligns == \A k \in DOMAIN stream : k + 1 \in DOMAIN starts => AlignedStart(k)

\* What the docs of pad_image say: it pads the finished image to a multiple
\* of n bytes, wherever it is written.
EveryPadPads == phase = "done" => \A n \in PadSizes : Divides(n, Len(bytes))

===========================================================================
