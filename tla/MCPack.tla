------------------------------- MODULE MCPack -----------------------------
(* Pack for TLC: streams of up to MaxEntries values, from one              *)
(* representative of each way a value is measured, packed or refused.      *)
EXTENDS Pack

CONSTANT MaxEntries

(* Expressions.                                                            *)
Leaf(n)   == <<[kind |-> "leaf", n |-> n]>>
Here      == <<[kind |-> "here"]>>
Malformed == <<[kind |-> "malformed"]>>
Moved(node, by) == IF node.kind = "op" THEN [node EXCEPT !.left = @ + by, !.right = @ + by] ELSE node
Op(op, a, b) ==
    a \o [i \in DOMAIN b |-> Moved(b[i], Len(a))]
      \o <<[kind |-> "op", op |-> op, left |-> Len(a), right |-> Len(a) + Len(b)]>>

(* Values.                                                                 *)
Bits(w, n)      == [kind |-> "bits", width |-> w, value |-> n]
Positioned(w, e) == [kind |-> "positioned", width |-> w, expr |-> e]
Plain(fs)       == [little |-> FALSE, declared |-> 0, fields |-> fs]
Little(w, fs)   == [little |-> TRUE, declared |-> w, fields |-> fs]
Data(gs)        == [kind |-> "data", groups |-> gs]
Deferred(e)     == Data(<<Plain(<<Positioned(8, e)>>)>>)
Align(n)        == [kind |-> "align", n |-> n]
PadTo(n)        == [kind |-> "pad", n |-> n]

Byte     == Data(<<Plain(<<Bits(8, 171)>>)>>)
Word12   == Data(<<Plain(<<Bits(4, 165), Bits(8, 60)>>)>>)
Empty    == Data(<<>>)
Branch(a, b) == Data(<<Plain(<<Bits(4, 9), Positioned(12, Op("Span", a, b))>>)>>)
LittleBranch(t) ==
    Data(<<Little(24, <<Bits(8, 1), Positioned(16, Op("Add", Op("Span", Here, Leaf(t)), Leaf(-1)))>>),
           Plain(<<Bits(4, 7)>>)>>)
Index    == Data(<<Plain(<<Positioned(8, Here), Positioned(8, Leaf(-2))>>)>>)

\* Distances scaled, shifted and masked, backwards ones among them; the
\* shift by less than nothing; a span up to a position worked out.
Back     == Op("Span", Here, Leaf(0))
Scaled   == Data(<<Plain(<<Positioned(8, Op("Mul", Op("Sub", Leaf(2), Here), Leaf(4))),
                           Positioned(8, Op("Shr", Back, Leaf(1)))>>)>>)
Masked   == Data(<<Plain(<<Positioned(8, Op("Band", Back, Leaf(-4))),
                           Positioned(8, Op("Shr", Leaf(6), Leaf(-1)))>>)>>)
AfterHere == Deferred(Op("Span", Leaf(0), Op("Add", Here, Leaf(1))))

GoodValues ==
    {Byte, Word12, Empty, Index, Align(1), Align(2), Align(4), PadTo(2), PadTo(3), PadTo(4)}
    \cup {Branch(Here, Leaf(3)), Branch(Leaf(2), Leaf(1)), Branch(Leaf(0), Leaf(3)), Branch(Here, Leaf(1))}
    \cup {LittleBranch(t) : t \in {0, 2}}
    \cup {Scaled, Masked, AfterHere}

BadValues ==
    {[kind |-> "opaque"], Align(0), PadTo(0), Branch(Here, Leaf(9)),
     Data(<<Little(8, <<Bits(16, 5)>>)>>), Data(<<Little(12, <<Bits(12, 5)>>)>>),
     Data(<<Little(NoNumber, <<Bits(8, 5)>>)>>), Data(<<Plain(<<Bits(8, 1), Bits(8, NoNumber)>>)>>)}
    \cup {Deferred(e) : e \in {Leaf(NoNumber), Op("other", Here, Leaf(1)),
                               Op("Add", Op("Sub", Malformed, Here), Leaf(1)),
                               Op("Span", Op("Sub", Here, Leaf(2)), Leaf(1))}}

Streams(values) == UNION {[1..k -> values] : k \in 0..MaxEntries}
MCStreamSpace == Streams(GoodValues \cup BadValues)

\* As StreamSpace, these break EveryAlignAligns.
MCEmptyStreams == Streams({Byte, Empty, Align(2)})

\* As StreamSpace, these break EveryPadPads.
MCTwoPads == Streams({Byte, PadTo(2), PadTo(3)})

===========================================================================
