------------------------------- MODULE MCLink -----------------------------
(* Link for TLC: a file holding references linked with a plain one in      *)
(* either order, one file with a reopened section, and label clashes       *)
(* between two and three files.                                            *)
EXTENDS Link

CONSTANTS A, B, Text, Data

MCModules  == {A, B}
MCSections == {Text, Data}
MCSymbols  == {"f", "g"}

PosAt(n)   == [pos |-> TRUE, ref |-> AsInt(n)]
Plain(n)   == [pos |-> FALSE, ref |-> AsInt(n)]
Ext(m, s)  == [pos |-> FALSE, ref |-> [kind |-> "deferred", module |-> m, symbol |-> s]]
PosExt(m, s) == [Ext(m, s) EXCEPT !.pos = TRUE]

\* One representative of each way a value can refer, errors among them.
RefValues ==
    {<<>>, <<PosAt(0)>>, <<PosAt(1), Plain(1)>>, <<PosAt(2)>>,
     <<PosExt(B, "f")>>, <<Ext(B, "g"), PosAt(3)>>, <<Ext(A, "f")>>,
     <<Ext(LinkModule, "image_start"), PosExt(LinkModule, "image_end")>>,
     <<Ext(LinkModule, "f")>>, <<PosAt(-1)>>}

SeqsOf(S, n) == UNION {[1..k -> S] : k \in 0..n}
EntriesOver(vals, n) == SeqsOf([section : MCSections, value : vals], n)
LabelTables(names, n) == UNION {[S -> 0..n] : S \in SUBSET names}

Files(m, vals, names, n) ==
    {[module |-> m, entries |-> es, labels |-> ls] : es \in EntriesOver(vals, n), ls \in LabelTables(names, n)}
Compiled(f) == \A s \in DOMAIN f.labels : f.labels[s] <= Len(f.entries)

Referring == {f \in Files(A, RefValues, {}, 2) :
                 Len(f.entries) = 2 => f.entries[2].value \in {<<>>, <<PosAt(1), Plain(1)>>, <<PosExt(B, "f")>>}}
Plainly   == {f \in Files(B, {<<>>}, {"f"}, 2) : Compiled(f)}
Reopened  == {f \in Files(A, {<<>>, <<PosAt(2)>>, <<PosAt(3)>>, <<Ext(A, "g")>>}, {"g"}, 3) : Compiled(f) /\ Len(f.entries) = 3}
Clashing  == {f \in UNION {Files(m, {<<Ext(A, "f")>>}, MCSymbols, 1) : m \in MCModules} :
                 Compiled(f) /\ \A j \in DOMAIN f.entries : f.entries[j].section = Text}

MCClashingSpace == {<<f, g>> : f \in Clashing, g \in Clashing}

\* Up to three files, one of them split over two inputs of a module.
Split == {<<f, g, p>> : f \in {x \in Clashing : x.module = A},
                        g \in {x \in Clashing : x.module = A /\ Len(x.entries) = 1},
                        p \in {x \in Plainly : Len(x.entries) <= 1}}

MCInputSpace == UNION {
    {<<r, p>> : r \in Referring, p \in Plainly}, {<<p, r>> : r \in Referring, p \in Plainly},
    {<<f>> : f \in Reopened}, MCClashingSpace, Split}

===========================================================================
