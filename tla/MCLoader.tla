------------------------------ MODULE MCLoader ----------------------------
(* The loader for TLC: the import graphs over three files, the ways one    *)
(* name is declared and passed on in a diamond of four, and the ways       *)
(* parser seeds meet.                                                      *)
EXTENDS Visibility

CONSTANTS M, A, B, C, P, Q

MCFiles    == {M, A, B, C}
MCNames    == {"n", "k"}
MCPatterns == {P, Q}

From(form, names, to, pub, span) ==
    [form |-> form, names |-> names, to |-> to, pub |-> pub, span |-> span]
Star(g, pub, span)  == From("star", <<>>, <<g>>, pub, span)
Name(g, pub, span)  == From("names", <<"n">>, <<g>>, pub, span)
Missing(span)       == From("star", <<>>, <<>>, FALSE, span)
Package(gs, span)   == From("package", <<>>, gs, FALSE, span)
EitherForm(g, span) == {Star(g, FALSE, span), Name(g, FALSE, span)}
AnyForm(g, span)    == EitherForm(g, span) \cup {Star(g, TRUE, span), Name(g, TRUE, span)}

Text(imports, decls) ==
    [reads |-> TRUE, parses |-> TRUE, imports |-> imports, seen |-> 0, needs |-> {},
     decls |-> decls, uses |-> {}, overrides |-> NoNames]
World(m, a, b, c) == [f \in MCFiles |-> CASE f = M -> m [] f = A -> a [] f = B -> b [] f = C -> c]

D(kind, pub) == [name |-> "n", kind |-> kind, pub |-> pub]
Nothing    == <<>>
PubDecl    == <<D("decl", TRUE)>>
PrivDecl   == <<D("decl", FALSE)>>
PubMacro   == <<D("macro", TRUE)>>
TwoMacros  == <<D("macro", TRUE), D("macro", FALSE)>>
PrivMacro  == <<D("macro", FALSE)>>
PubLabel_  == <<D("label", TRUE)>>
Clash      == <<D("macro", TRUE), D("label", FALSE)>>

\* Import graphs: up to two imports each (B one), with cycles, repeats,
\* missing and unreadable files.
ImportLists == UNION {[1..k -> {M, A, B, NoFile}] : k \in 0..2}
Graph(list) == [i \in DOMAIN list |-> IF list[i] = NoFile THEN Missing(i) ELSE Star(list[i], FALSE, i)]
Graphs3     == {World(Text(Graph(m), <<>>), Text(Graph(a), PubDecl), Text(Graph(b), <<>>), Text(<<>>, <<>>)) :
                    m, a \in ImportLists, b \in {l \in ImportLists : Len(l) <= 1}}
Unread      == {[w EXCEPT ![B].reads = FALSE] : w \in {w \in Graphs3 : w[B].imports = <<>>}}
Unparsed    == {[w EXCEPT ![A].parses = FALSE, ![A].seen = 1] :
                    w \in {w \in Graphs3 : Len(w[A].imports) = 2 /\ w[M].imports = Graph(<<A>>)}}
GraphWorlds == Graphs3 \cup Unread \cup Unparsed

\* One name in a diamond: M imports A and B, which may import C.
MainImports == {<<x, y>> : x \in EitherForm(A, 1), y \in EitherForm(B, 2)} \cup {<<Package(<<A, B>>, 1)>>}
Upstream(s) == {<<>>} \cup {<<x>> : x \in AnyForm(C, s)}
Mains       == {[Text(i, d) EXCEPT !.uses = u] : i \in MainImports, d \in {Nothing, PrivMacro}, u \in {{}, {"n"}}}
Diamonds    == {World(m, Text(i, a), Text(j, b), Text(<<>>, c)) :
                    m \in {m \in Mains : m.uses = {} => m.decls = Nothing},
                    i \in Upstream(3), j \in {<<>>, <<Star(C, TRUE, 4)>>, <<Name(C, FALSE, 4)>>},
                    a \in {PubDecl, PubMacro, Nothing}, b \in {Clash, PubMacro, PrivDecl},
                    c \in {Nothing, PubDecl, PrivDecl, TwoMacros, PubLabel_}}

\* Overrides and signatures that meet, and text that needs a signature.
Overriding(d, p) == [Text(<<>>, d) EXCEPT !.overrides = [n \in {"n"} |-> p]]
Libraries == {Text(<<>>, PubDecl), Text(<<>>, PubMacro)} \cup {Overriding(PubMacro, p) : p \in MCPatterns}
             \cup {Overriding(PrivMacro, P)}
SeedMains == {[Text(i, PrivMacro) EXCEPT !.overrides = o] :
                  i \in MainImports, o \in {NoNames, [n \in {"n"} |-> P]}}
             \cup {[Text(i, <<>>) EXCEPT !.needs = {"n"}, !.seen = s] : i \in {<<x, y>> : x \in EitherForm(A, 1), y \in EitherForm(B, 2)}, s \in 0..2}
Republishing == {Text(<<x, y>>, d) : x \in {Star(A, TRUE, 1), Name(A, TRUE, 1)}, y \in {Star(B, TRUE, 2), Name(B, TRUE, 2)},
                                     d \in {Nothing, PubMacro}}
\* An import discovery misses, of a file that is loaded all the same.
Hurried    == [Text(<<Star(A, FALSE, 1), Star(B, FALSE, 2)>>, PubMacro) EXCEPT !.needs = {"k"}, !.seen = 1]
GivingK(p) == [Text(<<Name(B, FALSE, 3)>>, PubMacro \o <<[name |-> "k", kind |-> "decl", pub |-> TRUE]>>) EXCEPT
                   !.overrides = [n \in {"n"} |-> p]]
SeedWorlds == {World(m, a, b, Text(<<>>, <<>>)) : m \in SeedMains \cup Republishing, a \in Libraries, b \in Libraries}
              \cup {World(Hurried, GivingK(P), Overriding(PubMacro, q), Text(<<>>, <<>>)) : q \in MCPatterns}

MCWorldSpace == GraphWorlds \cup Diamonds \cup SeedWorlds

\* Worlds for the disagreements with the documents: the first is for
\* NeverPanics; as WorldSpace, the others break PrivateOverloadsStayPrivate
\* and NamesKeepTheirMeaning.
MCSeedSpace   == SeedWorlds
MCDiamonds    == Diamonds
MCOwnLabels   == {World(Text(<<Star(A, FALSE, 1)>>, m), [Text(<<>>, <<[name |-> "k", kind |-> "macro", pub |-> TRUE]>> \o a) EXCEPT !.uses = {"n"}],
                        Text(<<>>, <<>>), Text(<<>>, <<>>)) :
                     m \in {Nothing, PubLabel_}, a \in {Nothing, PubLabel_, PubMacro}}

===========================================================================
