----------------------------- MODULE Visibility ---------------------------
(* What the loader's names promise, stated on the import graph itself: who *)
(* can see which declaration, when the graph loads, and that the flattened *)
(* program holds whatever its names refer to.                              *)
EXTENDS Loader

FileOf(id)   == CHOOSE f \in DOMAIN cache : cache[f].id = id
Origins(b)   == {FileOf(id) : id \in b.of}

---------------------------------------------------------------------------
(* The import graph.                                                       *)

\* f imports g by an import that carries name n, publicly if pub is asked.
Carries(f, g, n, pub) ==
    \E import \in ToSet(Imports(f)) :
        g \in ToSet(import.to) /\ Wanted(import, n) /\ (pub => import.pub)

Declares(f, n, kinds) == \E d \in ToSet(files[f].decls) : d.name = n /\ d.kind \in kinds /\ d.pub

\* The files reached from f along edges, which are pairs of files: those in
\* every set that holds f and is closed under the edges.
Closed(S, edges)      == \A e \in edges : e[1] \in S => e[2] \in S
ReachedFrom(f, edges) == {g \in Files : \A S \in SUBSET Files : f \in S /\ Closed(S, edges) => g \in S}

\* Who passes n on from whom.
Reexporting(n) == {p \in Files \X Files : Carries(p[1], p[2], n, TRUE)}

\* The files whose public n an import of f gives access to; a label only
\* travels from its own file by name.
LabelImports(f, n, pub) ==
    {g \in Files : Declares(g, n, {"label"}) /\
        \E import \in ToSet(Imports(f)) :
            import.form = "names" /\ n \in ToSet(import.names) /\ g \in ToSet(import.to) /\ (pub => import.pub)}

\* What a file gives access to by its exports, what the imports of f bring,
\* and what f sees.
Offered(h, n) ==
    LET onward == ReachedFrom(h, Reexporting(n)) IN
    {g \in onward : Declares(g, n, {"decl", "macro"})} \cup UNION {LabelImports(g, n, TRUE) : g \in onward}

Brought(f, n, pub) ==
    LabelImports(f, n, pub) \cup UNION {Offered(h, n) : h \in {h \in Files : Carries(f, h, n, pub)}}
Visible(f, n) == Brought(f, n, FALSE)

Discoverable == {p \in Files \X Files : \E i \in 1..Discovered(p[1]) : p[2] \in ToSet(Imports(p[1])[i].to)}
Reached      == ReachedFrom(Entry, Discoverable)
Cyclic       == LET edges == Discoverable IN
                \E e \in edges : e[1] \in ReachedFrom(Entry, edges) \cap ReachedFrom(e[2], edges)

---------------------------------------------------------------------------
(* Properties.                                                             *)

Settled == phase = "done"

\* A loaded file's scope has exactly the names its imports make visible and
\* its own, and each means declarations of files that chains of imports,
\* public after the first, lead to. Declarations are told apart by their file,
\* not overload by overload: which overloads of a public name come along,
\* PrivateOverloadsStayPrivate asks (MCLoader).
ScopeIsVisibility ==
    Settled => \A f \in DOMAIN cache : \A n \in Identifiers :
        LET visible == Visible(f, n)
            own     == \E d \in ToSet(files[f].decls) : d.name = n IN
        /\ n \in DOMAIN cache[f].scope <=> own \/ visible # {}
        /\ n \in DOMAIN cache[f].scope =>
               Origins(cache[f].scope[n]) \subseteq visible \cup (IF own THEN {f} ELSE {})

\* A cycle is reported exactly when there is one to meet, the files still
\* being loaded contain it, and a program holds every file it can reach.
CyclesReported ==
    /\ problem = "cyclic_import" =>
           /\ Cyclic
           /\ \E k \in 1..Len(stack) :
                  /\ stack[k].file = asked
                  /\ \A j \in k..Len(stack) : Target(stack[j]) = stack[IF j = Len(stack) THEN k ELSE j + 1].file
    /\ Settled => ~Cyclic /\ DOMAIN cache = Reached

Count(kind, n, id) ==
    Cardinality({i \in DOMAIN program : program[i] = [kind |-> kind, name |-> n, module |-> id]})
Declared(kind, f, n) ==
    Cardinality({i \in DOMAIN files[f].decls : files[f].decls[i].name = n /\ files[f].decls[i].kind = kind})

\* The flattened program has every declaration of every module as often as
\* its file has it, each imported label once, and so whatever a reference
\* was rewritten to; the labels of libraries aside.
ProgramIsClosed ==
    Settled =>
        /\ \A f \in DOMAIN cache : \A n \in Identifiers : \A kind \in {"decl", "macro"} :
               Count(kind, n, cache[f].id) = Declared(kind, f, n)
        /\ \A f \in DOMAIN cache : \A n \in DOMAIN cache[f].scope :
               LET b == cache[f].scope[n] IN
               /\ b.kind = "decl"   => \A id \in b.of : Count("decl", n, id) = 1
               /\ b.kind = "macros" => \A id \in b.of : Count("macro", n, id) >= 1
               /\ b.kind = "extern" => \A id \in b.of : Count("extern", n, id) = 1

---------------------------------------------------------------------------
(* What the documentation says, and the code does not do.                  *)

\* visibility.md: a declaration without `pub` is private to its file.
PrivateOverloadsStayPrivate ==
    Settled => \A f \in DOMAIN cache : \A n \in DOMAIN cache[f].scope :
        cache[f].scope[n].kind = "macros" =>
            \A g \in Origins(cache[f].scope[n]) \ {f} : \A d \in ToSet(files[g].decls) :
                d.name = n => d.pub

\* imports.md: a name always means what it meant in the file that wrote it.
NamesKeepTheirMeaning ==
    Settled => \A f \in DOMAIN cache : \A n \in files[f].uses \cap DOMAIN cache[f].scope :
        cache[f].scope[n].kind = "label" => Count("label", n, cache[f].id) = 1

===========================================================================
