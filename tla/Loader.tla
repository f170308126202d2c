------------------------------- MODULE Loader -----------------------------
(* The module loader (src/src/loader.rs): from an entry file it loads the  *)
(* import graph depth first, each file once, gives every file its names    *)
(* and its parser seed, and then splices all declarations into one         *)
(* program.  `stack` is LoadState.stack and stands for the recursion of    *)
(* `load_module`; `asked` is the path the innermost call was given, until  *)
(* it is pushed or its seed is merged; `walk` stands for the recursion of  *)
(* `collect_declarations`.                                                 *)
(*                                                                         *)
(* A file is what its text says: its imports with the files they resolve   *)
(* to, its top-level declarations after unrolling, the names it uses.      *)
(* Imports are taken to precede declarations in a file, which only         *)
(* matters to the order of the flattened program; a file's text may need   *)
(* imported signatures before its later imports can be read.               *)
EXTENDS Names, SequencesExt, FiniteSets

CONSTANTS
    WorldSpace,  \* the file trees considered: functions from Files
    Files,       \* canonical paths
    NoFile,      \* no path
    Entry,       \* the file compiled
    Identifiers, \* names
    Patterns     \* syntax override patterns

Import == [form  : {"names", "star", "package"},
           names : Seq(Identifiers),  \* of form "names"
           to    : Seq(Files),        \* what it resolves to; <<>>: nothing
           pub   : BOOLEAN,
           span  : Nat]
Decl   == [name : Identifiers, kind : {"decl", "macro", "label"}, pub : BOOLEAN]

IsFile(file) ==
    /\ DOMAIN file = {"reads", "parses", "imports", "seen", "needs", "decls", "uses", "overrides"}
    /\ file.reads \in BOOLEAN /\ file.parses \in BOOLEAN
    /\ file.imports \in Seq(Import)
    /\ \A i \in DOMAIN file.imports : file.imports[i].form # "package" => Len(file.imports[i].to) <= 1
    /\ file.seen \in 0..Len(file.imports)  \* imports before the text that needs signatures
    /\ file.needs \subseteq Identifiers    \* the signatures that text needs
    /\ file.decls \in Seq(Decl)
    /\ file.uses \subseteq Identifiers
    /\ DOMAIN file.overrides \subseteq Identifiers
    /\ \A n \in DOMAIN file.overrides : file.overrides[n] \in Patterns

ASSUME WorldAssumption == \A w \in WorldSpace : DOMAIN w = Files /\ \A f \in Files : IsFile(w[f])

ASSUME PathAssumption == NoFile \notin Files /\ Entry \in Files

---------------------------------------------------------------------------
VARIABLES
    files,    \* the file tree, fixed
    phase,    \* "loading", "splicing", "done", "failed" or "panicked"
    problem,  \* what ended the load
    asked,    \* the path `load_module` was called with
    stack,    \* the files being loaded, each with its place and its seed
    cache,    \* the loaded modules
    walk,     \* the files being spliced, each with its place
    spliced,  \* the files whose splicing has begun
    program   \* the flattened program

vars == <<files, phase, problem, asked, stack, cache, walk, spliced, program>>

Loading     == <<asked, stack, cache>>
Splicing    == <<walk, spliced, program>>

Place(f)    == [file |-> f, imp |-> 1, child |-> 1]
Frame(f)    == [file |-> f, imp |-> 1, child |-> 1, sigs |-> NoNames, overrides |-> NoNames, conflicts |-> {}]
Top         == stack[Len(stack)]
Imports(f)  == files[f].imports
Current(p)  == Imports(p.file)[p.imp]
Target(p)   == Current(p).to[p.child]

\* A slip of the definition that follows, for testing the properties.
NotAdvanced(p)   == p

Advanced(p) == IF p.child < Len(Current(p).to) THEN [p EXCEPT !.child = @ + 1]
               ELSE [p EXCEPT !.imp = @ + 1, !.child = 1]

\* How many imports `discover_imports` sees: it parses with no seed and
\* stops at the first statement it cannot read.
Discovered(f) == IF files[f].parses /\ files[f].needs = {} THEN Len(Imports(f)) ELSE files[f].seen

OnStack(f) == \E k \in 1..Len(stack) : stack[k].file = f

Init ==
    /\ files \in WorldSpace
    /\ phase = "loading" /\ problem = "none"
    /\ asked = Entry /\ stack = <<>> /\ cache = [f \in {} |-> 0]
    /\ walk = <<>> /\ spliced = {} /\ program = <<>>

Fail(why) == phase' = "failed" /\ problem' = why

---------------------------------------------------------------------------
(* `load_module` up to the parse.                                          *)

Wanted(import, n) == import.form = "names" => n \in ToSet(import.names)
SeedFor(import, t) == Only(t, {n \in DOMAIN t : Wanted(import, n)})

\* `merge_seed`: the last signature wins, the first override does.
MergeSeedUnchecked(frame, child) ==
    LET overrides == SeedFor(Current(frame), child.overrides) IN
    [frame EXCEPT !.sigs = Over(SeedFor(Current(frame), child.sigs), @),
                  !.overrides = Over(@, overrides)]

MergeSeed(frame, child) ==
    LET overrides == SeedFor(Current(frame), child.overrides) IN
    [frame EXCEPT !.sigs = Over(SeedFor(Current(frame), child.sigs), @),
                  !.overrides = Over(@, overrides),
                  !.conflicts = @ \cup {n \in DOMAIN overrides \cap DOMAIN frame.overrides :
                                           overrides[n] # frame.overrides[n]}]

AskForImport ==
    /\ phase = "loading" /\ asked = NoFile
    /\ Top.imp <= Discovered(Top.file)
    /\ IF Current(Top).to = <<>>
       THEN Fail("module_not_found") /\ UNCHANGED asked
       ELSE asked' = Target(Top) /\ UNCHANGED <<phase, problem>>
    /\ UNCHANGED <<files, stack, cache, Splicing>>

ReportRevisit ==
    /\ phase = "loading" /\ stack # <<>> /\ (asked \in DOMAIN cache \/ OnStack(asked))
    /\ Fail("cyclic_import")
    /\ UNCHANGED <<files, Loading, Splicing>>

ReportCycle ==
    /\ phase = "loading" /\ asked \in Files \ DOMAIN cache /\ OnStack(asked)
    /\ Fail("cyclic_import")
    /\ UNCHANGED <<files, Loading, Splicing>>

EnterModule ==
    /\ phase = "loading" /\ asked \in Files \ DOMAIN cache /\ ~OnStack(asked)
    /\ IF files[asked].reads
       THEN /\ stack' = Append(stack, Frame(asked))
            /\ asked' = NoFile
            /\ UNCHANGED <<phase, problem>>
       ELSE Fail("unreadable") /\ UNCHANGED <<stack, asked>>
    /\ UNCHANGED <<files, cache, Splicing>>

\* The import is loaded, now or before: its seed joins the importer's.
TakeSeed ==
    /\ phase = "loading" /\ asked \in DOMAIN cache /\ stack # <<>>
    /\ stack' = [stack EXCEPT ![Len(stack)] = Advanced(MergeSeed(Top, cache[asked]))]
    /\ asked' = NoFile
    /\ UNCHANGED <<files, phase, problem, cache, Splicing>>

---------------------------------------------------------------------------
(* `load_module` from the parse on: names, checks and exports.             *)

Named(f, kinds) == {n \in Identifiers : \E d \in ToSet(files[f].decls) : d.name = n /\ d.kind \in kinds}
OwnOverrides    == files[Top.file].overrides
SigsAfter       == Over([n \in Named(Top.file, {"decl"}) |-> Top.file], Top.sigs)
OverridesAfter  == Over(OwnOverrides, Top.overrides)

PubLabel(f, n) == \E d \in ToSet(files[f].decls) : d.name = n /\ d.kind = "label" /\ d.pub

\* `imported_bindings`.
NamedTable(import) ==
    LET target == cache[import.to[1]] IN
    [n \in ToSet(import.names) |->
        IF n \in DOMAIN target.exports THEN target.exports[n] ELSE ExternOf(target.id, import.span)]

Explicit(imports) ==
    [i \in DOMAIN imports |-> IF imports[i].form = "names" THEN NamedTable(imports[i]) ELSE NoNames]
Glob(imports) ==
    FlattenSeq([i \in DOMAIN imports |->
        IF imports[i].form = "names" THEN <<>>
        ELSE [k \in DOMAIN imports[i].to |-> cache[imports[i].to[k]].exports]])

Public(imports) == FlattenSeq([i \in DOMAIN imports |-> IF imports[i].pub THEN <<imports[i]>> ELSE <<>>])
ScopeOf(f)     == Combined(Explicit(Imports(f)), Glob(Imports(f)))
ReexportsAll(f) == ScopeOf(f)
Reexports(f)   == LET imports == Public(Imports(f)) IN Combined(Explicit(imports), Glob(imports))

\* Of the names of an import, those its target does not export are labels.
LabelsOf(import) ==
    LET target == cache[import.to[1]] IN
    FlattenSeq([k \in DOMAIN import.names |->
        IF import.names[k] \in DOMAIN target.exports THEN <<>>
        ELSE <<[kind |-> "extern", name |-> import.names[k], module |-> target.id]>>])
ExternLabels(f) ==
    FlattenSeq([i \in DOMAIN Imports(f) |->
        IF Imports(f)[i].form = "names" THEN LabelsOf(Imports(f)[i]) ELSE <<>>])

Own(f, id, decls) ==
    [n \in {d.name : d \in decls} |->
        LET d == CHOOSE d \in decls : d.name = n IN
        CASE d.kind = "decl"  -> DeclOf(id)
          [] d.kind = "macro" -> Macros({id})
          [] d.kind = "label" -> LabelOf(id)]
OwnNames(f, id)   == Own(f, id, ToSet(files[f].decls))
OwnExports(f, id) == Own(f, id, {d \in ToSet(files[f].decls) : d.pub /\ d.kind # "label"})

\* What is wrong with an import, in the order the loader finds out.  An
\* import `discover_imports` missed may name a module never loaded, and
\* indexing the cache with it panics.
ImportProblem(import) ==
    IF import.to = <<>> THEN "module_not_found"
    ELSE IF ~(ToSet(import.to) \subseteq DOMAIN cache) THEN "panic"
    ELSE IF import.form = "names" /\ \E n \in ToSet(import.names) :
              n \notin DOMAIN cache[import.to[1]].exports /\ ~PubLabel(import.to[1], n)
    THEN "unknown_name"
    ELSE "none"

Duplicated(f) ==
    \E i, j \in DOMAIN files[f].decls :
        LET d == files[f].decls[i]
            e == files[f].decls[j] IN
        i < j /\ d.name = e.name /\ ~(d.kind = "macro" /\ e.kind = "macro")

FullScope(f, id) == Shadow(OwnNames(f, id), ScopeOf(f))
Exports(f, id)   == Shadow(OwnExports(f, id), Reexports(f))

AmbiguousUse(f) ==
    LET scope == FullScope(f, 0) IN \E n \in files[f].uses \cap DOMAIN scope : scope[n].kind = "ambiguous"

\* Why the module on top of the stack cannot be loaded, "none" if it can.
ModuleProblem ==
    LET f == Top.file
        wrong == {i \in DOMAIN Imports(f) : ImportProblem(Imports(f)[i]) # "none"} IN
    IF ~files[f].parses \/ ~(files[f].needs \subseteq DOMAIN SigsAfter) THEN "parse"
    ELSE IF ~(Top.conflicts \subseteq DOMAIN OwnOverrides) THEN "conflicting_override"
    ELSE IF wrong # {} THEN ImportProblem(Imports(f)[CHOOSE i \in wrong : \A j \in wrong : i <= j])
    ELSE IF Duplicated(f) THEN "duplicate_name"
    ELSE IF AmbiguousUse(f) THEN "ambiguous_name"
    ELSE "none"

ImportsLoaded == phase = "loading" /\ asked = NoFile /\ Top.imp > Discovered(Top.file)

RejectModule ==
    /\ ImportsLoaded /\ ModuleProblem # "none"
    /\ phase' = IF ModuleProblem = "panic" THEN "panicked" ELSE "failed"
    /\ problem' = ModuleProblem
    /\ UNCHANGED <<files, Loading, Splicing>>

DepthAsId == Len(stack) - 1

NextId == Cardinality(DOMAIN cache)

FinishModule ==
    /\ ImportsLoaded /\ ModuleProblem = "none"
    /\ LET f       == Top.file
           exports == Exports(f, NextId)
           loaded  == [id        |-> NextId,
                       scope     |-> FullScope(f, NextId),
                       exports   |-> exports,
                       externs   |-> ExternLabels(f),
                       sigs      |-> Only(SigsAfter, DOMAIN exports),
                       overrides |-> Only(OverridesAfter, DOMAIN exports)] IN
       /\ cache' = [g \in DOMAIN cache \cup {f} |-> IF g = f THEN loaded ELSE cache[g]]
       /\ asked' = f
    /\ stack' = SubSeq(stack, 1, Len(stack) - 1)
    /\ UNCHANGED <<files, phase, problem, Splicing>>

---------------------------------------------------------------------------
(* `load_program_with_modules` and `collect_declarations`.                 *)

Kept(f, d) == d.kind # "label" \/ f = Entry
Items(f) ==
    FlattenSeq([i \in DOMAIN files[f].decls |->
        LET d == files[f].decls[i] IN
        IF Kept(f, d) THEN <<[kind |-> d.kind, name |-> d.name, module |-> cache[f].id]>> ELSE <<>>])
    \o cache[f].externs

\* Several modules may import one label; it is one declaration.
SeenLabel(items, i) == items[i].kind = "extern" /\ \E j \in 1..(i - 1) : items[j] = items[i]
OneExternEach(items) ==
    FlattenSeq([i \in DOMAIN items |-> IF SeenLabel(items, i) THEN <<>> ELSE <<items[i]>>])

StartSplicing ==
    /\ phase = "loading" /\ asked \in DOMAIN cache /\ stack = <<>>
    /\ phase' = "splicing"
    /\ walk' = <<Place(Entry)>> /\ spliced' = {Entry}
    /\ UNCHANGED <<files, problem, Loading, program>>

WalkTop == walk[Len(walk)]

SpliceImportAgain ==
    /\ phase = "splicing" /\ WalkTop.imp <= Len(Imports(WalkTop.file))
    /\ walk' = Append([walk EXCEPT ![Len(walk)] = Advanced(@)], Place(Target(WalkTop)))
    /\ spliced' = spliced \cup {Target(WalkTop)}
    /\ UNCHANGED <<files, phase, problem, Loading, program>>

SpliceImport ==
    /\ phase = "splicing" /\ WalkTop.imp <= Len(Imports(WalkTop.file))
    /\ LET here == [walk EXCEPT ![Len(walk)] = Advanced(@)] IN
       walk' = IF Target(WalkTop) \in spliced THEN here ELSE Append(here, Place(Target(WalkTop)))
    /\ spliced' = spliced \cup {Target(WalkTop)}
    /\ UNCHANGED <<files, phase, problem, Loading, program>>

SpliceModule ==
    /\ phase = "splicing" /\ WalkTop.imp > Len(Imports(WalkTop.file))
    /\ walk' = SubSeq(walk, 1, Len(walk) - 1)
    /\ IF Len(walk) = 1
       THEN program' = OneExternEach(program \o Items(WalkTop.file)) /\ phase' = "done"
       ELSE program' = program \o Items(WalkTop.file) /\ UNCHANGED phase
    /\ UNCHANGED <<files, problem, Loading, spliced>>

Stopped == phase \in {"done", "failed", "panicked"} /\ UNCHANGED vars

Next ==
    \/ AskForImport \/ ReportCycle \/ EnterModule \/ TakeSeed
    \/ RejectModule \/ FinishModule
    \/ StartSplicing \/ SpliceImport \/ SpliceModule
    \/ Stopped

Spec     == Init /\ [][Next]_vars
FairSpec == Spec /\ WF_vars(Next)

---------------------------------------------------------------------------
(* Properties of the recursion and its tables; what names may mean is in   *)
(* Visibility.                                                             *)

Module(m) ==
    /\ DOMAIN m = {"id", "scope", "exports", "externs", "sigs", "overrides"}
    /\ m.id \in Nat
    /\ \A table \in {m.scope, m.exports} :
           DOMAIN table \subseteq Identifiers /\ \A n \in DOMAIN table : table[n] \in Bindings
    /\ DOMAIN m.sigs \subseteq DOMAIN m.exports /\ DOMAIN m.overrides \subseteq DOMAIN m.exports
    /\ m.externs \in Seq([kind : {"extern"}, name : Identifiers, module : Nat])

IsPlace(p) == p.file \in Files /\ p.imp \in 1..(Len(Imports(p.file)) + 1) /\ p.child \in Nat \ {0}

\* The tables keep their shape and every place stays inside its file.
TypeOK ==
    /\ DOMAIN files = Files
    /\ phase \in {"loading", "splicing", "done", "failed", "panicked"}
    /\ (problem # "none") = (phase \in {"failed", "panicked"})
    /\ asked \in Files \cup {NoFile}
    /\ DOMAIN stack = 1..Len(stack) /\ \A k \in 1..Len(stack) : IsPlace(stack[k])
    /\ DOMAIN cache \subseteq Files /\ \A f \in DOMAIN cache : Module(cache[f])
    /\ DOMAIN walk = 1..Len(walk) /\ \A k \in 1..Len(walk) : IsPlace(walk[k])
    /\ spliced \subseteq DOMAIN cache

\* The recursion follows the imports: each file being loaded is there for
\* the import its importer is at, and no file is being loaded twice, or
\* again after it was loaded.
StackIsImportPath ==
    /\ \A k \in 1..Len(stack) : stack[k].file \notin DOMAIN cache
    /\ \A j, k \in 1..Len(stack) : stack[j].file = stack[k].file => j = k
    /\ \A k \in 1..Len(stack) : stack[k].file = IF k = 1 THEN Entry ELSE Target(stack[k - 1])
    /\ asked # NoFile => asked = IF stack = <<>> THEN Entry ELSE Target(Top)

\* Module ids are what internal names are told apart by: each loaded module
\* has its own, numbered without gaps, and the modules a file imports were
\* loaded, and numbered, before it.
IdsNameModules ==
    /\ \A f, g \in DOMAIN cache : cache[f].id = cache[g].id => f = g
    /\ \A f \in DOMAIN cache : cache[f].id < Cardinality(DOMAIN cache)
    /\ \A f \in DOMAIN cache : \A import \in ToSet(Imports(f)) : \A g \in ToSet(import.to) :
           g \in DOMAIN cache /\ cache[g].id < cache[f].id

\* At every moment of the recursion the tables, the stack and the ids fit
\* the imports followed so far.
Consistent == TypeOK /\ StackIsImportPath /\ IdsNameModules

\* A syntax override a module takes from its imports is the one every
\* import of the name agrees on, whatever order they come in; an import
\* that discovery missed has no say.
OverridesAgree ==
    \A f \in DOMAIN cache : \A n \in DOMAIN cache[f].overrides \ DOMAIN files[f].overrides :
        \A i \in 1..Discovered(f) : \A g \in ToSet(Imports(f)[i].to) :
            Wanted(Imports(f)[i], n) /\ n \in DOMAIN cache[g].overrides =>
                cache[g].overrides[n] = cache[f].overrides[n]

\* Loading ends: with a program, an error, or the panic.
Terminates == <>(phase \in {"done", "failed", "panicked"})

\* What a comment of the parser says: imports can be discovered with no
\* knowledge of the modules, so the loader never misses one it needs.
NeverPanics == phase # "panicked"

===========================================================================
