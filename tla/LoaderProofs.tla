---------------------------- MODULE LoaderProofs --------------------------
(* Loader for every file tree: the recursion follows the imports, ids name *)
(* modules, and imports agree on the overrides taken from them.            *)
EXTENDS Loader, DataInduction, FiniteSetTheorems, SequenceTheorems

\* A place is at one of the files its import resolves to.
AtChild(p) == p.imp <= Len(Imports(p.file)) => p.child = 1 \/ p.child <= Len(Current(p).to)

IsFrame(p) ==
    /\ DOMAIN p = {"file", "imp", "child", "sigs", "overrides", "conflicts"}
    /\ AtChild(p) /\ p.imp <= Discovered(p.file) + 1

\* Functions from names to what they mean.
Tables == UNION {[D -> Bindings] : D \in SUBSET Identifiers}

FilesOK == DOMAIN files = Files /\ \A f \in Files : IsFile(files[f])

\* There is an import to go on with.
Pending(p) == p.imp <= Discovered(p.file) /\ Current(p).to # <<>>

StackOK ==
    /\ IsSequence(stack)
    /\ \A k \in 1..Len(stack) : IsPlace(stack[k]) /\ IsFrame(stack[k])
    /\ \A k \in 1..(Len(stack) - 1) : Pending(stack[k])

CacheOK ==
    /\ DOMAIN cache \subseteq Files /\ IsFiniteSet(DOMAIN cache)
    /\ \A f \in DOMAIN cache : /\ Module(cache[f]) /\ cache[f].exports \in Tables
                               /\ \A i \in 1..Len(Imports(f)) : Imports(f)[i].to # <<>>
    /\ IdsNameModules

WalkOK ==
    /\ IsSequence(walk)
    /\ \A k \in 1..Len(walk) : /\ IsPlace(walk[k]) /\ AtChild(walk[k])
                               /\ DOMAIN walk[k] = {"file", "imp", "child"}
                               /\ walk[k].file \in spliced
    /\ spliced \subseteq DOMAIN cache

\* Where each phase is.
PhaseOK ==
    /\ phase \in {"loading", "splicing", "done", "failed", "panicked"}
    /\ (problem # "none") = (phase \in {"failed", "panicked"})
    /\ asked \in Files \cup {NoFile}
    /\ phase = "loading" => (asked = NoFile => stack # <<>>) /\ walk = <<>> /\ spliced = {}
    /\ phase = "loading" /\ asked # NoFile /\ stack # <<>> => Pending(Top)
    /\ phase = "splicing" => walk # <<>>

IInv == FilesOK /\ StackOK /\ CacheOK /\ WalkOK /\ PhaseOK /\ StackIsImportPath

\* What a frame holds of the override an import brings it.
Holds(p, i, g) ==
    /\ g \in DOMAIN cache
    /\ \A n \in DOMAIN cache[g].overrides : Wanted(Imports(p.file)[i], n) =>
           /\ n \in DOMAIN p.overrides
           /\ cache[g].overrides[n] = p.overrides[n] \/ n \in p.conflicts

Taken(p) ==
    /\ \A i \in 1..(p.imp - 1) : \A c \in 1..Len(Imports(p.file)[i].to) : Holds(p, i, Imports(p.file)[i].to[c])
    /\ p.imp <= Len(Imports(p.file)) => \A c \in 1..(p.child - 1) : Holds(p, p.imp, Current(p).to[c])

Full == IInv /\ OverridesAgree /\ \A k \in 1..Len(stack) : Taken(stack[k])

---------------------------------------------------------------------------
(* Tables of names.                                                        *)

\* A table is known by its names and what they are bound to.
LEMMA TableShape ==
    ASSUME NEW t
    PROVE  /\ t \in Tables => DOMAIN t \subseteq Identifiers /\ \A n \in DOMAIN t : t[n] \in Bindings
           /\ t = [n \in DOMAIN t |-> t[n]] /\ DOMAIN t \subseteq Identifiers
                  /\ (\A n \in DOMAIN t : t[n] \in Bindings) => t \in Tables
BY DEF Tables

LEMMA MergeType == ASSUME NEW a \in Bindings, NEW b \in Bindings PROVE Merge(a, b) \in Bindings
BY DEF Merge, Macros, Ambiguous, Bound, Bindings, Kinds

LEMMA MergeTablesType == ASSUME NEW s \in Tables, NEW t \in Tables PROVE MergeTables(s, t) \in Tables
<1> DEFINE m == MergeTables(s, t)
<1>1. m = [n \in DOMAIN m |-> m[n]] /\ DOMAIN m = DOMAIN s \cup DOMAIN t
  BY DEF MergeTables
<1>2. ASSUME NEW n \in DOMAIN m PROVE m[n] \in Bindings
  <2>1. n \in DOMAIN s => s[n] \in Bindings
    BY TableShape
  <2>2. n \in DOMAIN t => t[n] \in Bindings
    BY TableShape
  <2>3. n \in DOMAIN s /\ n \in DOMAIN t => Merge(s[n], t[n]) \in Bindings
    BY <2>1, <2>2, MergeType
  <2>4. m[n] = IF n \notin DOMAIN t THEN s[n] ELSE IF n \notin DOMAIN s THEN t[n] ELSE Merge(s[n], t[n])
    BY DEF MergeTables
  <2> QED BY <1>1, <1>2, <2>1, <2>2, <2>3, <2>4
<1>3. DOMAIN m \subseteq Identifiers
  BY <1>1, TableShape
<1> HIDE DEF m
<1>4. m \in Tables
  BY <1>1, <1>2, <1>3, TableShape
<1> QED BY <1>4 DEF m

LEMMA OverType == ASSUME NEW s \in Tables, NEW t \in Tables PROVE Over(s, t) \in Tables
<1> DEFINE m == Over(s, t)
<1>1. m = [n \in DOMAIN m |-> m[n]] /\ DOMAIN m = DOMAIN s \cup DOMAIN t
      /\ \A n \in DOMAIN m : m[n] = IF n \in DOMAIN s THEN s[n] ELSE t[n]
  BY DEF Over
<1> HIDE DEF m
<1>2. m \in Tables
  BY <1>1, TableShape
<1> QED BY <1>2 DEF m

LEMMA ShadowType == ASSUME NEW s \in Tables, NEW t \in Tables PROVE Shadow(s, t) \in Tables
<1> DEFINE m == Shadow(s, t)
<1>1. m = [n \in DOMAIN m |-> m[n]] /\ DOMAIN m = DOMAIN s \cup DOMAIN t
  BY DEF Shadow
<1>2. ASSUME NEW n \in DOMAIN m PROVE m[n] \in Bindings
  <2>1. n \in DOMAIN s => s[n] \in Bindings
    BY TableShape
  <2>2. n \in DOMAIN t => t[n] \in Bindings
    BY TableShape
  <2>3. n \in DOMAIN s /\ n \in DOMAIN t => Macros(s[n].of \cup t[n].of) \in Bindings
    BY <2>1, <2>2 DEF Bindings, Macros, Bound, Kinds
  <2>4. \/ n \notin DOMAIN s /\ m[n] = t[n]
        \/ n \in DOMAIN s /\ m[n] = s[n]
        \/ n \in DOMAIN s /\ n \in DOMAIN t /\ m[n] = Macros(s[n].of \cup t[n].of)
    BY DEF Shadow
  <2> QED BY <1>1, <1>2, <2>1, <2>2, <2>3, <2>4
<1>3. DOMAIN m \subseteq Identifiers
  BY <1>1, TableShape
<1> HIDE DEF m
<1>4. m \in Tables
  BY <1>1, <1>2, <1>3, TableShape
<1> QED BY <1>4 DEF m

LEMMA NoNamesType == NoNames \in Tables
BY TableShape DEF NoNames

\* g is the tables merged up to the k-th, for every k.
Merging(g, tables) ==
    /\ g[0] = NoNames /\ \A k \in 0..Len(tables) : g[k] \in Tables
    /\ \A k \in 1..Len(tables) : g[k] = MergeTables(g[k - 1], tables[k])
    /\ Merged(tables) = g[Len(tables)]

\* Merging takes the tables in, one by one.
LEMMA MergedUnfolds == ASSUME NEW tables \in Seq(Tables) PROVE \E g : Merging(g, tables)
<1> DEFINE n    == Len(tables)
           step == [p \in (1..n) \X Tables |-> MergeTables(p[2], tables[p[1]])]
           eq(f) == f = [k \in 0..n |-> IF k = 0 THEN NoNames ELSE MergeTables(f[k - 1], tables[k])]
<1>0. n \in Nat /\ \A k \in 1..n : tables[k] \in Tables
  OBVIOUS
<1>1. step \in [(1..n) \X Tables -> Tables]
  BY <1>0, MergeTablesType
<1>2. PICK f : RecursionOn(f, n, Tables, NoNames, step)
  <2> HIDE DEF step, n
  <2> QED BY <1>0, <1>1, NoNamesType, RecursionExists
<1> HIDE DEF n
<1>3. /\ f = [k \in 0..n |-> f[k]] /\ f[0] = NoNames /\ \A k \in 0..n : f[k] \in Tables
      /\ \A k \in 1..n : f[k] = step[<<k, f[k - 1]>>]
  BY <1>2 DEF RecursionOn
<1>4. ASSUME NEW k \in 0..n PROVE f[k] = IF k = 0 THEN NoNames ELSE MergeTables(f[k - 1], tables[k])
  <2>1. CASE k = 0
    BY <1>3, <2>1
  <2>2. CASE k # 0
    <3>1. k \in 1..n /\ k - 1 \in 0..n
      BY <1>0, <2>2
    <3>2. f[k - 1] \in Tables
      BY <1>3, <3>1
    <3>3. step[<<k, f[k - 1]>>] = MergeTables(f[k - 1], tables[k])
      BY <3>1, <3>2
    <3> HIDE DEF step
    <3> QED BY <1>3, <2>2, <3>1, <3>3
  <2> QED BY <2>1, <2>2
<1>5. eq(f)
  <2>1. f = [k \in 0..n |-> f[k]]
    BY <1>3
  <2> QED BY <1>4, <2>1
<1> DEFINE g == CHOOSE g : eq(g)
<1>6. eq(g)
  <2> HIDE DEF eq
  <2> QED BY <1>5
<1>7. Merged(tables) = g[n]
  BY DEF Merged, n
<1> HIDE DEF g
<1> DEFINE U == {k \in 0..n : g[k] \in Tables}
<1>8. 0 \in U
  BY <1>0, <1>6, NoNamesType
<1>9. ASSUME NEW k \in 0..n, k # n, k \in U PROVE k + 1 \in U
  <2>1. k + 1 \in 1..n /\ k + 1 \in 0..n /\ (k + 1) - 1 = k /\ k + 1 # 0
    BY <1>0, <1>9
  <2>2. g[k + 1] = MergeTables(g[k], tables[k + 1])
    BY <1>6, <2>1
  <2>3. g[k] \in Tables /\ tables[k + 1] \in Tables
    BY <1>0, <1>9, <2>1
  <2> QED BY <2>1, <2>2, <2>3, MergeTablesType
<1>10. 0..n \subseteq U
  <2> HIDE DEF U
  <2> QED BY <1>0, <1>8, <1>9, IntervalInduction
<1>11. g[0] = NoNames /\ \A k \in 1..n : g[k] = MergeTables(g[k - 1], tables[k])
  BY <1>0, <1>6
<1>12. \A k \in 0..n : g[k] \in Tables
  BY <1>10
<1> QED BY <1>7, <1>11, <1>12 DEF Merging, n

LEMMA MergedType == ASSUME NEW tables \in Seq(Tables) PROVE Merged(tables) \in Tables
<1>1. PICK g : Merging(g, tables)
  BY MergedUnfolds
<1>2. Len(tables) \in 0..Len(tables)
  OBVIOUS
<1> QED BY <1>1, <1>2 DEF Merging

LEMMA CombinedType ==
    ASSUME NEW explicit \in Seq(Tables), NEW glob \in Seq(Tables)
    PROVE  Combined(explicit, glob) \in Tables
BY MergedType, OverType DEF Combined

---------------------------------------------------------------------------
(* Files, and the modules made of them.                                    *)

\* What is known of the imports of a file.
LEMMA FileShape ==
    ASSUME \A f \in Files : IsFile(files[f]), NEW f \in Files
    PROVE  /\ Imports(f) \in Seq(Import) /\ Len(Imports(f)) \in Nat
           /\ Discovered(f) \in 0..Len(Imports(f))
           /\ \A i \in 1..Len(Imports(f)) :
                  Imports(f)[i].to \in Seq(Files) /\ Imports(f)[i] \in ToSet(Imports(f))
<1>1. /\ Imports(f) \in Seq(Import) /\ Len(Imports(f)) \in Nat
      /\ files[f].seen \in 0..Len(Imports(f))
  BY DEF IsFile, Imports
<1>2. \A i \in 1..Len(Imports(f)) : Imports(f)[i] \in Import
  BY <1>1
<1> QED BY <1>1, <1>2 DEF Discovered, Import, ToSet

\* Imports of loaded files.
Loaded(imports) ==
    /\ imports \in Seq(Import)
    /\ \A i \in 1..Len(imports) : imports[i].to # <<>> /\ ToSet(imports[i].to) \subseteq DOMAIN cache

\* The tables of an import of a loaded file.
LEMMA NamedTableType ==
    ASSUME CacheOK, NEW import \in Import, import.to # <<>>, ToSet(import.to) \subseteq DOMAIN cache
    PROVE  NamedTable(import) \in Tables /\ cache[import.to[1]].id \in Nat
<1> DEFINE t      == NamedTable(import)
           target == cache[import.to[1]]
<1>1. import.to \in Seq(Files) /\ import.names \in Seq(Identifiers) /\ import.span \in Nat
  BY DEF Import
<1>2. import.to[1] \in DOMAIN cache
  BY <1>1 DEF ToSet
<1>3. target.id \in Nat /\ target.exports \in Tables
  BY <1>2 DEF CacheOK, Module
<1>4. /\ t = [n \in DOMAIN t |-> t[n]] /\ DOMAIN t = ToSet(import.names)
      /\ \A n \in DOMAIN t : t[n] = IF n \in DOMAIN target.exports THEN target.exports[n]
                                    ELSE ExternOf(target.id, import.span)
  BY DEF NamedTable
<1> HIDE DEF t, target
<1>5. DOMAIN t \subseteq Identifiers
  BY <1>1, <1>4 DEF ToSet
<1>6. ExternOf(target.id, import.span) \in Bindings
  BY <1>1, <1>3 DEF ExternOf, Bindings, Kinds
<1>7. \A n \in DOMAIN target.exports : target.exports[n] \in Bindings
  BY <1>3, TableShape
<1>8. t \in Tables
  BY <1>4, <1>5, <1>6, <1>7, TableShape
<1> QED BY <1>3, <1>8 DEF t, target

\* The tables of the imports of loaded files are tables.
LEMMA ExplicitType ==
    ASSUME CacheOK, NEW imports, Loaded(imports)
    PROVE  Explicit(imports) \in Seq(Tables)
<1>1. /\ Len(imports) \in Nat /\ DOMAIN imports = 1..Len(imports)
      /\ \A i \in 1..Len(imports) : /\ imports[i] \in Import /\ imports[i].to # <<>>
                                    /\ ToSet(imports[i].to) \subseteq DOMAIN cache
  BY DEF Loaded
<1>2. \A i \in 1..Len(imports) :
          (IF imports[i].form = "names" THEN NamedTable(imports[i]) ELSE NoNames) \in Tables
  BY <1>1, NamedTableType, NoNamesType
<1> QED BY <1>1, <1>2 DEF Explicit

LEMMA GlobType ==
    ASSUME CacheOK, NEW imports, Loaded(imports)
    PROVE  Glob(imports) \in Seq(Tables)
<1> DEFINE Of(import) == IF import.form = "names" THEN <<>>
                         ELSE [k \in DOMAIN import.to |-> cache[import.to[k]].exports]
           ss == [i \in DOMAIN imports |-> Of(imports[i])]
<1>1. /\ Len(imports) \in Nat /\ DOMAIN imports = 1..Len(imports)
      /\ \A i \in 1..Len(imports) : /\ imports[i] \in Import /\ imports[i].to # <<>>
                                    /\ ToSet(imports[i].to) \subseteq DOMAIN cache
  BY DEF Loaded
<1>2. ASSUME NEW i \in 1..Len(imports) PROVE Of(imports[i]) \in Seq(Tables)
  <2> DEFINE to == imports[i].to
  <2>1. to \in Seq(Files) /\ \A k \in 1..Len(to) : to[k] \in DOMAIN cache
    BY <1>1 DEF Import, ToSet
  <2>2. \A k \in 1..Len(to) : cache[to[k]].exports \in Tables
    BY <2>1 DEF CacheOK
  <2>3. [k \in 1..Len(to) |-> cache[to[k]].exports] \in Seq(Tables)
    BY <2>1, <2>2
  <2>4. <<>> \in Seq(Tables)
    OBVIOUS
  <2>5. DOMAIN to = 1..Len(to)
    BY <2>1
  <2> HIDE DEF to
  <2>6. [k \in DOMAIN to |-> cache[to[k]].exports] \in Seq(Tables)
    BY <2>3, <2>5
  <2> QED BY <2>4, <2>6 DEF to
<1>3. ss \in Seq(Seq(Tables))
  <2> HIDE DEF Of
  <2> QED BY <1>1, <1>2
<1>4. FlattenSeq(ss) \in Seq(Tables)
  <2> HIDE DEF ss
  <2> QED BY <1>3, FlattenSeqType
<1> QED BY <1>4 DEF Glob

\* Imports passed on are of loaded files when all are.
LEMMA PublicLoaded == ASSUME NEW imports, Loaded(imports) PROVE Loaded(Public(imports))
<1> DEFINE S  == {import \in Import : import.to # <<>> /\ ToSet(import.to) \subseteq DOMAIN cache}
           ss == [i \in DOMAIN imports |-> IF imports[i].pub THEN <<imports[i]>> ELSE <<>>]
<1>1. /\ Len(imports) \in Nat /\ DOMAIN imports = 1..Len(imports)
      /\ \A i \in 1..Len(imports) : imports[i] \in S
  BY DEF Loaded
<1>2. ASSUME NEW i \in 1..Len(imports)
      PROVE  (IF imports[i].pub THEN <<imports[i]>> ELSE <<>>) \in Seq(S)
  <2>1. <<>> \in Seq(S)
    OBVIOUS
  <2>2. <<imports[i]>> \in Seq(S)
    <3>1. imports[i] \in S
      BY <1>1
    <3> HIDE DEF S
    <3> QED BY <3>1
  <2> QED BY <2>1, <2>2
<1> HIDE DEF S
<1>3. ss \in Seq(Seq(S))
  BY <1>1, <1>2
<1>4. Public(imports) \in Seq(S)
  <2>1. FlattenSeq(ss) \in Seq(S)
    <3> HIDE DEF ss
    <3> QED BY <1>3, FlattenSeqType
  <2> QED BY <2>1 DEF Public
<1> DEFINE r == Public(imports)
<1> HIDE DEF r
<1>5. r \in Seq(S) /\ \A i \in 1..Len(r) : r[i] \in S
  BY <1>4 DEF r
<1>6. r \in Seq(Import)
  <2>1. \A i \in 1..Len(r) : r[i] \in Import
    BY <1>5 DEF S
  <2> QED BY <1>5, <2>1
<1>7. Loaded(r)
  BY <1>5, <1>6 DEF Loaded, S
<1> QED BY <1>7 DEF r

Externs == [kind : {"extern"}, name : Identifiers, module : Nat]

\* Labels imported are those of loaded modules.
LEMMA LabelsType ==
    ASSUME CacheOK, NEW import \in Import, import.to # <<>>, ToSet(import.to) \subseteq DOMAIN cache
    PROVE  LabelsOf(import) \in Seq(Externs)
<1> DEFINE target == cache[import.to[1]]
           extern(k) == [kind |-> "extern", name |-> import.names[k], module |-> target.id]
           piece(k) == IF import.names[k] \in DOMAIN target.exports THEN <<>> ELSE <<extern(k)>>
           names == import.names
           ss == [k \in DOMAIN names |-> piece(k)]
<1>1. names \in Seq(Identifiers) /\ target.id \in Nat
  BY NamedTableType DEF Import
<1>2. \A k \in 1..Len(names) : extern(k) \in Externs
  BY <1>1 DEF Externs
<1>3. ASSUME NEW k \in 1..Len(names) PROVE piece(k) \in Seq(Externs)
  <2>1. <<>> \in Seq(Externs)
    OBVIOUS
  <2>2. <<extern(k)>> \in Seq(Externs)
    <3>1. extern(k) \in Externs
      BY <1>2
    <3> HIDE DEF extern
    <3> QED BY <3>1
  <2> QED BY <2>1, <2>2
<1>4. ss \in Seq(Seq(Externs))
  <2>1. DOMAIN names = 1..Len(names) /\ Len(names) \in Nat
    BY <1>1
  <2> HIDE DEF piece, names
  <2> QED BY <1>3, <2>1
<1>5. FlattenSeq(ss) \in Seq(Externs)
  <2> HIDE DEF ss
  <2> QED BY <1>4, FlattenSeqType
<1> QED BY <1>5 DEF LabelsOf

LEMMA ExternsType ==
    ASSUME CacheOK, NEW f, Loaded(Imports(f))
    PROVE  ExternLabels(f) \in Seq(Externs)
<1> DEFINE imports == Imports(f)
           piece(i) == IF imports[i].form = "names" THEN LabelsOf(imports[i]) ELSE <<>>
           ss == [i \in DOMAIN imports |-> piece(i)]
<1>1. /\ Len(imports) \in Nat /\ DOMAIN imports = 1..Len(imports)
      /\ \A i \in 1..Len(imports) : /\ imports[i] \in Import /\ imports[i].to # <<>>
                                    /\ ToSet(imports[i].to) \subseteq DOMAIN cache
  BY DEF Loaded
<1>2. ASSUME NEW i \in 1..Len(imports) PROVE piece(i) \in Seq(Externs)
  <2>1. <<>> \in Seq(Externs)
    OBVIOUS
  <2> QED BY <1>1, <2>1, LabelsType
<1>3. ss \in Seq(Seq(Externs))
  <2> HIDE DEF piece, imports
  <2> QED BY <1>1, <1>2
<1>4. FlattenSeq(ss) \in Seq(Externs)
  <2> HIDE DEF ss
  <2> QED BY <1>3, FlattenSeqType
<1> QED BY <1>4 DEF ExternLabels

\* The names a file declares are bound to its own module.
LEMMA OwnType ==
    ASSUME NEW f, NEW id \in Nat, NEW decls \in SUBSET Decl
    PROVE  Own(f, id, decls) \in Tables
<1> DEFINE t == Own(f, id, decls)
           of(n) == CHOOSE d \in decls : d.name = n
           means(d) == CASE d.kind = "decl"  -> DeclOf(id)
                         [] d.kind = "macro" -> Macros({id})
                         [] d.kind = "label" -> LabelOf(id)
<1>0. t = [n \in {d.name : d \in decls} |-> means(of(n))]
  BY DEF Own
<1>1. t = [n \in DOMAIN t |-> t[n]] /\ DOMAIN t = {d.name : d \in decls}
  <2> HIDE DEF means, of, t
  <2> QED BY <1>0
<1>2. DOMAIN t \subseteq Identifiers
  BY <1>1 DEF Decl
<1>3. /\ DeclOf(id) \in Bindings /\ Macros({id}) \in Bindings /\ LabelOf(id) \in Bindings
  BY DEF DeclOf, Macros, LabelOf, Bound, Bindings, Kinds
<1>4. ASSUME NEW n \in DOMAIN t PROVE t[n] \in Bindings
  <2>1. of(n) \in decls
    <3>1. \E d \in decls : d.name = n
      BY <1>1
    <3> QED BY <3>1
  <2>2. of(n).kind \in {"decl", "macro", "label"}
    BY <2>1 DEF Decl
  <2>3. t[n] = CASE of(n).kind = "decl"  -> DeclOf(id)
                 [] of(n).kind = "macro" -> Macros({id})
                 [] of(n).kind = "label" -> LabelOf(id)
    <3>1. t[n] = means(of(n))
      <4> HIDE DEF means, of, t
      <4> QED BY <1>0, <1>1
    <3> QED BY <3>1
  <2> HIDE DEF of, t
  <2> QED BY <1>3, <2>2, <2>3
<1> HIDE DEF t
<1>5. t \in Tables
  BY <1>1, <1>2, <1>4, TableShape
<1> QED BY <1>5 DEF t

\* What a file is loaded as, once its imports are loaded.
LEMMA NamesType ==
    ASSUME FilesOK, CacheOK, NEW f \in Files, Loaded(Imports(f)), NEW id \in Nat
    PROVE  FullScope(f, id) \in Tables /\ Exports(f, id) \in Tables
<1>1. ScopeOf(f) \in Tables
  BY ExplicitType, GlobType, CombinedType DEF ScopeOf
<1>2. Reexports(f) \in Tables
  BY PublicLoaded, ExplicitType, GlobType, CombinedType DEF Reexports
<1>3. files[f].decls \in Seq(Decl)
  BY DEF FilesOK, IsFile
<1>4. /\ ToSet(files[f].decls) \in SUBSET Decl
      /\ {d \in ToSet(files[f].decls) : d.pub /\ d.kind # "label"} \in SUBSET Decl
  BY <1>3 DEF ToSet
<1>5. OwnNames(f, id) \in Tables /\ OwnExports(f, id) \in Tables
  BY <1>4, OwnType DEF OwnNames, OwnExports
<1> QED BY <1>1, <1>2, <1>5, ShadowType DEF FullScope, Exports

\* The next id is the number of modules loaded.
LEMMA NextIdType == ASSUME CacheOK PROVE NextId \in Nat /\ NextId = Cardinality(DOMAIN cache)
BY FS_CardinalityType DEF CacheOK, NextId

\* A module without a problem has its imports loaded, none with a problem.
LEMMA FinishedIsLoaded ==
    ASSUME FilesOK, NEW f \in Files, f = Top.file, ModuleProblem = "none"
    PROVE  Loaded(Imports(f)) /\ \A i \in DOMAIN Imports(f) : ImportProblem(Imports(f)[i]) = "none"
<1>1. \A i \in DOMAIN Imports(f) : ImportProblem(Imports(f)[i]) = "none"
  <2> DEFINE wrong == {i \in DOMAIN Imports(f) : ImportProblem(Imports(f)[i]) # "none"}
             first == CHOOSE i \in wrong : \A j \in wrong : i <= j
  <2> SUFFICES ASSUME wrong # {} PROVE FALSE
    OBVIOUS
  <2>1. ImportProblem(Imports(f)[first]) = "none"
    BY DEF ModuleProblem
  <2>2. \E i \in wrong : \A j \in wrong : i <= j
    <3>1. Imports(f) \in Seq(Import)
      BY DEF FilesOK, IsFile, Imports
    <3>2. wrong \subseteq Nat
      BY <3>1
    <3>3. PICK i \in wrong : \A j \in wrong : ~(j < i)
      <4> HIDE DEF wrong
      <4> QED BY <3>2, LeastNumber
    <3>4. \A j \in wrong : i <= j
      <4> HIDE DEF wrong
      <4> QED BY <3>2, <3>3
    <3> QED BY <3>4
  <2>3. first \in wrong
    <3> HIDE DEF wrong
    <3> QED BY <2>2
  <2> QED BY <2>1, <2>3
<1>2. Imports(f) \in Seq(Import)
  BY DEF FilesOK, IsFile, Imports
<1> QED BY <1>1, <1>2 DEF Loaded, ImportProblem

---------------------------------------------------------------------------
(* Places.                                                                 *)

\* A place whose import exists stands at one of its targets.
LEMMA AtTarget ==
    ASSUME FilesOK, NEW p, IsPlace(p), AtChild(p),
           p.imp <= Len(Imports(p.file)), Current(p).to # <<>>
    PROVE  /\ Len(Current(p).to) \in Nat /\ p.child \in 1..Len(Current(p).to)
           /\ Target(p) \in Files /\ Target(p) \in ToSet(Current(p).to)
           /\ p.imp \in 1..Len(Imports(p.file)) /\ Current(p) \in ToSet(Imports(p.file))
<1>1. /\ p.file \in Files /\ p.imp \in 1..Len(Imports(p.file)) /\ p.child \in Nat \ {0}
  BY FileShape DEF IsPlace, FilesOK
<1>2. Current(p).to \in Seq(Files) /\ Current(p) \in ToSet(Imports(p.file))
  BY <1>1, FileShape DEF FilesOK, Current
<1>3. /\ Len(Current(p).to) \in Nat /\ p.child \in 1..Len(Current(p).to)
  <2>1. Len(Current(p).to) \in Nat /\ Len(Current(p).to) # 0
    BY <1>2
  <2>2. p.child = 1 \/ p.child <= Len(Current(p).to)
    BY DEF AtChild
  <2> QED BY <1>1, <2>1, <2>2
<1> QED BY <1>1, <1>2, <1>3 DEF Target, ToSet

\* The place after it, if it is a place, is within the imports too.
LEMMA AdvancedPlace ==
    ASSUME FilesOK, NEW p, IsPlace(p), AtChild(p), {"file", "imp", "child"} \subseteq DOMAIN p,
           p.imp <= Len(Imports(p.file)), Current(p).to # <<>>
    PROVE  /\ IsPlace(Advanced(p)) /\ AtChild(Advanced(p)) /\ DOMAIN Advanced(p) = DOMAIN p
           /\ \A x \in DOMAIN p \ {"imp", "child"} : Advanced(p)[x] = p[x]
           /\ \/ Advanced(p).imp = p.imp /\ Advanced(p).child = p.child + 1
              \/ p.child = Len(Current(p).to) /\ Advanced(p).imp = p.imp + 1 /\ Advanced(p).child = 1
<1> DEFINE q == Advanced(p)
<1>1. /\ Len(Current(p).to) \in Nat /\ p.child \in 1..Len(Current(p).to)
      /\ p.imp \in 1..Len(Imports(p.file)) /\ p.file \in Files /\ Len(Imports(p.file)) \in Nat
  BY AtTarget, FileShape DEF IsPlace, FilesOK
<1>2. DOMAIN q = DOMAIN p /\ \A x \in DOMAIN p \ {"imp", "child"} : q[x] = p[x]
  BY DEF Advanced
<1>3. \/ p.child < Len(Current(p).to) /\ q.imp = p.imp /\ q.child = p.child + 1
      \/ ~(p.child < Len(Current(p).to)) /\ q.imp = p.imp + 1 /\ q.child = 1
  BY DEF Advanced
<1> HIDE DEF q
<1>4. q.file = p.file
  BY <1>2
<1>5. IsPlace(q)
  BY <1>1, <1>3, <1>4 DEF IsPlace
<1>6. AtChild(q)
  BY <1>1, <1>3, <1>4 DEF AtChild, Current
<1> QED BY <1>1, <1>2, <1>3, <1>5, <1>6 DEF q

\* The innermost frame is one.
LEMMA TopFrame ==
    ASSUME StackOK, stack # <<>>
    PROVE  /\ Len(stack) \in Nat \ {0} /\ Top = stack[Len(stack)]
           /\ IsPlace(Top) /\ IsFrame(Top) /\ Top.file \in Files
<1>1. Len(stack) \in Nat \ {0}
  BY DEF StackOK, IsSequence
<1> QED BY <1>1 DEF StackOK, Top, IsPlace

---------------------------------------------------------------------------
(* What a step leaves alone.                                               *)

\* The parts of the invariant depend on these variables only.
LEMMA FilesKept == ASSUME FilesOK, files' = files PROVE FilesOK'
BY DEF FilesOK

LEMMA CacheKept == ASSUME CacheOK, files' = files, cache' = cache PROVE CacheOK'
BY DEF CacheOK, IdsNameModules, Imports

LEMMA PlaceKept ==
    ASSUME files' = files, NEW p
    PROVE  /\ IsPlace(p) => IsPlace(p)'
           /\ AtChild(p) => AtChild(p)'
           /\ IsFrame(p) => IsFrame(p)'
           /\ Pending(p) => Pending(p)'
BY DEF IsPlace, AtChild, IsFrame, Pending, Discovered, Imports, Current

LEMMA StackKept == ASSUME StackOK, files' = files, stack' = stack PROVE StackOK'
BY DEF StackOK, IsPlace, AtChild, IsFrame, Pending, Discovered, Imports, Current

LEMMA PathKept ==
    ASSUME StackIsImportPath, files' = files, cache' = cache, stack' = stack, asked' = asked
    PROVE  StackIsImportPath'
BY DEF StackIsImportPath, Target, Current, Imports, Top

LEMMA WalkKept ==
    ASSUME WalkOK, files' = files, DOMAIN cache \subseteq DOMAIN cache', walk' = walk, spliced' = spliced
    PROVE  WalkOK'
BY DEF WalkOK, IsPlace, AtChild, Imports, Current

---------------------------------------------------------------------------
(* Each step keeps the invariant.                                          *)

\* It holds before anything is loaded.
LEMMA InitIInv == Init => IInv
<1> SUFFICES ASSUME Init PROVE IInv
  OBVIOUS
<1>1. FilesOK
  BY WorldAssumption DEF Init, FilesOK
<1>2. IsSequence(<<>>)
  <2>1. <<>> \in Seq(ToSet(<<>>))
    OBVIOUS
  <2> QED BY <2>1 DEF IsSequence
<1>3. StackOK /\ WalkOK
  BY <1>2 DEF Init, StackOK, WalkOK
<1>4. CacheOK
  <2>1. DOMAIN cache = {}
    BY DEF Init
  <2> QED BY <2>1, FS_EmptySet DEF CacheOK, IdsNameModules
<1>5. PhaseOK
  BY PathAssumption DEF Init, PhaseOK
<1>6. StackIsImportPath
  BY DEF Init, StackIsImportPath
<1> QED BY <1>1, <1>3, <1>4, <1>5, <1>6 DEF IInv

\* A step that ends the load leaves everything but the phase alone.
LEMMA FailStep ==
    ASSUME IInv, UNCHANGED <<files, Loading, Splicing>>,
           phase' \in {"failed", "panicked"}, problem' # "none"
    PROVE  IInv'
<1>1. PhaseOK'
  BY DEF IInv, PhaseOK, Loading
<1> QED BY <1>1, FilesKept, StackKept, CacheKept, WalkKept, PathKept DEF IInv, Loading, Splicing

LEMMA AskForImportStep == ASSUME IInv, AskForImport PROVE IInv'
<1>1. stack # <<>> /\ phase = "loading" /\ asked = NoFile /\ Top.imp <= Discovered(Top.file)
  BY DEF AskForImport, IInv, PhaseOK
<1>2. CASE Current(Top).to = <<>>
  BY <1>2, FailStep DEF AskForImport, Fail, Loading
<1>3. CASE Current(Top).to # <<>>
  <2>1. /\ asked' = Target(Top)
        /\ UNCHANGED <<files, phase, problem, stack, cache, walk, spliced, program>>
    BY <1>3 DEF AskForImport, Splicing
  <2>2. Target(Top) \in Files
    <3>1. IsPlace(Top) /\ AtChild(Top) /\ Top.file \in Files
      BY <1>1, TopFrame DEF IInv, IsFrame
    <3>2. Top.imp <= Len(Imports(Top.file))
      BY <1>1, <3>1, FileShape DEF IInv, FilesOK, IsPlace
    <3> QED BY <1>3, <3>1, <3>2, AtTarget DEF IInv
  <2>3. PhaseOK'
    BY <1>1, <1>3, <2>1, <2>2 DEF IInv, PhaseOK, Pending, Top, Current, Imports, Discovered
  <2>4. StackIsImportPath'
    BY <1>1, <2>1 DEF IInv, StackIsImportPath, Target, Current, Imports, Top
  <2> QED BY <2>1, <2>3, <2>4, FilesKept, StackKept, CacheKept, WalkKept DEF IInv
<1> QED BY <1>2, <1>3

LEMMA StartSplicingStep == ASSUME IInv, StartSplicing PROVE IInv'
<1>1. /\ UNCHANGED <<files, problem, asked, stack, cache, program>>
      /\ phase = "loading" /\ asked \in DOMAIN cache /\ stack = <<>>
      /\ phase' = "splicing" /\ walk' = <<Place(Entry)>> /\ spliced' = {Entry}
  BY DEF StartSplicing, Loading
<1>2. Entry \in DOMAIN cache
  BY <1>1, PathAssumption DEF IInv, StackIsImportPath, CacheOK
<1>3. WalkOK'
  <2> DEFINE p == Place(Entry)
  <2>1. DOMAIN p = {"file", "imp", "child"} /\ p.file = Entry /\ p.imp = 1 /\ p.child = 1
    BY DEF Place
  <2>2. Len(Imports(Entry)) \in Nat
    BY PathAssumption, FileShape DEF IInv, FilesOK
  <2> HIDE DEF p
  <2>3. IsPlace(p) /\ AtChild(p)
    BY <2>1, <2>2, PathAssumption DEF IsPlace, AtChild
  <2>4. walk' = <<p>> /\ Len(walk') = 1 /\ walk'[1] = p
    BY <1>1 DEF p
  <2>5. IsSequence(walk')
    <3>1. p \in ToSet(walk')
      BY <2>4 DEF ToSet
    <3> QED BY <2>4, <3>1 DEF IsSequence
  <2> QED BY <1>1, <1>2, <2>1, <2>3, <2>4, <2>5, PlaceKept DEF WalkOK, IsSequence
<1>4. PhaseOK'
  BY <1>1 DEF IInv, PhaseOK
<1> QED BY <1>1, <1>3, <1>4, FilesKept, StackKept, CacheKept, PathKept DEF IInv

LEMMA EnterModuleStep == ASSUME IInv, EnterModule PROVE IInv'
<1> DEFINE p == Frame(asked)
<1>0. /\ phase = "loading" /\ asked \in Files /\ asked \notin DOMAIN cache /\ ~OnStack(asked)
      /\ UNCHANGED <<files, cache, walk, spliced, program>>
  BY DEF EnterModule, Splicing
<1>1. CASE ~files[asked].reads
  BY <1>1, FailStep DEF EnterModule, Fail, Loading
<1>2. CASE files[asked].reads
  <2>1. stack' = Append(stack, p) /\ asked' = NoFile /\ phase' = phase /\ problem' = problem
    BY <1>2 DEF EnterModule
  <2>2. /\ DOMAIN p = {"file", "imp", "child", "sigs", "overrides", "conflicts"}
        /\ p.file = asked /\ p.imp = 1 /\ p.child = 1
    BY DEF Frame
  <2> HIDE DEF p
  <2>3. Discovered(asked) \in 0..Len(Imports(asked)) /\ Len(Imports(asked)) \in Nat
    BY <1>0, FileShape DEF IInv, FilesOK
  <2>4. IsPlace(p) /\ IsFrame(p)
    BY <1>0, <2>2, <2>3 DEF IsPlace, IsFrame, AtChild
  <2>5. /\ IsSequence(stack') /\ Len(stack') = Len(stack) + 1 /\ Len(stack) \in Nat
        /\ stack'[Len(stack) + 1] = p /\ \A k \in 1..Len(stack) : stack'[k] = stack[k]
    BY <2>1, SequenceAppended, SequenceShape DEF IInv, StackOK
  <2>6. StackOK'
    <3>1. ASSUME NEW k \in 1..Len(stack') PROVE IsPlace(stack[k])' /\ IsFrame(stack[k])'
      <4>1. PICK q : q = stack'[k]
        OBVIOUS
      <4>2. IsPlace(q) /\ IsFrame(q)
        <5>1. k = Len(stack) + 1 \/ k \in 1..Len(stack)
          BY <2>5
        <5> QED BY <2>4, <2>5, <4>1, <5>1 DEF IInv, StackOK
      <4>3. IsPlace(q)' /\ IsFrame(q)'
        BY <1>0, <4>2, PlaceKept
      <4> QED BY <4>1, <4>3 DEF IsPlace, IsFrame, AtChild, Discovered, Imports, Current
    <3>2. ASSUME NEW k \in 1..Len(stack) PROVE Pending(stack[k])'
      <4>1. Pending(stack[k])
        <5>1. CASE k = Len(stack)
          BY <1>0, <5>1, PathAssumption DEF IInv, PhaseOK, Top
        <5>2. CASE k # Len(stack)
          <6>1. k \in 1..(Len(stack) - 1)
            BY <2>5, <5>2
          <6> QED BY <6>1 DEF IInv, StackOK
        <5> QED BY <5>1, <5>2
      <4>2. stack'[k] = stack[k]
        BY <2>5
      <4> QED BY <1>0, <4>1, <4>2 DEF Pending, Discovered, Imports, Current
    <3>3. Len(stack') - 1 = Len(stack)
      BY <2>5
    <3> QED BY <2>5, <3>1, <3>2, <3>3 DEF StackOK, IsSequence
  <2>7. PhaseOK'
    <3>1. stack' # <<>>
      BY <2>5
    <3> QED BY <1>0, <2>1, <3>1 DEF IInv, PhaseOK
  <2>8. StackIsImportPath'
    <3>1. \A k \in 1..Len(stack') : stack'[k].file \notin DOMAIN cache
      BY <1>0, <2>2, <2>5 DEF IInv, StackIsImportPath
    <3>2. \A j, k \in 1..Len(stack') : stack'[j].file = stack'[k].file => j = k
      BY <1>0, <2>2, <2>5 DEF IInv, StackIsImportPath, OnStack
    <3>3. \A k \in 1..Len(stack') : stack'[k].file = IF k = 1 THEN Entry ELSE Target(stack'[k - 1])
      <4>1. ASSUME NEW k \in 1..Len(stack) PROVE stack'[k].file = IF k = 1 THEN Entry ELSE Target(stack'[k - 1])
        <5>1. stack'[k] = stack[k] /\ (k # 1 => stack'[k - 1] = stack[k - 1])
          BY <2>5
        <5> QED BY <5>1 DEF IInv, StackIsImportPath
      <4>2. p.file = IF Len(stack) = 0 THEN Entry ELSE Target(stack'[Len(stack)])
        <5>1. asked = IF stack = <<>> THEN Entry ELSE Target(Top)
          BY <1>0, PathAssumption DEF IInv, StackIsImportPath
        <5>2. (stack = <<>>) = (Len(stack) = 0)
          BY DEF IInv, StackOK, IsSequence
        <5> QED BY <2>2, <2>5, <5>1, <5>2 DEF Top
      <4>3. \A k \in 1..Len(stack') : k = Len(stack) + 1 \/ k \in 1..Len(stack)
        BY <2>5
      <4>4. (Len(stack) + 1 = 1) = (Len(stack) = 0) /\ (Len(stack) + 1) - 1 = Len(stack)
        BY <2>5
      <4> QED BY <2>5, <4>1, <4>2, <4>3, <4>4
    <3> QED BY <1>0, <2>1, <3>1, <3>2, <3>3 DEF StackIsImportPath, Target, Current, Imports
  <2> QED BY <1>0, <2>6, <2>7, <2>8, FilesKept, CacheKept, WalkKept DEF IInv
<1> QED BY <1>1, <1>2

\* Merging a seed leaves the place, and whatever is known of it.
LEMMA MergeSeedPlace ==
    ASSUME NEW p, IsFrame(p), NEW child
    PROVE  LET q == MergeSeed(p, child) IN
           /\ DOMAIN q = DOMAIN p /\ q.file = p.file /\ q.imp = p.imp /\ q.child = p.child
           /\ Current(q) = Current(p) /\ Target(q) = Target(p)
           /\ (IsPlace(p) => IsPlace(q)) /\ AtChild(q)
<1> DEFINE q == MergeSeed(p, child)
<1>1. DOMAIN q = DOMAIN p /\ q.file = p.file /\ q.imp = p.imp /\ q.child = p.child
  BY DEF MergeSeed, IsFrame
<1> HIDE DEF q
<1> QED BY <1>1 DEF IsFrame, Current, Target, IsPlace, AtChild, q

LEMMA TakeSeedStep == ASSUME IInv, TakeSeed PROVE IInv'
<1> DEFINE p == Top
           q == MergeSeed(p, cache[asked])
           r == Advanced(q)
           n == Len(stack)
<1>0. /\ phase = "loading" /\ asked \in DOMAIN cache /\ stack # <<>> /\ asked' = NoFile
      /\ stack' = [stack EXCEPT ![n] = r]
      /\ UNCHANGED <<files, phase, problem, cache, walk, spliced, program>>
  BY DEF TakeSeed, Splicing
<1>1. /\ n \in Nat \ {0} /\ n \in 1..n /\ p = stack[n] /\ IsPlace(p) /\ IsFrame(p) /\ p.file \in Files
      /\ p.imp <= Discovered(p.file) /\ Current(p).to # <<>>
      /\ Discovered(p.file) \in 0..Len(Imports(p.file)) /\ Len(Imports(p.file)) \in Nat
  <2>1. asked # NoFile
    BY <1>0, PathAssumption DEF IInv, CacheOK
  <2> QED BY <1>0, <2>1, TopFrame, FileShape DEF IInv, PhaseOK, Pending, FilesOK
<1>2. /\ DOMAIN q = DOMAIN p /\ q.file = p.file /\ q.imp = p.imp /\ q.child = p.child
      /\ Current(q) = Current(p) /\ IsPlace(q) /\ AtChild(q)
  BY <1>1, MergeSeedPlace
<1> HIDE DEF p, q, n
<1>3. /\ IsPlace(r) /\ AtChild(r) /\ DOMAIN r = DOMAIN p /\ r.file = p.file
      /\ r.imp = p.imp \/ r.imp = p.imp + 1
  <2>1. q.imp <= Len(Imports(q.file)) /\ {"file", "imp", "child"} \subseteq DOMAIN q
    BY <1>1, <1>2 DEF IsPlace, IsFrame
  <2> QED BY <1>1, <1>2, <2>1, AdvancedPlace DEF IInv
<1> HIDE DEF r
<1>4. IsFrame(r)
  BY <1>1, <1>3 DEF IsFrame, IsPlace
<1>5. /\ IsSequence(stack') /\ Len(stack') = n /\ stack'[n] = r
      /\ \A k \in 1..n : k # n => stack'[k] = stack[k]
  <2>1. IsSequence(stack) /\ n \in 1..Len(stack)
    BY <1>1 DEF IInv, StackOK, n
  <2> DEFINE t == [stack EXCEPT ![n] = r]
  <2>2. IsSequence(t) /\ Len(t) = Len(stack) /\ t[n] = r /\ \A k \in 1..Len(stack) : k # n => t[k] = stack[k]
    BY <2>1, SequenceReplaced
  <2>3. stack' = t
    BY <1>0
  <2> HIDE DEF t
  <2> QED BY <2>2, <2>3 DEF n
<1>6. \A k \in 1..n : stack'[k].file = stack[k].file
  BY <1>1, <1>3, <1>5
<1>7. StackOK'
  <2>1. ASSUME NEW k \in 1..n PROVE IsPlace(stack[k])' /\ IsFrame(stack[k])'
    <3>1. PICK t : t = stack'[k]
      OBVIOUS
    <3>2. IsPlace(t) /\ IsFrame(t)
      BY <1>3, <1>4, <1>5, <3>1 DEF IInv, StackOK, n
    <3>3. IsPlace(t)' /\ IsFrame(t)'
      BY <1>0, <3>2, PlaceKept
    <3> QED BY <3>1, <3>3 DEF IsPlace, IsFrame, AtChild, Discovered, Imports, Current
  <2>2. ASSUME NEW k \in 1..(n - 1) PROVE Pending(stack[k])'
    <3>1. Pending(stack[k])
      BY DEF IInv, StackOK, n
    <3>2. stack'[k] = stack[k]
      BY <1>1, <1>5
    <3> QED BY <1>0, <3>1, <3>2 DEF Pending, Discovered, Imports, Current
  <2> QED BY <1>5, <2>1, <2>2 DEF StackOK, IsSequence
<1>8. PhaseOK'
  <2>1. stack' # <<>>
    BY <1>1, <1>5
  <2> QED BY <1>0, <2>1 DEF IInv, PhaseOK
<1>9. StackIsImportPath'
  <2>1. ASSUME NEW k \in 1..n PROVE stack'[k].file = IF k = 1 THEN Entry ELSE Target(stack'[k - 1])
    <3>1. stack[k].file = IF k = 1 THEN Entry ELSE Target(stack[k - 1])
      BY DEF IInv, StackIsImportPath, n
    <3>2. k # 1 => stack'[k - 1] = stack[k - 1]
      BY <1>1, <1>5
    <3> QED BY <1>6, <3>1, <3>2
  <2>2. /\ \A k \in 1..n : stack'[k].file \notin DOMAIN cache
        /\ \A j, k \in 1..n : stack'[j].file = stack'[k].file => j = k
    BY <1>6 DEF IInv, StackIsImportPath, n
  <2>3. /\ files' = files /\ cache' = cache /\ asked' = NoFile /\ Len(stack') = n
        /\ \A k \in 1..n : stack'[k].file = IF k = 1 THEN Entry ELSE Target(stack'[k - 1])
    BY <1>0, <1>5, <2>1
  <2> QED BY <2>2, <2>3 DEF StackIsImportPath, Target, Current, Imports
<1> QED BY <1>0, <1>7, <1>8, <1>9, FilesKept, CacheKept, WalkKept DEF IInv

\* What splicing an import does to the walk.
LEMMA SplicedImport ==
    ASSUME IInv, SpliceImport
    PROVE  LET p == WalkTop
               g == Target(WalkTop)
               n == Len(walk) IN
           /\ n \in Nat \ {0} /\ p = walk[n] /\ p.file \in spliced /\ p.file \in DOMAIN cache
           /\ IsPlace(p) /\ AtChild(p) /\ DOMAIN p = {"file", "imp", "child"}
           /\ p.imp <= Len(Imports(p.file)) /\ Current(p).to # <<>>
           /\ g \in DOMAIN cache /\ phase = "splicing"
           /\ IsSequence(walk') /\ Len(walk') = IF g \in spliced THEN n ELSE n + 1
           /\ walk'[n] = Advanced(p) /\ \A k \in 1..n : k # n => walk'[k] = walk[k]
           /\ g \notin spliced => walk'[n + 1] = Place(g)
           /\ spliced' = spliced \cup {g}
           /\ UNCHANGED <<files, phase, problem, asked, stack, cache, program>>
<1> DEFINE p == WalkTop
           r == Advanced(p)
           g == Target(p)
           n == Len(walk)
           here == [walk EXCEPT ![n] = r]
<1>1. /\ phase = "splicing" /\ walk # <<>> /\ p.imp <= Len(Imports(p.file))
      /\ walk' = IF g \in spliced THEN here ELSE Append(here, Place(g))
      /\ spliced' = spliced \cup {g}
      /\ UNCHANGED <<files, phase, problem, asked, stack, cache, program>>
  <2>1. [walk EXCEPT ![Len(walk)] = Advanced(@)] = here
    BY DEF WalkTop
  <2> QED BY <2>1 DEF SpliceImport, Loading, IInv, PhaseOK
<1>2. /\ n \in Nat \ {0} /\ n \in 1..n /\ p = walk[n] /\ IsSequence(walk)
      /\ IsPlace(p) /\ AtChild(p) /\ DOMAIN p = {"file", "imp", "child"} /\ p.file \in spliced
      /\ p.file \in DOMAIN cache
  <2>1. n \in Nat \ {0}
    BY <1>1 DEF IInv, WalkOK, IsSequence
  <2> QED BY <2>1 DEF IInv, WalkOK, WalkTop
<1>3. Current(p).to # <<>>
  BY <1>1, <1>2 DEF IInv, CacheOK, Current, IsPlace
<1>4. g \in DOMAIN cache
  <2>1. g \in ToSet(Current(p).to) /\ Current(p) \in ToSet(Imports(p.file))
    BY <1>1, <1>2, <1>3, AtTarget DEF IInv
  <2> QED BY <1>2, <2>1 DEF IInv, CacheOK, IdsNameModules
<1> HIDE DEF p, g, r
<1>5. /\ IsSequence(here) /\ Len(here) = n
      /\ here[n] = r /\ \A k \in 1..n : k # n => here[k] = walk[k]
  BY <1>2, SequenceReplaced
<1> HIDE DEF here, n
<1>6. /\ IsSequence(walk') /\ Len(walk') = IF g \in spliced THEN n ELSE n + 1
      /\ walk'[n] = r /\ \A k \in 1..n : k # n => walk'[k] = walk[k]
      /\ g \notin spliced => walk'[n + 1] = Place(g)
  <2>1. CASE g \in spliced
    BY <1>1, <1>5, <2>1
  <2>2. CASE g \notin spliced
    <3> DEFINE q == Place(g)
    <3> HIDE DEF q
    <3>1. walk' = Append(here, q)
      BY <1>1, <2>2 DEF q
    <3>2. /\ IsSequence(walk') /\ Len(walk') = n + 1 /\ walk'[n + 1] = q
          /\ \A k \in 1..n : walk'[k] = here[k]
      BY <1>5, <3>1, SequenceAppended
    <3> QED BY <1>2, <1>5, <2>2, <3>2 DEF q
  <2> QED BY <2>1, <2>2
<1> QED BY <1>1, <1>2, <1>3, <1>4, <1>6 DEF p, r, g, n

LEMMA SpliceImportStep == ASSUME IInv, SpliceImport PROVE IInv'
<1> DEFINE p == WalkTop
           r == Advanced(p)
           g == Target(p)
           n == Len(walk)
<1>1. /\ n \in Nat \ {0} /\ p = walk[n] /\ p.file \in spliced
      /\ IsPlace(p) /\ AtChild(p) /\ DOMAIN p = {"file", "imp", "child"}
      /\ p.imp <= Len(Imports(p.file)) /\ Current(p).to # <<>> /\ g \in DOMAIN cache /\ phase = "splicing"
  BY SplicedImport
<1>2. /\ IsSequence(walk') /\ Len(walk') = (IF g \in spliced THEN n ELSE n + 1)
      /\ walk'[n] = r /\ (\A k \in 1..n : k # n => walk'[k] = walk[k])
      /\ (g \notin spliced => walk'[n + 1] = Place(g)) /\ spliced' = spliced \cup {g}
      /\ UNCHANGED <<files, phase, problem, asked, stack, cache, program>>
  BY SplicedImport
<1> HIDE DEF p, g, n
<1>3. /\ IsPlace(r) /\ AtChild(r) /\ DOMAIN r = {"file", "imp", "child"} /\ r.file \in spliced
  <2>1. {"file", "imp", "child"} \subseteq DOMAIN p
    BY <1>1
  <2>2. /\ IsPlace(r) /\ AtChild(r) /\ DOMAIN r = DOMAIN p
        /\ \A x \in DOMAIN p \ {"imp", "child"} : r[x] = p[x]
    BY <1>1, <2>1, AdvancedPlace DEF IInv
  <2> HIDE DEF r
  <2>3. r.file = p.file
    BY <1>1, <2>2
  <2> QED BY <1>1, <2>2, <2>3
<1> HIDE DEF r
<1> DEFINE Good(q) == IsPlace(q) /\ AtChild(q) /\ DOMAIN q = {"file", "imp", "child"} /\ q.file \in spliced'
<1>4. g \notin spliced => Good(walk'[n + 1])
  <2> DEFINE q == Place(g)
  <2>1. g \in Files /\ Len(Imports(g)) \in Nat
    BY <1>1, FileShape DEF IInv, CacheOK, FilesOK
  <2>2. DOMAIN q = {"file", "imp", "child"} /\ q.file = g /\ q.imp = 1 /\ q.child = 1
    BY DEF Place
  <2>3. g \in spliced'
    BY <1>2
  <2> HIDE DEF q
  <2>4. IsPlace(q) /\ AtChild(q)
    BY <2>1, <2>2 DEF IsPlace, AtChild
  <2> QED BY <1>2, <2>2, <2>3, <2>4 DEF q
<1>5. \A k \in 1..n : Good(walk'[k])
  <2>1. \A k \in 1..n : Good(walk[k])
    BY <1>2 DEF IInv, WalkOK, n
  <2>2. Good(r)
    BY <1>2, <1>3
  <2> HIDE DEF Good
  <2> QED BY <1>2, <2>1, <2>2
<1>6. walk' # <<>> /\ \A k \in 1..Len(walk') : Good(walk'[k])
  <2>1. \A k \in 1..Len(walk') : k \in 1..n \/ (g \notin spliced /\ k = n + 1)
    BY <1>1, <1>2
  <2>2. walk' # <<>>
    <3>1. Len(walk') # 0
      BY <1>1, <1>2
    <3> QED BY <3>1
  <2> HIDE DEF Good
  <2> QED BY <1>4, <1>5, <2>1, <2>2
<1>7. WalkOK'
  <2>1. ASSUME NEW k \in 1..Len(walk')
        PROVE  /\ IsPlace(walk[k])' /\ AtChild(walk[k])'
               /\ DOMAIN walk'[k] = {"file", "imp", "child"} /\ walk'[k].file \in spliced'
    <3>1. PICK q : q = walk'[k]
      OBVIOUS
    <3>2. Good(q)
      <4> HIDE DEF Good
      <4> QED BY <1>6, <3>1
    <3>3. IsPlace(q)' /\ AtChild(q)'
      BY <1>2, <3>2, PlaceKept
    <3> QED BY <3>1, <3>2, <3>3 DEF IsPlace, AtChild, Imports, Current
  <2>2. spliced' \subseteq DOMAIN cache'
    BY <1>1, <1>2 DEF IInv, WalkOK
  <2> QED BY <1>2, <2>1, <2>2 DEF WalkOK
<1>8. PhaseOK'
  BY <1>1, <1>2, <1>6 DEF IInv, PhaseOK
<1> QED BY <1>2, <1>7, <1>8, FilesKept, StackKept, CacheKept, PathKept DEF IInv

LEMMA SpliceModuleStep == ASSUME IInv, SpliceModule PROVE IInv'
<1> DEFINE n == Len(walk)
<1>0. /\ phase = "splicing" /\ walk # <<>> /\ IsSequence(walk)
      /\ walk' = SubSeq(walk, 1, n - 1)
      /\ phase' = IF n = 1 THEN "done" ELSE phase
      /\ UNCHANGED <<files, problem, asked, stack, cache, spliced>>
  BY DEF SpliceModule, Loading, IInv, PhaseOK, WalkOK
<1>1. n \in Nat \ {0}
  BY <1>0 DEF IsSequence
<1>2. /\ IsSequence(walk') /\ Len(walk') = n - 1 /\ \A k \in 1..(n - 1) : walk'[k] = walk[k]
  BY <1>0, SequencePopped
<1>3. WalkOK'
  <2>1. ASSUME NEW k \in 1..Len(walk')
        PROVE  /\ IsPlace(walk[k])' /\ AtChild(walk[k])'
               /\ DOMAIN walk'[k] = {"file", "imp", "child"} /\ walk'[k].file \in spliced'
    <3>1. PICK q : q = walk'[k]
      OBVIOUS
    <3>2. q = walk[k] /\ k \in 1..n
      BY <1>1, <1>2, <3>1
    <3>3. IsPlace(q) /\ AtChild(q) /\ DOMAIN q = {"file", "imp", "child"} /\ q.file \in spliced
      BY <3>2 DEF IInv, WalkOK
    <3>4. IsPlace(q)' /\ AtChild(q)'
      BY <1>0, <3>3, PlaceKept
    <3> QED BY <1>0, <3>1, <3>3, <3>4 DEF IsPlace, AtChild, Imports, Current
  <2>2. spliced' \subseteq DOMAIN cache'
    BY <1>0 DEF IInv, WalkOK
  <2> QED BY <1>2, <2>1, <2>2 DEF WalkOK, IsSequence
<1>4. PhaseOK'
  <2>1. n # 1 => walk' # <<>>
    BY <1>1, <1>2
  <2>2. phase' \in {"splicing", "done"} /\ (phase' = "splicing" => n # 1)
    BY <1>0
  <2> HIDE DEF n
  <2> QED BY <1>0, <2>1, <2>2 DEF IInv, PhaseOK
<1> QED BY <1>0, <1>3, <1>4, FilesKept, StackKept, CacheKept, PathKept DEF IInv

\* What finishing a module loads, and what is known of it.
LEMMA FinishedModule ==
    ASSUME IInv, FinishModule
    PROVE  LET f == Top.file
               m == cache'[f] IN
           /\ phase = "loading" /\ asked = NoFile /\ stack # <<>> /\ ModuleProblem = "none"
           /\ Top.imp > Discovered(f) /\ f \in Files /\ f \notin DOMAIN cache
           /\ Loaded(Imports(f)) /\ \A i \in DOMAIN Imports(f) : ImportProblem(Imports(f)[i]) = "none"
           /\ stack' = SubSeq(stack, 1, Len(stack) - 1) /\ asked' = f
           /\ DOMAIN cache' = DOMAIN cache \cup {f} /\ \A h \in DOMAIN cache : h # f /\ cache'[h] = cache[h]
           /\ m.id = NextId /\ m.scope = FullScope(f, NextId) /\ m.exports = Exports(f, NextId)
           /\ m.externs = ExternLabels(f) /\ m.sigs = Only(SigsAfter, DOMAIN m.exports)
           /\ m.overrides = Only(OverridesAfter, DOMAIN m.exports)
           /\ DOMAIN m = {"id", "scope", "exports", "externs", "sigs", "overrides"}
           /\ UNCHANGED <<files, phase, problem, walk, spliced, program>>
<1> DEFINE f      == Top.file
           loaded == [id        |-> NextId,
                      scope     |-> FullScope(f, NextId),
                      exports   |-> Exports(f, NextId),
                      externs   |-> ExternLabels(f),
                      sigs      |-> Only(SigsAfter, DOMAIN Exports(f, NextId)),
                      overrides |-> Only(OverridesAfter, DOMAIN Exports(f, NextId))]
<1>1. phase = "loading" /\ asked = NoFile /\ stack # <<>> /\ ModuleProblem = "none" /\ Top.imp > Discovered(f)
  BY DEF FinishModule, ImportsLoaded, IInv, PhaseOK
<1>2. /\ cache' = [h \in DOMAIN cache \cup {f} |-> IF h = f THEN loaded ELSE cache[h]]
      /\ stack' = SubSeq(stack, 1, Len(stack) - 1) /\ asked' = f
      /\ UNCHANGED <<files, phase, problem, walk, spliced, program>>
  BY DEF FinishModule, Splicing
<1>3. f \in Files /\ f \notin DOMAIN cache
  <2>1. Len(stack) \in 1..Len(stack) /\ Top = stack[Len(stack)] /\ f \in Files
    BY <1>1, TopFrame DEF IInv
  <2> QED BY <2>1 DEF IInv, StackIsImportPath
<1>4. Loaded(Imports(f)) /\ \A i \in DOMAIN Imports(f) : ImportProblem(Imports(f)[i]) = "none"
  BY <1>1, <1>3, FinishedIsLoaded DEF IInv
<1>5. /\ loaded.id = NextId /\ loaded.scope = FullScope(f, NextId) /\ loaded.exports = Exports(f, NextId)
      /\ loaded.externs = ExternLabels(f) /\ loaded.sigs = Only(SigsAfter, DOMAIN loaded.exports)
      /\ loaded.overrides = Only(OverridesAfter, DOMAIN loaded.exports)
      /\ DOMAIN loaded = {"id", "scope", "exports", "externs", "sigs", "overrides"}
  OBVIOUS
<1> HIDE DEF loaded, f
<1>6. /\ DOMAIN cache' = DOMAIN cache \cup {f} /\ \A h \in DOMAIN cache : h # f /\ cache'[h] = cache[h]
      /\ cache'[f] = loaded
  BY <1>2, <1>3
<1> QED BY <1>1, <1>2, <1>3, <1>4, <1>5, <1>6 DEF f

LEMMA FinishModuleStep == ASSUME IInv, FinishModule PROVE IInv'
<1> DEFINE f == Top.file
           n == Len(stack)
           m == cache'[f]
<1>0. /\ phase = "loading" /\ asked = NoFile /\ stack # <<>> /\ f \notin DOMAIN cache /\ Loaded(Imports(f))
      /\ stack' = SubSeq(stack, 1, n - 1) /\ asked' = f
      /\ DOMAIN cache' = DOMAIN cache \cup {f} /\ \A h \in DOMAIN cache : h # f /\ cache'[h] = cache[h]
      /\ m.id = NextId /\ m.scope = FullScope(f, NextId) /\ m.exports = Exports(f, NextId)
      /\ m.externs = ExternLabels(f)
      /\ DOMAIN m.sigs \subseteq DOMAIN m.exports /\ DOMAIN m.overrides \subseteq DOMAIN m.exports
      /\ DOMAIN m = {"id", "scope", "exports", "externs", "sigs", "overrides"}
      /\ UNCHANGED <<files, phase, problem, walk, spliced, program>>
  <2>1. \A t, S : DOMAIN Only(t, S) \subseteq S
    BY DEF Only
  <2> QED BY <2>1, FinishedModule
<1>1. /\ n \in Nat \ {0} /\ Top = stack[n] /\ f \in Files /\ IsSequence(stack)
  BY <1>0, TopFrame DEF IInv, StackOK
<1>2. f \notin DOMAIN cache /\ Loaded(Imports(f))
  BY <1>0
<1>3. NextId \in Nat /\ NextId = Cardinality(DOMAIN cache)
  BY NextIdType DEF IInv
<1>4. m.scope \in Tables /\ m.exports \in Tables /\ m.externs \in Seq(Externs) /\ m.id \in Nat
  BY <1>0, <1>1, <1>2, <1>3, NamesType, ExternsType DEF IInv
<1> HIDE DEF f, n, m
<1>5. Module(m)
  BY <1>0, <1>4, TableShape DEF Module, Externs
<1>6. /\ DOMAIN cache' = DOMAIN cache \cup {f} /\ cache'[f] = m
      /\ \A h \in DOMAIN cache : h # f /\ cache'[h] = cache[h]
  BY <1>0, <1>2 DEF m
<1>7. /\ IsFiniteSet(DOMAIN cache') /\ Cardinality(DOMAIN cache') = Cardinality(DOMAIN cache) + 1
  BY <1>2, <1>6, FS_AddElement DEF IInv, CacheOK
<1>8. CacheOK'
  <2>1. ASSUME NEW h \in DOMAIN cache'
        PROVE  /\ Module(cache'[h]) /\ cache'[h].exports \in Tables
               /\ \A i \in 1..Len(Imports(h)) : Imports(h)[i].to # <<>>
    <3>1. CASE h = f
      BY <1>2, <1>4, <1>5, <1>6, <3>1 DEF Loaded
    <3>2. CASE h # f
      BY <1>6, <2>1, <3>2 DEF IInv, CacheOK
    <3> QED BY <3>1, <3>2
  <2>2. IdsNameModules'
    <3>1. \A h \in DOMAIN cache : cache[h].id \in Nat /\ cache[h].id < NextId
      BY <1>3 DEF IInv, CacheOK, IdsNameModules, Module
    <3>2. \A g, h \in DOMAIN cache' : cache'[g].id = cache'[h].id => g = h
      BY <1>0, <1>3, <1>6, <3>1 DEF IInv, CacheOK, IdsNameModules, m
    <3>3. \A h \in DOMAIN cache' : cache'[h].id < Cardinality(DOMAIN cache')
      BY <1>0, <1>3, <1>6, <1>7, <3>1
    <3>4. ASSUME NEW h \in DOMAIN cache', NEW import \in ToSet(Imports(h)), NEW g \in ToSet(import.to)
          PROVE  g \in DOMAIN cache' /\ cache'[g].id < cache'[h].id
      <4>1. CASE h = f
        <5>1. g \in DOMAIN cache
          BY <1>2, <3>4, <4>1 DEF Loaded, ToSet
        <5> QED BY <1>0, <1>6, <3>1, <4>1, <5>1
      <4>2. CASE h # f
        <5>1. h \in DOMAIN cache
          BY <1>6, <4>2
        <5>2. g \in DOMAIN cache /\ cache[g].id < cache[h].id
          BY <3>4, <5>1 DEF IInv, CacheOK, IdsNameModules
        <5> QED BY <1>6, <5>1, <5>2
      <4> QED BY <4>1, <4>2
    <3> QED BY <1>0, <3>2, <3>3, <3>4 DEF IdsNameModules, Imports
  <2>3. DOMAIN cache' \subseteq Files
    BY <1>1, <1>6 DEF IInv, CacheOK
  <2> QED BY <1>0, <1>7, <2>1, <2>2, <2>3 DEF CacheOK, Module, Imports
<1>9. /\ IsSequence(stack') /\ Len(stack') = n - 1 /\ \A k \in 1..(n - 1) : stack'[k] = stack[k]
  BY <1>0, <1>1, SequencePopped DEF n
<1>10. StackOK'
  <2>1. ASSUME NEW k \in 1..Len(stack') PROVE IsPlace(stack[k])' /\ IsFrame(stack[k])'
    <3>1. PICK q : q = stack'[k]
      OBVIOUS
    <3>2. q = stack[k] /\ k \in 1..n
      BY <1>1, <1>9, <3>1
    <3>3. IsPlace(q) /\ IsFrame(q)
      BY <3>2 DEF IInv, StackOK, n
    <3>4. IsPlace(q)' /\ IsFrame(q)'
      BY <1>0, <3>3, PlaceKept
    <3> QED BY <3>1, <3>4 DEF IsPlace, IsFrame, AtChild, Discovered, Imports, Current
  <2>2. ASSUME NEW k \in 1..(n - 1) PROVE Pending(stack[k])'
    <3>1. Pending(stack[k])
      BY DEF IInv, StackOK, n
    <3> QED BY <1>0, <1>9, <3>1 DEF Pending, Discovered, Imports, Current
  <2>3. \A k \in 1..(Len(stack') - 1) : k \in 1..(n - 1)
    BY <1>1, <1>9
  <2> QED BY <1>9, <2>1, <2>2, <2>3 DEF StackOK, IsSequence
<1>11. ASSUME NEW k \in 1..n
       PROVE  stack[k].file = IF k = 1 THEN Entry ELSE Target(stack[k - 1])
  BY DEF IInv, StackIsImportPath, n
<1>12. \A j, k \in 1..n : stack[j].file = stack[k].file => j = k
  BY DEF IInv, StackIsImportPath, n
<1>13. f = stack[n].file
  BY <1>1 DEF f
<1>14. stack' = <<>> <=> n = 1
  BY <1>1, <1>9 DEF IsSequence
<1>15. StackIsImportPath'
  <2>1. \A k \in 1..(n - 1) : stack'[k].file \notin DOMAIN cache'
    <3>1. \A k \in 1..(n - 1) : k \in 1..n /\ k # n /\ n \in 1..n
      BY <1>1
    <3>2. \A k \in 1..(n - 1) : stack[k].file \notin DOMAIN cache
      BY <3>1 DEF IInv, StackIsImportPath, n
    <3> QED BY <1>6, <1>9, <1>12, <1>13, <3>1, <3>2
  <2>2. \A j, k \in 1..(n - 1) : stack'[j].file = stack'[k].file => j = k
    BY <1>1, <1>9, <1>12
  <2>3. ASSUME NEW k \in 1..(n - 1)
        PROVE stack'[k].file = IF k = 1 THEN Entry ELSE Target(stack'[k - 1])
    <3>1. k \in 1..n /\ (k # 1 => k - 1 \in 1..(n - 1))
      BY <1>1
    <3> QED BY <1>9, <1>11, <3>1
  <2>4. f = IF stack' = <<>> THEN Entry ELSE Target(stack'[n - 1])
    <3>1. n \in 1..n /\ (n # 1 => n - 1 \in 1..(n - 1))
      BY <1>1
    <3> QED BY <1>9, <1>11, <1>13, <1>14, <3>1
  <2>5. /\ files' = files /\ asked' = f /\ Len(stack') = n - 1
    BY <1>0, <1>9
  <2> QED BY <2>1, <2>2, <2>3, <2>4, <2>5 DEF StackIsImportPath, Target, Current, Imports, Top
<1>16. PhaseOK'
  <2>1. ASSUME stack' # <<>> PROVE Pending(Top)'
    <3>1. n - 1 \in 1..(n - 1) /\ Len(stack') = n - 1
      BY <1>1, <1>9, <1>14, <2>1
    <3>2. stack'[n - 1] = stack[n - 1]
      BY <1>9, <3>1
    <3>3. Pending(stack[n - 1])
      BY <3>1 DEF IInv, StackOK, n
    <3> QED BY <1>0, <3>1, <3>2, <3>3 DEF Pending, Discovered, Imports, Current, Top
  <2>2. f # NoFile
    BY <1>1, PathAssumption
  <2> QED BY <1>0, <1>1, <2>1, <2>2 DEF IInv, PhaseOK
<1> QED BY <1>0, <1>6, <1>8, <1>10, <1>15, <1>16, FilesKept, WalkKept DEF IInv

LEMMA StutterStep == ASSUME IInv, UNCHANGED vars PROVE IInv'
<1>1. PhaseOK'
  BY DEF IInv, PhaseOK, Pending, Top, Current, Imports, Discovered, vars
<1> QED BY <1>1, FilesKept, StackKept, CacheKept, WalkKept, PathKept DEF IInv, vars

\* Every step keeps the invariant.
LEMMA StepIInv == ASSUME IInv, [Next]_vars PROVE IInv'
<1>1. CASE ReportCycle
  BY <1>1, FailStep DEF ReportCycle, Fail
<1>2. CASE RejectModule
  BY <1>2, FailStep DEF RejectModule
<1>3. CASE Stopped \/ UNCHANGED vars
  BY <1>3, StutterStep DEF Stopped
<1> QED
  BY <1>1, <1>2, <1>3, AskForImportStep, EnterModuleStep, TakeSeedStep, FinishModuleStep,
     StartSplicingStep, SpliceImportStep, SpliceModuleStep
  DEF Next

\* So it holds at every moment.
LEMMA IInvHolds == Spec => []IInv
<1>1. IInv /\ [Next]_vars => IInv'
  BY StepIInv
<1> QED BY <1>1, InitIInv, PTL DEF Spec

---------------------------------------------------------------------------
(* The theorems.                                                           *)

\* For every file tree: the recursion of `load_module` follows the imports,
\* no file is loaded twice, and ids name the modules in the order of their
\* dependence.
THEOREM LoaderConsistent == Spec => []Consistent
<1>1. ASSUME IInv PROVE Consistent
  <2>1. DOMAIN stack = 1..Len(stack) /\ DOMAIN walk = 1..Len(walk)
    BY <1>1, SequenceShape DEF IInv, StackOK, WalkOK
  <2>2. TypeOK
    BY <1>1, <2>1 DEF IInv, FilesOK, StackOK, CacheOK, WalkOK, PhaseOK, TypeOK
  <2> QED BY <1>1, <2>2 DEF IInv, CacheOK, Consistent
<1> QED BY <1>1, IInvHolds, PTL

---------------------------------------------------------------------------
(* Overrides: what a frame has taken from the imports it has passed.       *)

\* What was taken from an import stays taken, as a loaded module stays as it is.
LEMMA TakenKept ==
    ASSUME NEW p, Taken(p), files' = files, \A g \in DOMAIN cache : g \in DOMAIN cache' /\ cache'[g] = cache[g]
    PROVE  Taken(p)'
<1>1. ASSUME NEW i, NEW g, Holds(p, i, g) PROVE Holds(p, i, g)'
  BY <1>1 DEF Holds, Imports
<1> QED BY <1>1 DEF Taken, Imports, Current

\* Merging a seed keeps what the frame holds, and adds the seed.
LEMMA SeedHeld ==
    ASSUME NEW p, IsFrame(p), NEW g \in DOMAIN cache
    PROVE  LET q == MergeSeed(p, cache[g]) IN
           /\ \A i, h : Holds(p, i, h) => Holds(q, i, h)
           /\ Holds(q, p.imp, g)
<1> DEFINE q    == MergeSeed(p, cache[g])
           t    == cache[g].overrides
           seed == SeedFor(Current(p), t)
<1>1. /\ q.file = p.file
      /\ q.overrides = Over(p.overrides, seed)
      /\ q.conflicts = p.conflicts \cup {n \in DOMAIN seed \cap DOMAIN p.overrides : seed[n] # p.overrides[n]}
  BY DEF MergeSeed, IsFrame
<1>2. /\ DOMAIN seed = {n \in DOMAIN t : Wanted(Current(p), n)}
      /\ \A n \in DOMAIN seed : seed[n] = t[n]
  BY DEF SeedFor, Only
<1>3. /\ DOMAIN q.overrides = DOMAIN p.overrides \cup DOMAIN seed
      /\ \A n \in DOMAIN p.overrides : q.overrides[n] = p.overrides[n]
      /\ \A n \in DOMAIN seed \ DOMAIN p.overrides : q.overrides[n] = seed[n]
  <2> HIDE DEF q, seed
  <2> QED BY <1>1 DEF Over
<1> HIDE DEF q, seed
<1>4. \A i, h : Holds(p, i, h) => Holds(q, i, h)
  BY <1>1, <1>3 DEF Holds
<1>5. Holds(q, p.imp, g)
  <2>1. ASSUME NEW n \in DOMAIN t, Wanted(Current(p), n)
        PROVE  n \in DOMAIN q.overrides /\ (t[n] = q.overrides[n] \/ n \in q.conflicts)
    BY <1>1, <1>2, <1>3, <2>1
  <2> QED BY <1>1, <2>1 DEF Holds, Current
<1> QED BY <1>4, <1>5 DEF q

\* A frame that moves past the import whose seed it took has taken it.
LEMMA AdvancedTaken ==
    ASSUME FilesOK, NEW p, IsPlace(p), IsFrame(p), p.imp <= Len(Imports(p.file)), Current(p).to # <<>>,
           Taken(p), Target(p) \in DOMAIN cache
    PROVE  Taken(Advanced(MergeSeed(p, cache[Target(p)])))
<1> DEFINE g == Target(p)
           q == MergeSeed(p, cache[g])
           r == Advanced(q)
<1>1. /\ (\A i, h : Holds(p, i, h) => Holds(q, i, h)) /\ Holds(q, p.imp, g)
  BY SeedHeld
<1>2. /\ DOMAIN q = DOMAIN p /\ q.file = p.file /\ q.imp = p.imp /\ q.child = p.child
      /\ Current(q) = Current(p) /\ IsPlace(q) /\ AtChild(q)
  BY MergeSeedPlace
<1>3. /\ Len(Current(p).to) \in Nat /\ p.child \in 1..Len(Current(p).to) /\ g = Current(p).to[p.child]
      /\ p.imp \in 1..Len(Imports(p.file))
  BY AtTarget DEF IsFrame, Target
<1> HIDE DEF q, g
<1>4. /\ r.file = p.file /\ r.overrides = q.overrides /\ r.conflicts = q.conflicts
      /\ \/ r.imp = p.imp /\ r.child = p.child + 1
         \/ p.child = Len(Current(p).to) /\ r.imp = p.imp + 1 /\ r.child = 1
  <2>1. q.imp <= Len(Imports(q.file)) /\ {"file", "imp", "child"} \subseteq DOMAIN q /\ Current(q).to # <<>>
    BY <1>2 DEF IsFrame
  <2>2. /\ \A x \in DOMAIN q \ {"imp", "child"} : r[x] = q[x]
        /\ \/ r.imp = q.imp /\ r.child = q.child + 1
           \/ q.child = Len(Current(q).to) /\ r.imp = q.imp + 1 /\ r.child = 1
    BY <1>2, <2>1, AdvancedPlace
  <2> HIDE DEF r
  <2> QED BY <1>2, <2>2 DEF IsFrame
<1> HIDE DEF r
<1>5. \A i, h : Holds(p, i, h) => Holds(r, i, h)
  <2>1. \A i, h : Holds(q, i, h) => Holds(r, i, h)
    BY <1>2, <1>4 DEF Holds
  <2> QED BY <1>1, <2>1
<1>6. Holds(r, p.imp, g)
  BY <1>1, <1>2, <1>4 DEF Holds
<1> DEFINE Passed(i) == \A c \in 1..Len(Imports(p.file)[i].to) : Holds(r, i, Imports(p.file)[i].to[c])
<1>7. \A i \in 1..(p.imp - 1) : Passed(i)
  BY <1>5 DEF Taken
<1>8. \A c \in 1..p.child : Holds(r, p.imp, Current(p).to[c])
  <2>1. \A c \in 1..(p.child - 1) : Holds(r, p.imp, Current(p).to[c])
    BY <1>5 DEF Taken
  <2>2. \A c \in 1..p.child : c \in 1..(p.child - 1) \/ c = p.child
    BY <1>3
  <2> QED BY <1>3, <1>6, <2>1, <2>2
<1>9. Taken(r)
  <2>1. CASE r.imp = p.imp /\ r.child = p.child + 1
    <3>1. Current(r) = Current(p) /\ (p.child + 1) - 1 = p.child
      BY <1>3, <1>4, <2>1 DEF Current
    <3>2. \A c \in 1..(r.child - 1) : Holds(r, r.imp, Current(r).to[c])
      BY <1>8, <2>1, <3>1
    <3>3. \A i \in 1..(r.imp - 1) : \A c \in 1..Len(Imports(r.file)[i].to) : Holds(r, i, Imports(r.file)[i].to[c])
      BY <1>4, <1>7, <2>1
    <3> QED BY <3>2, <3>3 DEF Taken
  <2>2. CASE p.child = Len(Current(p).to) /\ r.imp = p.imp + 1 /\ r.child = 1
    <3>1. Passed(p.imp)
      BY <1>8, <2>2 DEF Current
    <3>2. \A i \in 1..(r.imp - 1) : i = p.imp \/ i \in 1..(p.imp - 1)
      BY <1>3, <2>2
    <3>3. \A i \in 1..(r.imp - 1) : Passed(i)
      <4> HIDE DEF Passed
      <4> QED BY <1>7, <3>1, <3>2
    <3>4. 1..(r.child - 1) = {}
      BY <2>2
    <3>5. \A i \in 1..(r.imp - 1) : \A c \in 1..Len(Imports(r.file)[i].to) : Holds(r, i, Imports(r.file)[i].to[c])
      BY <1>4, <3>3
    <3> QED BY <3>4, <3>5 DEF Taken
  <2> QED BY <1>4, <2>1, <2>2
<1> QED BY <1>9 DEF r, q, g

\* Steps that load nothing leave agreements alone.
LEMMA AgreementKept ==
    ASSUME OverridesAgree, files' = files, cache' = cache PROVE OverridesAgree'
BY DEF OverridesAgree, Imports, Discovered

\* Taken means the same of a frame wherever it stands on the stack.
LEMMA TakenTold == ASSUME NEW k, NEW q, q = stack'[k], Taken(q)' PROVE Taken(stack[k])'
<1>1. /\ \A i \in 1..(q.imp - 1) : \A c \in 1..Len(Imports(q.file)'[i].to) : Holds(q, i, Imports(q.file)[i].to[c])'
      /\ q.imp <= Len(Imports(q.file)') => \A c \in 1..(q.child - 1) : Holds(q, q.imp, Current(q).to[c])'
  BY DEF Taken
<1>2. ASSUME NEW i, NEW g, Holds(q, i, g)' PROVE Holds(stack[k], i, g)'
  BY <1>2 DEF Holds, Imports
<1> QED BY <1>1, <1>2 DEF Taken, Imports, Current

\* Steps that leave the stack alone take nothing.
LEMMA TakingKept ==
    ASSUME \A k \in 1..Len(stack) : Taken(stack[k]), UNCHANGED <<files, cache, stack>>
    PROVE  (\A k \in 1..Len(stack) : Taken(stack[k]))'
<1>1. ASSUME NEW k \in 1..Len(stack') PROVE Taken(stack[k])'
  <2>1. PICK q : q = stack'[k]
    OBVIOUS
  <2>2. Taken(q)'
    BY <2>1, TakenKept
  <2> QED BY <2>1, <2>2, TakenTold
<1> QED BY <1>1

\* A frame just pushed has passed no import.
LEMMA EnterModuleTaken ==
    ASSUME IInv, \A k \in 1..Len(stack) : Taken(stack[k]), EnterModule
    PROVE  (\A k \in 1..Len(stack) : Taken(stack[k]))'
<1> DEFINE p == Frame(asked)
<1>1. CASE ~files[asked].reads
  <2>1. UNCHANGED <<files, cache, stack>>
    BY <1>1 DEF EnterModule
  <2> QED BY <2>1, TakingKept
<1>2. CASE files[asked].reads
  <2>1. stack' = Append(stack, p) /\ UNCHANGED <<files, cache>>
    BY <1>2 DEF EnterModule
  <2>2. p.imp = 1 /\ p.child = 1
    BY DEF Frame
  <2> HIDE DEF p
  <2>3. Taken(p)
    BY <2>2 DEF Taken
  <2>4. /\ Len(stack') = Len(stack) + 1 /\ Len(stack) \in Nat
        /\ stack'[Len(stack) + 1] = p /\ \A k \in 1..Len(stack) : stack'[k] = stack[k]
    BY <2>1, SequenceAppended, SequenceShape DEF IInv, StackOK
  <2>5. ASSUME NEW k \in 1..Len(stack') PROVE Taken(stack[k])'
    <3>1. PICK q : q = stack'[k]
      OBVIOUS
    <3>2. Taken(q)
      <4>1. k = Len(stack) + 1 \/ k \in 1..Len(stack)
        BY <2>4
      <4> QED BY <2>3, <2>4, <3>1, <4>1
    <3>3. Taken(q)'
      BY <2>1, <3>2, TakenKept
    <3> QED BY <3>1, <3>3, TakenTold
  <2> QED BY <2>5
<1> QED BY <1>1, <1>2

\* A frame passes an import by taking its overrides.
LEMMA TakeSeedTaken ==
    ASSUME IInv, \A k \in 1..Len(stack) : Taken(stack[k]), TakeSeed
    PROVE  (\A k \in 1..Len(stack) : Taken(stack[k]))'
<1> DEFINE p == Top
           r == Advanced(MergeSeed(p, cache[asked]))
           n == Len(stack)
<1>0. /\ phase = "loading" /\ asked \in DOMAIN cache /\ stack # <<>>
      /\ stack' = [stack EXCEPT ![n] = r] /\ UNCHANGED <<files, cache>>
  BY DEF TakeSeed
<1>1. /\ n \in 1..n /\ p = stack[n] /\ IsPlace(p) /\ IsFrame(p) /\ IsSequence(stack)
      /\ p.imp <= Len(Imports(p.file)) /\ Current(p).to # <<>> /\ asked = Target(p)
  <2>1. asked # NoFile
    BY <1>0, PathAssumption DEF IInv, CacheOK
  <2>2. n \in Nat \ {0} /\ p = stack[n] /\ IsPlace(p) /\ IsFrame(p) /\ p.file \in Files
    BY <1>0, TopFrame DEF IInv
  <2>3. Discovered(p.file) \in 0..Len(Imports(p.file)) /\ Len(Imports(p.file)) \in Nat
    BY <2>2, FileShape DEF IInv, FilesOK
  <2>4. p.imp <= Discovered(p.file) /\ Current(p).to # <<>>
    BY <1>0, <2>1 DEF IInv, PhaseOK, Pending
  <2>5. asked = Target(p)
    BY <1>0, <2>1 DEF IInv, StackIsImportPath
  <2> HIDE DEF p, n
  <2>6. p.imp <= Len(Imports(p.file))
    BY <2>2, <2>3, <2>4 DEF IsPlace
  <2> QED BY <2>2, <2>4, <2>5, <2>6 DEF IInv, StackOK
<1>2. Taken(r)
  <2>1. Taken(p)
    BY <1>1
  <2> HIDE DEF p
  <2> QED BY <1>0, <1>1, <2>1, AdvancedTaken DEF IInv
<1> HIDE DEF r, p
<1>3. Len(stack') = n /\ stack'[n] = r /\ \A k \in 1..n : k # n => stack'[k] = stack[k]
  BY <1>0, <1>1, SequenceReplaced
<1>4. ASSUME NEW k \in 1..Len(stack') PROVE Taken(stack[k])'
  <2>1. PICK q : q = stack'[k]
    OBVIOUS
  <2>2. Taken(q)
    BY <1>2, <1>3, <2>1
  <2>3. Taken(q)'
    BY <1>0, <2>2, TakenKept
  <2> QED BY <2>1, <2>3, TakenTold
<1> QED BY <1>4

\* The module a file is loaded as takes the overrides all its imports that
\* discovery saw agree on: the frame has passed them, and a conflict it met
\* is settled by an override of the file's own.
LEMMA FinishModuleTaken ==
    ASSUME IInv, OverridesAgree, \A k \in 1..Len(stack) : Taken(stack[k]), FinishModule
    PROVE  OverridesAgree' /\ (\A k \in 1..Len(stack) : Taken(stack[k]))'
<1> DEFINE f == Top.file
           n == Len(stack)
           m == cache'[f]
<1>0. /\ stack # <<>> /\ ModuleProblem = "none" /\ Top.imp > Discovered(f)
      /\ stack' = SubSeq(stack, 1, n - 1) /\ files' = files /\ f \notin DOMAIN cache
      /\ DOMAIN cache' = DOMAIN cache \cup {f} /\ \A h \in DOMAIN cache : h # f /\ cache'[h] = cache[h]
      /\ \E S : m.overrides = Only(OverridesAfter, S)
  BY FinishedModule
<1>1. /\ n \in Nat \ {0} /\ n \in 1..n /\ Top = stack[n] /\ f \in Files /\ IsSequence(stack)
      /\ IsPlace(Top) /\ Discovered(f) \in 0..Len(Imports(f)) /\ Len(Imports(f)) \in Nat
  <2>1. n \in Nat \ {0} /\ Top = stack[n] /\ f \in Files /\ IsSequence(stack) /\ IsPlace(Top)
    BY <1>0, TopFrame DEF IInv, StackOK
  <2> QED BY <2>1, FileShape DEF IInv, FilesOK
<1>2. f \notin DOMAIN cache
  BY <1>1 DEF IInv, StackIsImportPath
<1>3. Taken(Top) /\ Top.conflicts \subseteq DOMAIN OwnOverrides /\ OwnOverrides = files[f].overrides
  <2>1. Top.conflicts \subseteq DOMAIN OwnOverrides
    BY <1>0 DEF ModuleProblem
  <2> QED BY <1>1, <2>1 DEF OwnOverrides
<1>4. ASSUME NEW x \in DOMAIN m.overrides \ DOMAIN OwnOverrides
      PROVE  x \in DOMAIN Top.overrides /\ m.overrides[x] = Top.overrides[x] /\ x \notin Top.conflicts
  <2>1. PICK S : m.overrides = Only(OverridesAfter, S)
    BY <1>0
  <2> DEFINE t == OverridesAfter
  <2>2. /\ DOMAIN t = DOMAIN OwnOverrides \cup DOMAIN Top.overrides
        /\ \A y \in DOMAIN Top.overrides \ DOMAIN OwnOverrides : t[y] = Top.overrides[y]
    BY DEF OverridesAfter, Over
  <2> HIDE DEF t, m
  <2>3. DOMAIN m.overrides = DOMAIN t \cap S /\ \A y \in DOMAIN t \cap S : m.overrides[y] = t[y]
    BY <2>1 DEF Only, t
  <2> QED BY <1>3, <1>4, <2>2, <2>3
<1> HIDE DEF f, n, m
<1>5. /\ DOMAIN cache' = DOMAIN cache \cup {f} /\ cache'[f] = m
      /\ \A h \in DOMAIN cache : h # f /\ h \in DOMAIN cache' /\ cache'[h] = cache[h]
  BY <1>0, <1>2 DEF m
<1>6. ASSUME NEW i \in 1..Discovered(f), NEW g \in ToSet(Imports(f)[i].to) PROVE Holds(Top, i, g)
  <2>1. i \in 1..(Top.imp - 1) /\ i \in 1..Len(Imports(f))
    BY <1>0, <1>1 DEF IsPlace
  <2>2. Imports(f)[i].to \in Seq(Files)
    BY <1>1, <2>1, FileShape DEF IInv, FilesOK
  <2>3. PICK c \in 1..Len(Imports(f)[i].to) : g = Imports(f)[i].to[c]
    BY <2>2 DEF ToSet
  <2> QED BY <1>3, <2>1, <2>3 DEF Taken, f
<1>7. OverridesAgree'
  <2>1. ASSUME NEW h \in DOMAIN cache', NEW x \in DOMAIN cache'[h].overrides \ DOMAIN files[h].overrides,
               NEW i \in 1..Discovered(h), NEW g \in ToSet(Imports(h)[i].to),
               Wanted(Imports(h)[i], x), x \in DOMAIN cache'[g].overrides
        PROVE  cache'[g].overrides[x] = cache'[h].overrides[x]
    <3>1. CASE h = f
      <4>1. Holds(Top, i, g)
        BY <1>6, <3>1
      <4>2. g \in DOMAIN cache /\ cache'[g] = cache[g] /\ cache'[h] = m
        BY <1>5, <3>1, <4>1 DEF Holds
      <4>3. x \in DOMAIN Top.overrides /\ m.overrides[x] = Top.overrides[x] /\ x \notin Top.conflicts
        BY <1>3, <1>4, <2>1, <3>1, <4>2
      <4>4. cache[g].overrides[x] = Top.overrides[x]
        BY <2>1, <3>1, <4>1, <4>2, <4>3 DEF Holds, f
      <4> QED BY <4>2, <4>3, <4>4
    <3>2. CASE h # f
      <4>1. h \in DOMAIN cache /\ cache'[h] = cache[h]
        BY <1>5, <3>2
      <4>2. Discovered(h) \in 0..Len(Imports(h)) /\ i \in 1..Len(Imports(h)) /\ Imports(h)[i] \in ToSet(Imports(h))
        BY <4>1, FileShape DEF IInv, FilesOK, CacheOK
      <4>3. g \in DOMAIN cache
        BY <4>1, <4>2 DEF IInv, CacheOK, IdsNameModules
      <4>4. cache'[g] = cache[g]
        BY <1>5, <4>3
      <4> QED BY <2>1, <4>1, <4>4 DEF OverridesAgree
    <3> QED BY <3>1, <3>2
  <2>2. files' = files
    BY <1>0
  <2>3. \A h : Discovered(h)' = Discovered(h) /\ Imports(h)' = Imports(h)
    BY <2>2 DEF Discovered, Imports
  <2>4. \A h \in DOMAIN cache' : \A x \in DOMAIN cache'[h].overrides \ DOMAIN files'[h].overrides :
            \A i \in 1..Discovered(h)' : \A g \in ToSet(Imports(h)'[i].to) :
                Wanted(Imports(h)'[i], x) /\ x \in DOMAIN cache'[g].overrides =>
                    cache'[g].overrides[x] = cache'[h].overrides[x]
    BY <2>1, <2>2, <2>3
  <2> QED BY <2>4 DEF OverridesAgree, Wanted
<1>8. /\ Len(stack') = n - 1 /\ \A k \in 1..(n - 1) : stack'[k] = stack[k]
  BY <1>0, <1>1, SequencePopped DEF n
<1>9. ASSUME NEW k \in 1..Len(stack') PROVE Taken(stack[k])'
  <2>1. PICK q : q = stack'[k]
    OBVIOUS
  <2>2. Taken(q)
    <3>1. q = stack[k] /\ k \in 1..n
      BY <1>1, <1>8, <2>1
    <3> QED BY <3>1 DEF n
  <2>3. Taken(q)'
    BY <1>0, <1>5, <2>2, TakenKept
  <2> QED BY <2>1, <2>3, TakenTold
<1> QED BY <1>7, <1>9

\* Every step keeps the invariant together with what is taken.
LEMMA StepFull == ASSUME Full, [Next]_vars PROVE Full'
<1>1. IInv /\ OverridesAgree /\ \A k \in 1..Len(stack) : Taken(stack[k])
  BY DEF Full
<1>2. IInv'
  BY <1>1, StepIInv
<1>3. CASE UNCHANGED <<files, cache, stack>>
  <2>1. OverridesAgree' /\ (\A k \in 1..Len(stack) : Taken(stack[k]))'
    BY <1>1, <1>3, AgreementKept, TakingKept
  <2> QED BY <1>2, <2>1 DEF Full
<1>4. CASE EnterModule
  <2>1. files' = files /\ cache' = cache
    BY <1>4 DEF EnterModule
  <2>2. OverridesAgree' /\ (\A k \in 1..Len(stack) : Taken(stack[k]))'
    BY <1>1, <1>4, <2>1, AgreementKept, EnterModuleTaken
  <2> QED BY <1>2, <2>2 DEF Full
<1>5. CASE TakeSeed
  <2>1. files' = files /\ cache' = cache
    BY <1>5 DEF TakeSeed
  <2>2. OverridesAgree' /\ (\A k \in 1..Len(stack) : Taken(stack[k]))'
    BY <1>1, <1>5, <2>1, AgreementKept, TakeSeedTaken
  <2> QED BY <1>2, <2>2 DEF Full
<1>6. CASE FinishModule
  <2>1. OverridesAgree' /\ (\A k \in 1..Len(stack) : Taken(stack[k]))'
    BY <1>1, <1>6, FinishModuleTaken
  <2> QED BY <1>2, <2>1 DEF Full
<1>7. \/ UNCHANGED <<files, cache, stack>> \/ EnterModule \/ TakeSeed \/ FinishModule
  BY DEF Next, vars, AskForImport, ReportCycle, RejectModule, StartSplicing, SpliceImport, SpliceModule,
         Stopped, Loading
<1> QED BY <1>3, <1>4, <1>5, <1>6, <1>7

\* For every file tree: a module that takes a syntax override from its
\* imports takes the one all of them that discovery saw agree on, in
\* whatever order `merge_seed` met them.
THEOREM LoaderOverridesAgree == Spec => []OverridesAgree
<1>1. Init => Full
  <2>1. ASSUME Init PROVE OverridesAgree /\ \A k \in 1..Len(stack) : Taken(stack[k])
    <3>1. DOMAIN cache = {} /\ 1..Len(stack) = {}
      BY <2>1 DEF Init
    <3> QED BY <3>1 DEF OverridesAgree
  <2> QED BY <2>1, InitIInv DEF Full
<1>2. Full /\ [Next]_vars => Full'
  BY StepFull
<1>3. Full => OverridesAgree
  BY DEF Full
<1> QED BY <1>1, <1>2, <1>3, PTL DEF Spec

===========================================================================
