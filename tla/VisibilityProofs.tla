-------------------------- MODULE VisibilityProofs ------------------------
(* Visibility for every file tree: cycles are reported exactly when there  *)
(* are some, scopes hold what the imports make visible, and the flattened  *)
(* program holds what its names refer to.                                  *)
EXTENDS Visibility, LoaderProofs

---------------------------------------------------------------------------
(* Reaching files.                                                         *)

LEMMA ReachesItself == ASSUME NEW f \in Files, NEW edges PROVE f \in ReachedFrom(f, edges)
BY DEF ReachedFrom

LEMMA ReachesOn ==
    ASSUME NEW f, NEW edges, NEW g \in ReachedFrom(f, edges), NEW h \in Files, <<g, h>> \in edges
    PROVE  h \in ReachedFrom(f, edges)
<1>1. ASSUME NEW S \in SUBSET Files, f \in S, Closed(S, edges) PROVE h \in S
  <2>1. g \in S
    BY <1>1 DEF ReachedFrom
  <2> QED BY <1>1, <2>1 DEF Closed
<1> QED BY <1>1 DEF ReachedFrom

\* A closed set of files holds what is reached from its members.
LEMMA ReachedWithin ==
    ASSUME NEW edges, NEW S \in SUBSET Files, NEW f \in S, Closed(S, edges)
    PROVE  ReachedFrom(f, edges) \subseteq S
BY DEF ReachedFrom

\* What a member reaches is reached.
LEMMA ReachesThrough ==
    ASSUME NEW f, NEW edges, NEW g \in ReachedFrom(f, edges)
    PROVE  ReachedFrom(g, edges) \subseteq ReachedFrom(f, edges)
<1> SUFFICES ASSUME NEW h \in ReachedFrom(g, edges) PROVE h \in ReachedFrom(f, edges)
  OBVIOUS
<1>1. ASSUME NEW S \in SUBSET Files, f \in S, Closed(S, edges) PROVE h \in S
  <2>1. g \in S
    BY <1>1 DEF ReachedFrom
  <2> QED BY <1>1, <2>1 DEF ReachedFrom
<1> QED BY <1>1 DEF ReachedFrom

\* A pending place leads to its target.
LEMMA PendingLeads ==
    ASSUME FilesOK, NEW p, IsPlace(p), AtChild(p), Pending(p)
    PROVE  <<p.file, Target(p)>> \in Discoverable /\ Target(p) \in Files /\ p.file \in Files
<1>1. p.file \in Files /\ Discovered(p.file) \in 0..Len(Imports(p.file)) /\ Len(Imports(p.file)) \in Nat
  BY FileShape DEF IsPlace, FilesOK
<1>2. p.imp \in 1..Discovered(p.file) /\ p.imp <= Len(Imports(p.file)) /\ Current(p).to # <<>>
  BY <1>1 DEF Pending, IsPlace
<1>3. Target(p) \in Files /\ Target(p) \in ToSet(Current(p).to)
  BY <1>2, AtTarget
<1> DEFINE e == <<p.file, Target(p)>>
<1>4. e \in Files \X Files /\ e[1] = p.file /\ e[2] = Target(p)
  BY <1>1, <1>3
<1> HIDE DEF e
<1>5. e \in Discoverable
  BY <1>2, <1>3, <1>4 DEF Discoverable, Current
<1> QED BY <1>1, <1>3, <1>5 DEF e

\* The files being loaded are reached from those below them.
LEMMA StackReaches ==
    ASSUME IInv, NEW k \in 1..Len(stack), NEW j \in 1..Len(stack), k <= j
    PROVE  stack[j].file \in ReachedFrom(stack[k].file, Discoverable)
<1> DEFINE n    == Len(stack)
           from == ReachedFrom(stack[k].file, Discoverable)
           U    == {i \in 0..n : k <= i => stack[i].file \in from}
<1>1. n \in Nat /\ \A i \in 1..n : IsPlace(stack[i]) /\ AtChild(stack[i]) /\ stack[i].file \in Files
  BY SequenceShape DEF IInv, StackOK, IsFrame, IsPlace
<1>2. 0 \in U
  BY <1>1
<1>3. ASSUME NEW i \in 0..n, i # n, i \in U PROVE i + 1 \in U
  <2>1. i + 1 \in 1..n
    BY <1>1, <1>3
  <2>2. CASE k = i + 1
    BY <1>1, <2>1, <2>2, ReachesItself
  <2>3. CASE k <= i
    <3>1. i \in 1..(n - 1) /\ i \in 1..n /\ i + 1 # 1 /\ (i + 1) - 1 = i
      BY <1>1, <1>3, <2>3
    <3>2. Pending(stack[i]) /\ stack[i + 1].file = Target(stack[i])
      BY <2>1, <3>1 DEF IInv, StackOK, StackIsImportPath
    <3>3. <<stack[i].file, stack[i + 1].file>> \in Discoverable /\ stack[i + 1].file \in Files
      BY <1>1, <3>1, <3>2, PendingLeads DEF IInv
    <3>4. stack[i + 1].file \in from
      <4>1. stack[i].file \in from
        BY <1>3, <2>3
      <4> HIDE DEF from
      <4> QED BY <3>3, <4>1, ReachesOn DEF from
    <3> QED BY <2>1, <3>4
  <2>4. CASE ~(k <= i + 1)
    BY <2>1, <2>4
  <2> QED BY <1>1, <1>3, <2>2, <2>3, <2>4
<1>4. 0..n \subseteq U
  <2> HIDE DEF U, n
  <2> QED BY <1>1, <1>2, <1>3, IntervalInduction
<1> QED BY <1>1, <1>4

---------------------------------------------------------------------------
(* Cycles.                                                                 *)

\* Where the load is among the files it can reach, and how it met a cycle.
CycleInv ==
    /\ DOMAIN cache \subseteq Reached
    /\ phase \in {"splicing", "done"} => Entry \in DOMAIN cache
    /\ problem = "cyclic_import" => stack # <<>> /\ asked \in Files /\ OnStack(asked) /\ Pending(Top)

LEMMA InitCycleInv == Init => CycleInv
BY DEF Init, CycleInv

\* What is wrong with a module is no cycle.
LEMMA RejectedOtherwise == ModuleProblem # "cyclic_import"
<1>1. \A import : ImportProblem(import) \in {"module_not_found", "panic", "unknown_name", "none"}
  BY DEF ImportProblem
<1> QED BY <1>1 DEF ModuleProblem

LEMMA ReachedKept == ASSUME files' = files PROVE Reached' = Reached
BY DEF Reached, ReachedFrom, Closed, Discoverable, Discovered, Imports

LEMMA StepCycleInv == ASSUME IInv, CycleInv, [Next]_vars PROVE CycleInv'
<1>1. phase = "loading" => problem = "none"
  BY DEF IInv, PhaseOK
<1>2. CASE UNCHANGED <<files, cache, phase>> /\ problem' # "cyclic_import"
  BY <1>2, ReachedKept DEF CycleInv
<1>3. CASE UNCHANGED <<files, cache>> /\ phase' = "failed" /\ problem' # "cyclic_import"
  BY <1>3, ReachedKept DEF CycleInv
<1>4. CASE AskForImport \/ EnterModule
  <2>1. /\ UNCHANGED <<files, cache>>
        /\ phase' \in {phase, "failed"} /\ problem' \in {problem, "module_not_found", "unreadable"}
    BY <1>4 DEF AskForImport, EnterModule, Fail
  <2>2. phase = "loading"
    BY <1>4 DEF AskForImport, EnterModule
  <2> QED BY <1>1, <1>2, <1>3, <2>1, <2>2
<1>5. CASE TakeSeed
  BY <1>1, <1>2, <1>5 DEF TakeSeed
<1>6. CASE RejectModule
  <2>1. UNCHANGED <<files, cache>> /\ phase' \in {"failed", "panicked"} /\ problem' # "cyclic_import"
    BY <1>6, RejectedOtherwise DEF RejectModule, Loading
  <2> QED BY <2>1, ReachedKept DEF CycleInv
<1>7. CASE ReportCycle
  <2>1. /\ phase = "loading" /\ asked \in Files /\ OnStack(asked) /\ phase' = "failed"
        /\ UNCHANGED <<files, cache, stack, asked>>
    BY <1>7 DEF ReportCycle, Fail, Loading
  <2>2. stack # <<>>
    BY <2>1 DEF OnStack
  <2>3. Pending(Top)
    BY <2>1, <2>2, PathAssumption DEF IInv, PhaseOK
  <2>4. stack' # <<>> /\ asked' \in Files /\ OnStack(asked)' /\ Pending(Top)'
    BY <2>1, <2>2, <2>3 DEF OnStack, Pending, Discovered, Imports, Current, Top
  <2> QED BY <2>1, <2>4, ReachedKept DEF CycleInv
<1>8. CASE FinishModule
  <2> DEFINE f == Top.file
  <2>1. /\ phase = "loading" /\ stack # <<>> /\ UNCHANGED <<files, phase, problem>>
        /\ DOMAIN cache' = DOMAIN cache \cup {f}
    BY <1>8 DEF FinishModule, ImportsLoaded, IInv, PhaseOK
  <2>2. f \in Reached
    <3>1. Len(stack) \in 1..Len(stack) /\ 1 \in 1..Len(stack) /\ 1 <= Len(stack) /\ Top = stack[Len(stack)]
      BY <2>1, TopFrame DEF IInv
    <3>2. stack[1].file = Entry
      BY <3>1 DEF IInv, StackIsImportPath
    <3> QED BY <3>1, <3>2, StackReaches DEF Reached
  <2> QED BY <1>1, <2>1, <2>2, ReachedKept DEF CycleInv
<1>9. CASE StartSplicing
  <2>1. /\ phase = "loading" /\ asked \in DOMAIN cache /\ stack = <<>> /\ phase' = "splicing"
        /\ UNCHANGED <<files, cache, problem>>
    BY <1>9 DEF StartSplicing, Loading
  <2>2. asked = Entry
    BY <2>1, PathAssumption DEF IInv, CacheOK, StackIsImportPath
  <2> QED BY <1>1, <2>1, <2>2, ReachedKept DEF CycleInv
<1>10. CASE SpliceImport \/ SpliceModule
  <2>1. /\ phase = "splicing" /\ phase' \in {"splicing", "done"} /\ UNCHANGED <<files, cache, problem>>
    BY <1>10 DEF SpliceImport, SpliceModule, Loading
  <2>2. problem = "none"
    BY <2>1 DEF IInv, PhaseOK
  <2> QED BY <2>1, <2>2, ReachedKept DEF CycleInv
<1>11. CASE Stopped \/ UNCHANGED vars
  BY <1>11, ReachedKept DEF Stopped, CycleInv, vars, OnStack, Pending, Discovered, Imports, Current, Top
<1> QED BY <1>4, <1>5, <1>6, <1>7, <1>8, <1>9, <1>10, <1>11 DEF Next

\* A cycle met is there, and the files being loaded contain it.
LEMMA CycleMet ==
    ASSUME IInv, CycleInv, problem = "cyclic_import"
    PROVE  /\ Cyclic
           /\ \E k \in 1..Len(stack) :
                  /\ stack[k].file = asked
                  /\ \A j \in k..Len(stack) : Target(stack[j]) = stack[IF j = Len(stack) THEN k ELSE j + 1].file
<1> DEFINE n == Len(stack)
<1>1. stack # <<>> /\ asked \in Files /\ Pending(Top)
  BY DEF CycleInv
<1>2. PICK k \in 1..n : stack[k].file = asked
  BY DEF CycleInv, OnStack
<1>3. n \in Nat \ {0} /\ n \in 1..n /\ Top = stack[n] /\ IsPlace(Top) /\ AtChild(Top)
  BY <1>1, TopFrame DEF IInv, IsFrame
<1>4. Target(Top) = asked
  BY <1>1, PathAssumption DEF IInv, StackIsImportPath
<1>5. \A j \in k..n : Target(stack[j]) = stack[IF j = n THEN k ELSE j + 1].file
  <2>1. CASE n = 0
    BY <1>3, <2>1
  <2>2. ASSUME NEW j \in k..n PROVE Target(stack[j]) = stack[IF j = n THEN k ELSE j + 1].file
    <3>1. CASE j = n
      BY <1>2, <1>3, <1>4, <3>1
    <3>2. CASE j # n
      <4>1. j + 1 \in 1..n /\ j + 1 # 1 /\ (j + 1) - 1 = j
        BY <1>3, <3>2
      <4> QED BY <3>2, <4>1 DEF IInv, StackIsImportPath
    <3> QED BY <3>1, <3>2
  <2> QED BY <2>2
<1>6. Cyclic
  <2> DEFINE e == <<Top.file, asked>>
  <2>1. e \in Discoverable /\ e[1] = Top.file /\ e[2] = asked
    BY <1>1, <1>3, <1>4, PendingLeads DEF IInv
  <2>2. Top.file \in ReachedFrom(asked, Discoverable)
    BY <1>2, <1>3, StackReaches
  <2>3. Top.file \in ReachedFrom(Entry, Discoverable)
    <3>1. 1 \in 1..n /\ 1 <= n
      BY <1>3
    <3>2. stack[1].file = Entry
      BY <3>1 DEF IInv, StackIsImportPath
    <3> QED BY <1>3, <3>1, <3>2, StackReaches
  <2> HIDE DEF e
  <2> QED BY <2>1, <2>2, <2>3 DEF Cyclic
<1> QED BY <1>2, <1>5, <1>6

\* What loaded files import was loaded before.
LEMMA ImportsFall ==
    ASSUME IInv, NEW e \in Discoverable, e[1] \in DOMAIN cache
    PROVE  e[2] \in DOMAIN cache /\ cache[e[2]].id < cache[e[1]].id
<1>1. e[1] \in Files
  BY DEF IInv, CacheOK
<1>2. PICK i \in 1..Discovered(e[1]) : e[2] \in ToSet(Imports(e[1])[i].to)
  BY DEF Discoverable
<1>3. Imports(e[1])[i] \in ToSet(Imports(e[1]))
  <2>1. i \in 1..Len(Imports(e[1]))
    BY <1>1, FileShape DEF IInv, FilesOK
  <2> QED BY <1>1, <2>1, FileShape DEF IInv, FilesOK
<1> QED BY <1>2, <1>3 DEF IInv, CacheOK, IdsNameModules

LEMMA CacheIsClosed == ASSUME IInv PROVE Closed(DOMAIN cache, Discoverable)
BY ImportsFall DEF Closed

\* Ids fall along imports, so loaded files are in no cycle.
LEMMA NoCycleLoaded == ASSUME IInv, CycleInv, Settled PROVE ~Cyclic /\ DOMAIN cache = Reached
<1>1. DOMAIN cache \in SUBSET Files /\ Entry \in DOMAIN cache
  BY DEF IInv, CacheOK, CycleInv, Settled
<1>2. Reached \subseteq DOMAIN cache
  BY <1>1, CacheIsClosed, ReachedWithin DEF Reached
<1>3. ~Cyclic
  <2> SUFFICES ASSUME NEW e \in Discoverable, e[1] \in ReachedFrom(Entry, Discoverable),
                      e[1] \in ReachedFrom(e[2], Discoverable)
               PROVE  FALSE
    BY DEF Cyclic
  <2> DEFINE S == {x \in DOMAIN cache : cache[x].id <= cache[e[2]].id}
  <2>1. \A d \in Discoverable : d[1] \in DOMAIN cache =>
            d[2] \in DOMAIN cache /\ cache[d[2]].id < cache[d[1]].id
    BY ImportsFall
  <2>2. e[1] \in DOMAIN cache
    BY <1>2 DEF Reached
  <2>3. e[2] \in DOMAIN cache /\ cache[e[2]].id < cache[e[1]].id
    BY <2>1, <2>2
  <2>4. \A x \in DOMAIN cache : cache[x].id \in Nat
    BY DEF IInv, CacheOK, Module
  <2>5. Closed(S, Discoverable)
    BY <2>1, <2>3, <2>4 DEF Closed
  <2>6. S \in SUBSET Files /\ e[2] \in S
    BY <1>1, <2>3, <2>4
  <2>7. e[1] \in S
    <3> HIDE DEF S
    <3> QED BY <2>5, <2>6, ReachedWithin
  <2> QED BY <2>2, <2>3, <2>4, <2>7
<1> QED BY <1>2, <1>3 DEF CycleInv

\* For every file tree: a cycle is reported exactly when one can be met, the
\* files being loaded contain it, and a program holds every file it reaches.
THEOREM LoaderReportsCycles == Spec => []CyclesReported
<1>1. IInv /\ CycleInv /\ [Next]_vars => (IInv /\ CycleInv)'
  BY StepIInv, StepCycleInv
<1>2. IInv /\ CycleInv => CyclesReported
  BY CycleMet, NoCycleLoaded DEF CyclesReported
<1>3. Init => IInv /\ CycleInv
  BY InitIInv, InitCycleInv
<1> QED BY <1>1, <1>2, <1>3, PTL DEF Spec

---------------------------------------------------------------------------
(* What names mean.                                                        *)

\* t knows n when there are files S to have it from, and means members of
\* S, which are modules of c.
Means(t, n, S, c) ==
    /\ n \in DOMAIN t <=> S # {}
    /\ n \in DOMAIN t => \A id \in t[n].of : \E g \in S \cap DOMAIN c : c[g].id = id

OwnName(f, n) == \E d \in ToSet(files[f].decls) : d.name = n
Seen(f, n)    == Visible(f, n) \cup (IF OwnName(f, n) THEN {f} ELSE {})

\* A loaded file exports what it offers and its scope has what it sees.
NamesInv ==
    \A f \in DOMAIN cache : \A n \in Identifiers :
        Means(cache[f].exports, n, Offered(f, n), cache) /\ Means(cache[f].scope, n, Seen(f, n), cache)

LEMMA MeansKept ==
    ASSUME NEW t, NEW n, NEW S, NEW c, NEW d, Means(t, n, S, c),
           \A g \in DOMAIN c : g \in DOMAIN d /\ d[g] = c[g]
    PROVE  Means(t, n, S, d)
BY DEF Means

\* A file reaches itself and what its neighbours reach.
LEMMA ReachedUnfolds ==
    ASSUME NEW f \in Files, NEW edges \in SUBSET (Files \X Files)
    PROVE  ReachedFrom(f, edges) =
               {f} \cup UNION {ReachedFrom(h, edges) : h \in {h \in Files : <<f, h>> \in edges}}
<1> DEFINE next == {h \in Files : <<f, h>> \in edges}
           S    == {f} \cup UNION {ReachedFrom(h, edges) : h \in next}
<1>1. \A h : ReachedFrom(h, edges) \subseteq Files
  BY DEF ReachedFrom
<1>2. S \in SUBSET Files /\ f \in S
  BY <1>1
<1>3. Closed(S, edges)
  <2> SUFFICES ASSUME NEW e \in edges, e[1] \in S PROVE e[2] \in S
    BY DEF Closed
  <2>1. e[2] \in Files /\ e = <<e[1], e[2]>>
    OBVIOUS
  <2>2. CASE e[1] = f
    <3>1. e[2] \in next /\ e[2] \in ReachedFrom(e[2], edges)
      BY <2>1, <2>2, ReachesItself
    <3> QED BY <3>1
  <2>3. CASE e[1] # f
    <3>1. PICK h \in next : e[1] \in ReachedFrom(h, edges)
      BY <2>3
    <3>2. e[2] \in ReachedFrom(h, edges)
      BY <2>1, <3>1, ReachesOn
    <3> QED BY <3>1, <3>2
  <2> QED BY <2>2, <2>3
<1>4. ReachedFrom(f, edges) \subseteq S
  <2> HIDE DEF S
  <2> QED BY <1>2, <1>3, ReachedWithin
<1>5. ASSUME NEW h \in next PROVE ReachedFrom(h, edges) \subseteq ReachedFrom(f, edges)
  <2>1. h \in ReachedFrom(f, edges)
    BY ReachesItself, ReachesOn
  <2> QED BY <2>1, ReachesThrough
<1> QED BY <1>4, <1>5, ReachesItself

\* A file offers what it declares, and what its public imports bring.
LEMMA OfferedUnfolds ==
    ASSUME NEW f \in Files, NEW n
    PROVE  Offered(f, n) = (IF Declares(f, n, {"decl", "macro"}) THEN {f} ELSE {}) \cup Brought(f, n, TRUE)
<1> DEFINE edges   == Reexporting(n)
           next    == {h \in Files : <<f, h>> \in edges}
           D(S)    == {g \in S : Declares(g, n, {"decl", "macro"})}
           L(S)    == UNION {LabelImports(g, n, TRUE) : g \in S}
           from(h) == ReachedFrom(h, edges)
<1>1. edges \in SUBSET (Files \X Files)
  BY DEF Reexporting
<1>2. from(f) = {f} \cup UNION {from(h) : h \in next}
  <2> HIDE DEF edges
  <2> QED BY <1>1, ReachedUnfolds
<1>3. \A h : Offered(h, n) = D(from(h)) \cup L(from(h))
  BY DEF Offered
<1>4. next = {h \in Files : Carries(f, h, n, TRUE)}
  BY DEF Reexporting
<1> HIDE DEF edges, next, from
<1>5. D(from(f)) = D({f}) \cup UNION {D(from(h)) : h \in next}
  BY <1>2
<1>6. L(from(f)) = LabelImports(f, n, TRUE) \cup UNION {L(from(h)) : h \in next}
  <2>1. \A S : \A x : x \in L(S) <=> \E g \in S : x \in LabelImports(g, n, TRUE)
    OBVIOUS
  <2> HIDE DEF L
  <2>2. \A x : x \in L(from(f)) <=> x \in LabelImports(f, n, TRUE) \/ \E h \in next : x \in L(from(h))
    <3>1. \A g : g \in from(f) <=> g = f \/ \E h \in next : g \in from(h)
      BY <1>2
    <3>2. \A x : x \in L(from(f)) <=> \E g \in from(f) : x \in LabelImports(g, n, TRUE)
      BY <2>1
    <3>3. \A h : \A x : x \in L(from(h)) <=> \E g \in from(h) : x \in LabelImports(g, n, TRUE)
      BY <2>1
    <3> QED BY <3>1, <3>2, <3>3
  <2> QED BY <2>2
<1>7. UNION {Offered(h, n) : h \in next} = (UNION {D(from(h)) : h \in next}) \cup (UNION {L(from(h)) : h \in next})
  <2> HIDE DEF D, L
  <2> QED BY <1>3
<1>8. D({f}) = IF Declares(f, n, {"decl", "macro"}) THEN {f} ELSE {}
  OBVIOUS
<1> HIDE DEF D, L
<1>9. Brought(f, n, TRUE) = LabelImports(f, n, TRUE) \cup UNION {Offered(h, n) : h \in next}
  BY <1>4 DEF Brought
<1> QED BY <1>3, <1>5, <1>6, <1>7, <1>8, <1>9

\* Names of merged tables are names of some table, and mean no more.
LEMMA MergedNames ==
    ASSUME NEW tables \in Seq(Tables), NEW n
    PROVE  LET t == Merged(tables) IN
           /\ n \in DOMAIN t <=> \E s \in ToSet(tables) : n \in DOMAIN s
           /\ n \in DOMAIN t => \A id \in t[n].of : \E s \in ToSet(tables) : n \in DOMAIN s /\ id \in s[n].of
<1> DEFINE l == Len(tables)
           Known(k) == \E i \in 1..k : n \in DOMAIN tables[i]
           Given(k, id) == \E i \in 1..k : n \in DOMAIN tables[i] /\ id \in tables[i][n].of
<1>1. PICK g : Merging(g, tables)
  BY MergedUnfolds
<1>2. /\ l \in Nat /\ DOMAIN tables = 1..l /\ g[0] = NoNames /\ Merged(tables) = g[l]
      /\ \A k \in 1..l : g[k] = MergeTables(g[k - 1], tables[k])
  BY <1>1 DEF Merging
<1> DEFINE U == {k \in 0..l : /\ n \in DOMAIN g[k] <=> Known(k)
                              /\ n \in DOMAIN g[k] => \A id \in g[k][n].of : Given(k, id)}
<1> HIDE DEF l
<1>3. 0 \in U
  <2>1. DOMAIN g[0] = {} /\ 1..0 = {}
    BY <1>2 DEF NoNames
  <2> QED BY <1>2, <2>1
<1>4. ASSUME NEW k \in 0..l, k # l, k \in U PROVE k + 1 \in U
  <2>1. k + 1 \in 0..l /\ k + 1 \in 1..l /\ (k + 1) - 1 = k /\ 1..(k + 1) = 1..k \cup {k + 1}
    BY <1>2, <1>4
  <2> DEFINE s == g[k]
             t == tables[k + 1]
             m == g[k + 1]
  <2>2. m = MergeTables(s, t)
    BY <1>2, <2>1
  <2> HIDE DEF s, t, m
  <2>3. /\ DOMAIN m = DOMAIN s \cup DOMAIN t
        /\ n \in DOMAIN m => m[n] = IF n \notin DOMAIN t THEN s[n]
                                    ELSE IF n \notin DOMAIN s THEN t[n] ELSE Merge(s[n], t[n])
    BY <2>2 DEF MergeTables
  <2>4. \A a, b : Merge(a, b).of \subseteq a.of \cup b.of
    BY DEF Merge, Macros, Ambiguous, Bound
  <2>5. n \in DOMAIN m => \A id \in m[n].of :
            (n \in DOMAIN s /\ id \in s[n].of) \/ (n \in DOMAIN t /\ id \in t[n].of)
    BY <2>3, <2>4
  <2>6. n \in DOMAIN m <=> Known(k + 1)
    BY <1>4, <2>1, <2>3 DEF s, t
  <2>7. n \in DOMAIN m => \A id \in m[n].of : Given(k + 1, id)
    BY <1>4, <2>1, <2>5 DEF s, t
  <2> QED BY <2>1, <2>6, <2>7 DEF m
<1>5. 0..l \subseteq U
  <2> HIDE DEF U
  <2> QED BY <1>2, <1>3, <1>4, IntervalInduction
<1>6. l \in U
  <2>1. l \in 0..l
    BY <1>2
  <2> HIDE DEF U
  <2> QED BY <1>5, <2>1
<1> QED BY <1>2, <1>6 DEF ToSet

\* The same of tables combined.
LEMMA CombinedNames ==
    ASSUME NEW explicit \in Seq(Tables), NEW glob \in Seq(Tables), NEW n
    PROVE  LET t == Combined(explicit, glob)
               from == ToSet(explicit) \cup ToSet(glob) IN
           /\ n \in DOMAIN t <=> \E s \in from : n \in DOMAIN s
           /\ n \in DOMAIN t => \A id \in t[n].of : \E s \in from : n \in DOMAIN s /\ id \in s[n].of
<1> DEFINE e == Merged(explicit)
           g == Merged(glob)
           t == Combined(explicit, glob)
<1>1. /\ n \in DOMAIN e <=> \E s \in ToSet(explicit) : n \in DOMAIN s
      /\ n \in DOMAIN e => \A id \in e[n].of : \E s \in ToSet(explicit) : n \in DOMAIN s /\ id \in s[n].of
  BY MergedNames
<1>2. /\ n \in DOMAIN g <=> \E s \in ToSet(glob) : n \in DOMAIN s
      /\ n \in DOMAIN g => \A id \in g[n].of : \E s \in ToSet(glob) : n \in DOMAIN s /\ id \in s[n].of
  BY MergedNames
<1>3. /\ DOMAIN t = DOMAIN e \cup DOMAIN g
      /\ n \in DOMAIN t => t[n] = IF n \in DOMAIN e THEN e[n] ELSE g[n]
  BY DEF Combined, Over
<1> HIDE DEF e, g, t
<1> QED BY <1>1, <1>2, <1>3 DEF t

\* A file's own names shadow what it imports; macros join.
LEMMA ShadowMeans ==
    ASSUME NEW s, NEW t, NEW n, NEW S, NEW T, NEW c, Means(s, n, S, c), Means(t, n, T, c)
    PROVE  Means(Shadow(s, t), n, S \cup T, c)
<1> DEFINE m == Shadow(s, t)
<1>1. DOMAIN m = DOMAIN s \cup DOMAIN t
  BY DEF Shadow
<1>2. n \in DOMAIN m => \/ n \notin DOMAIN s /\ m[n] = t[n]
                        \/ n \in DOMAIN s /\ m[n] = s[n]
                        \/ n \in DOMAIN s /\ n \in DOMAIN t /\ m[n] = Macros(s[n].of \cup t[n].of)
  BY DEF Shadow
<1>3. Macros(s[n].of \cup t[n].of).of = s[n].of \cup t[n].of
  BY DEF Macros, Bound
<1> HIDE DEF m
<1>4. n \in DOMAIN m => \A id \in m[n].of :
          (n \in DOMAIN s /\ id \in s[n].of) \/ (n \in DOMAIN t /\ id \in t[n].of)
  BY <1>1, <1>2, <1>3
<1> QED BY <1>1, <1>4 DEF Means, m

\* A file's own names mean itself.
LEMMA OwnMeans ==
    ASSUME NEW decls \in SUBSET Decl, NEW c, NEW f \in DOMAIN c, NEW n
    PROVE  Means(Own(f, c[f].id, decls), n, IF \E d \in decls : d.name = n THEN {f} ELSE {}, c)
<1> DEFINE id == c[f].id
           t  == Own(f, id, decls)
           of == CHOOSE d \in decls : d.name = n
<1>1. DOMAIN t = {d.name : d \in decls}
  BY DEF Own
<1>2. n \in DOMAIN t => t[n] = CASE of.kind = "decl"  -> DeclOf(id)
                                [] of.kind = "macro" -> Macros({id})
                                [] of.kind = "label" -> LabelOf(id)
  BY DEF Own
<1>3. n \in DOMAIN t => of \in decls
  BY <1>1
<1>4. DeclOf(id).of = {id} /\ Macros({id}).of = {id} /\ LabelOf(id).of = {id}
  BY DEF DeclOf, Macros, LabelOf, Bound
<1> HIDE DEF t, of, id
<1>5. n \in DOMAIN t => t[n].of = {id}
  BY <1>2, <1>3, <1>4 DEF Decl
<1> QED BY <1>1, <1>5 DEF Means, t, id

\* What is known of an import.
LEMMA ImportShape ==
    ASSUME NEW import \in Import
    PROVE  import.to \in Seq(Files) /\ import.names \in Seq(Identifiers) /\ import.span \in Nat /\ import.pub \in BOOLEAN
BY DEF Import

LEMMA LoadedImport ==
    ASSUME NEW imports, Loaded(imports), NEW import \in ToSet(imports)
    PROVE  /\ import \in Import /\ import.to # <<>> /\ ToSet(import.to) \subseteq DOMAIN cache
           /\ import.to \in Seq(Files) /\ import.to[1] \in ToSet(import.to)
<1>1. PICK i \in 1..Len(imports) : import = imports[i]
  BY DEF Loaded, ToSet
<1>2. import \in Import /\ import.to # <<>> /\ ToSet(import.to) \subseteq DOMAIN cache
  BY <1>1 DEF Loaded
<1>3. import.to \in Seq(Files)
  BY <1>2, ImportShape
<1> QED BY <1>2, <1>3 DEF ToSet

\* The tables imports bring, one by one.
LEMMA ExplicitTables ==
    ASSUME NEW imports, Loaded(imports), NEW import \in ToSet(imports)
    PROVE  (IF import.form = "names" THEN NamedTable(import) ELSE NoNames) \in ToSet(Explicit(imports))
<1>1. PICK i \in DOMAIN imports : import = imports[i]
  BY DEF Loaded, ToSet
<1>2. DOMAIN Explicit(imports) = DOMAIN imports /\ Len(Explicit(imports)) = Len(imports)
  BY DEF Explicit, Loaded
<1>3. Explicit(imports)[i] = IF import.form = "names" THEN NamedTable(import) ELSE NoNames
  BY <1>1 DEF Explicit
<1> QED BY <1>1, <1>2, <1>3 DEF ToSet

LEMMA TablesExplicit ==
    ASSUME NEW imports, Loaded(imports), NEW t \in ToSet(Explicit(imports))
    PROVE  \E import \in ToSet(imports) : t = IF import.form = "names" THEN NamedTable(import) ELSE NoNames
<1>1. DOMAIN Explicit(imports) = DOMAIN imports /\ DOMAIN imports = 1..Len(imports)
      /\ Len(Explicit(imports)) = Len(imports)
  BY DEF Explicit, Loaded
<1>2. PICK i \in DOMAIN imports : t = Explicit(imports)[i]
  BY <1>1 DEF ToSet
<1>3. t = IF imports[i].form = "names" THEN NamedTable(imports[i]) ELSE NoNames
  BY <1>2 DEF Explicit
<1> QED BY <1>1, <1>3 DEF ToSet

LEMMA GlobTables ==
    ASSUME CacheOK, NEW imports, Loaded(imports), NEW t
    PROVE  t \in ToSet(Glob(imports)) <=>
               \E import \in ToSet(imports) : \E h \in ToSet(import.to) :
                   import.form # "names" /\ t = cache[h].exports
<1> DEFINE Of(import) == IF import.form = "names" THEN <<>>
                         ELSE [k \in DOMAIN import.to |-> cache[import.to[k]].exports]
           ss == [i \in DOMAIN imports |-> Of(imports[i])]
<1>1. /\ Len(imports) \in Nat /\ DOMAIN imports = 1..Len(imports)
      /\ \A i \in 1..Len(imports) : imports[i].to \in Seq(Files)
  BY ImportShape DEF Loaded
<1>2. \A i \in 1..Len(imports) : Of(imports[i]) \in Seq(Tables)
  <2> SUFFICES ASSUME NEW i \in 1..Len(imports) PROVE Of(imports[i]) \in Seq(Tables)
    OBVIOUS
  <2> DEFINE to == imports[i].to
  <2>1. to \in Seq(Files) /\ ToSet(to) \subseteq DOMAIN cache
    BY <1>1 DEF Loaded
  <2> HIDE DEF to
  <2>2. \A k \in 1..Len(to) : to[k] \in DOMAIN cache
    BY <2>1 DEF ToSet
  <2>3. \A k \in 1..Len(to) : cache[to[k]].exports \in Tables
    BY <2>2 DEF CacheOK
  <2>4. <<>> \in Seq(Tables) /\ [k \in DOMAIN to |-> cache[to[k]].exports] \in Seq(Tables)
    BY <2>1, <2>3
  <2> QED BY <2>4 DEF to
<1> HIDE DEF Of
<1>3. ss \in Seq(Seq(Tables)) /\ Len(ss) = Len(imports) /\ \A i \in 1..Len(imports) : ss[i] = Of(imports[i])
  BY <1>1, <1>2
<1>4. Glob(imports) = FlattenSeq(ss)
  BY DEF Glob, Of
<1>5. t \in ToSet(FlattenSeq(ss)) <=> \E i \in 1..Len(ss) : t \in ToSet(ss[i])
  <2> HIDE DEF ss
  <2> QED BY <1>3, FlattenSeqElements
<1>6. ASSUME NEW i \in 1..Len(imports)
      PROVE  t \in ToSet(Of(imports[i])) <=>
                 \E h \in ToSet(imports[i].to) : imports[i].form # "names" /\ t = cache[h].exports
  <2> DEFINE to == imports[i].to
             es == [k \in DOMAIN to |-> cache[to[k]].exports]
  <2>1. to \in Seq(Files)
    BY <1>1
  <2> HIDE DEF to
  <2>2. ToSet(<<>>) = {}
    BY DEF ToSet
  <2>3. t \in ToSet(es) <=> \E h \in ToSet(to) : t = cache[h].exports
    BY <2>1 DEF ToSet
  <2>4. Of(imports[i]) = IF imports[i].form = "names" THEN <<>> ELSE es
    BY DEF Of, to
  <2> QED BY <2>2, <2>3, <2>4 DEF to
<1> HIDE DEF ss
<1>7. t \in ToSet(Glob(imports)) <=> \E i \in 1..Len(imports) :
          \E h \in ToSet(imports[i].to) : imports[i].form # "names" /\ t = cache[h].exports
  BY <1>3, <1>4, <1>5, <1>6
<1> QED BY <1>1, <1>7 DEF ToSet

\* The public imports of a file.
LEMMA PublicElements ==
    ASSUME NEW imports, Loaded(imports), NEW import
    PROVE  import \in ToSet(Public(imports)) <=> import \in ToSet(imports) /\ import.pub
<1> DEFINE Of(i) == IF imports[i].pub THEN <<imports[i]>> ELSE <<>>
           ss == [i \in DOMAIN imports |-> Of(i)]
<1>1. Len(imports) \in Nat /\ DOMAIN imports = 1..Len(imports) /\ \A i \in 1..Len(imports) : imports[i] \in Import
  BY DEF Loaded
<1>2. \A i \in 1..Len(imports) : Of(i) \in Seq(Import)
  BY <1>1
<1>3. \A i \in 1..Len(imports) : ToSet(Of(i)) = IF imports[i].pub THEN {imports[i]} ELSE {}
  BY DEF ToSet
<1> HIDE DEF Of
<1>4. ss \in Seq(Seq(Import)) /\ Len(ss) = Len(imports) /\ \A i \in 1..Len(imports) : ss[i] = Of(i)
  BY <1>1, <1>2
<1>5. Public(imports) = FlattenSeq(ss)
  BY DEF Public, Of
<1>6. import \in ToSet(FlattenSeq(ss)) <=> \E i \in 1..Len(ss) : import \in ToSet(ss[i])
  <2> HIDE DEF ss
  <2> QED BY <1>4, FlattenSeqElements
<1> HIDE DEF ss
<1>7. import \in ToSet(Public(imports)) <=> \E i \in 1..Len(imports) : imports[i].pub /\ import = imports[i]
  BY <1>3, <1>4, <1>5, <1>6
<1> QED BY <1>1, <1>7 DEF ToSet

\* What a name of an import's target adds.
LEMMA TargetBrings ==
    ASSUME CacheOK, NamesInv, NEW f \in Files, NEW pub \in BOOLEAN, NEW n \in Identifiers,
           NEW import \in ToSet(Imports(f)), pub => import.pub, Wanted(import, n),
           NEW h \in ToSet(import.to), h \in DOMAIN cache, n \in DOMAIN cache[h].exports
    PROVE  /\ Brought(f, n, pub) # {}
           /\ \A id \in cache[h].exports[n].of : \E g \in Brought(f, n, pub) \cap DOMAIN cache : cache[g].id = id
<1>1. h \in Files
  BY DEF CacheOK
<1>2. Carries(f, h, n, pub)
  BY DEF Carries
<1>3. Offered(h, n) \subseteq Brought(f, n, pub)
  BY <1>1, <1>2 DEF Brought
<1>4. Means(cache[h].exports, n, Offered(h, n), cache)
  BY DEF NamesInv
<1> QED BY <1>3, <1>4 DEF Means

\* A file's imports mean what they bring.
LEMMA BroughtMeans ==
    ASSUME CacheOK, NamesInv, NEW f \in Files, NEW pub \in BOOLEAN, NEW n \in Identifiers,
           Loaded(Imports(f)), \A i \in DOMAIN Imports(f) : ImportProblem(Imports(f)[i]) = "none",
           NEW imports, Loaded(imports),
           \A import : import \in ToSet(imports) <=> import \in ToSet(Imports(f)) /\ (pub => import.pub)
    PROVE  Means(Combined(Explicit(imports), Glob(imports)), n, Brought(f, n, pub), cache)
<1> DEFINE t    == Combined(Explicit(imports), Glob(imports))
           from == ToSet(Explicit(imports)) \cup ToSet(Glob(imports))
           T    == Brought(f, n, pub)
           Adds(s) == T # {} /\ \A id \in s[n].of : \E g \in T \cap DOMAIN cache : cache[g].id = id
<1>1. /\ n \in DOMAIN t <=> \E s \in from : n \in DOMAIN s
      /\ n \in DOMAIN t => \A id \in t[n].of : \E s \in from : n \in DOMAIN s /\ id \in s[n].of
  BY ExplicitType, GlobType, CombinedNames
<1>2. ASSUME NEW import \in ToSet(imports)
      PROVE  /\ import \in Import /\ import.to # <<>> /\ ToSet(import.to) \subseteq DOMAIN cache
             /\ import.to \in Seq(Files) /\ import.to[1] \in ToSet(import.to)
             /\ import \in ToSet(Imports(f)) /\ (pub => import.pub) /\ ImportProblem(import) = "none"
  <2>1. ImportProblem(import) = "none"
    BY DEF ToSet
  <2> QED BY <2>1, LoadedImport
<1>3. ASSUME NEW import \in ToSet(imports), import.form = "names", n \in ToSet(import.names)
      PROVE  n \in DOMAIN NamedTable(import) /\ Adds(NamedTable(import))
  <2> DEFINE h == import.to[1]
             s == NamedTable(import)
  <2>1. h \in DOMAIN cache /\ h \in Files
    BY <1>2 DEF CacheOK
  <2>2. n \in DOMAIN s /\ s[n] = IF n \in DOMAIN cache[h].exports THEN cache[h].exports[n]
                                 ELSE ExternOf(cache[h].id, import.span)
    BY <1>3 DEF NamedTable
  <2>3. CASE n \in DOMAIN cache[h].exports
    <3>1. Wanted(import, n)
      BY <1>3 DEF Wanted
    <3>2. Adds(cache[h].exports)
      <4> HIDE DEF h
      <4>1. h \in ToSet(import.to)
        BY <1>2 DEF h
      <4> QED BY <1>2, <2>1, <2>3, <3>1, <4>1, TargetBrings
    <3> HIDE DEF T, h
    <3> QED BY <2>2, <2>3, <3>2
  <2>4. CASE n \notin DOMAIN cache[h].exports
    <3>1. PubLabel(h, n)
      BY <1>2, <1>3, <2>4 DEF ImportProblem
    <3>2. h \in LabelImports(f, n, pub)
      BY <1>2, <1>3, <2>1, <3>1 DEF PubLabel, LabelImports, Declares
    <3>3. h \in T
      BY <3>2 DEF Brought
    <3>4. s[n].of = {cache[h].id}
      BY <2>2, <2>4 DEF ExternOf
    <3> HIDE DEF T, h
    <3> QED BY <2>1, <2>2, <3>3, <3>4
  <2> QED BY <2>3, <2>4
<1>4. ASSUME NEW import \in ToSet(imports), import.form # "names", NEW h \in ToSet(import.to),
             n \in DOMAIN cache[h].exports
      PROVE  Adds(cache[h].exports)
  <2>1. Wanted(import, n) /\ h \in DOMAIN cache
    BY <1>2, <1>4 DEF Wanted
  <2> QED BY <1>2, <1>4, <2>1, TargetBrings
<1>5. ASSUME NEW s \in from, n \in DOMAIN s PROVE Adds(s)
  <2>1. CASE s \in ToSet(Explicit(imports))
    <3>1. PICK import \in ToSet(imports) : s = IF import.form = "names" THEN NamedTable(import) ELSE NoNames
      BY <2>1, TablesExplicit
    <3>2. import.form = "names" /\ s = NamedTable(import)
      BY <1>5, <3>1 DEF NoNames
    <3>3. n \in ToSet(import.names)
      BY <1>5, <3>2 DEF NamedTable
    <3> HIDE DEF Adds
    <3> QED BY <1>3, <3>2, <3>3
  <2>2. CASE s \in ToSet(Glob(imports))
    <3>1. PICK import \in ToSet(imports) : \E h \in ToSet(import.to) :
              import.form # "names" /\ s = cache[h].exports
      BY <2>2, GlobTables
    <3> HIDE DEF Adds
    <3> QED BY <1>4, <1>5, <3>1
  <2> QED BY <2>1, <2>2
<1>6. ASSUME T # {} PROVE \E s \in from : n \in DOMAIN s
  <2>1. PICK g : g \in T
    BY <1>6
  <2>2. CASE g \in LabelImports(f, n, pub)
    <3>1. PICK import \in ToSet(Imports(f)) :
              import.form = "names" /\ n \in ToSet(import.names) /\ (pub => import.pub)
      BY <2>2 DEF LabelImports
    <3>2. import \in ToSet(imports)
      BY <3>1
    <3>3. NamedTable(import) \in ToSet(Explicit(imports))
      BY <3>1, <3>2, ExplicitTables
    <3> QED BY <1>3, <3>1, <3>2, <3>3
  <2>3. CASE \E h \in Files : Carries(f, h, n, pub) /\ g \in Offered(h, n)
    <3>1. PICK h \in Files : Carries(f, h, n, pub) /\ g \in Offered(h, n)
      BY <2>3
    <3>2. PICK import \in ToSet(Imports(f)) : h \in ToSet(import.to) /\ Wanted(import, n) /\ (pub => import.pub)
      BY <3>1 DEF Carries
    <3>3. import \in ToSet(imports)
      BY <3>2
    <3>4. CASE import.form = "names"
      <4>1. n \in ToSet(import.names)
        BY <3>2, <3>4 DEF Wanted
      <4>2. NamedTable(import) \in ToSet(Explicit(imports))
        BY <3>3, <3>4, ExplicitTables
      <4> QED BY <1>3, <3>3, <3>4, <4>1, <4>2
    <3>5. CASE import.form # "names"
      <4>1. h \in DOMAIN cache
        BY <1>2, <3>2, <3>3
      <4>2. n \in DOMAIN cache[h].exports
        BY <3>1, <4>1 DEF NamesInv, Means
      <4>3. cache[h].exports \in ToSet(Glob(imports))
        BY <3>2, <3>3, <3>5, GlobTables
      <4> QED BY <4>2, <4>3
    <3> QED BY <3>4, <3>5
  <2> QED BY <2>1, <2>2, <2>3 DEF Brought
<1> HIDE DEF t, from
<1>7. n \in DOMAIN t <=> T # {}
  BY <1>1, <1>5, <1>6
<1>8. n \in DOMAIN t => \A id \in t[n].of : \E g \in T \cap DOMAIN cache : cache[g].id = id
  BY <1>1, <1>5
<1> QED BY <1>7, <1>8 DEF Means, t

\* What a file's names mean depends on the files only.
LEMMA GraphKept ==
    ASSUME files' = files
    PROVE  \A f, n : Offered(f, n)' = Offered(f, n) /\ Seen(f, n)' = Seen(f, n)
BY DEF Offered, Seen, Visible, Brought, OwnName, LabelImports, Declares, Reexporting, ReachedFrom, Closed,
       Carries, Wanted, Imports

\* A module is finished with the names it offers and sees.
LEMMA FinishedNames ==
    ASSUME IInv, NamesInv, FinishModule, NEW n \in Identifiers
    PROVE  LET f == Top.file IN
           /\ Means(cache'[f].exports, n, Offered(f, n), cache')
           /\ Means(cache'[f].scope, n, Seen(f, n), cache')
<1> DEFINE f == Top.file
           c == cache'
           decls == ToSet(files[f].decls)
           exported == {d \in decls : d.pub /\ d.kind # "label"}
<1>1. /\ f \in Files /\ Loaded(Imports(f)) /\ \A i \in DOMAIN Imports(f) : ImportProblem(Imports(f)[i]) = "none"
      /\ f \in DOMAIN c /\ \A h \in DOMAIN cache : h \in DOMAIN c /\ c[h] = cache[h]
      /\ c[f].exports = Exports(f, c[f].id) /\ c[f].scope = FullScope(f, c[f].id)
  BY FinishedModule
<1> HIDE DEF f, c
<1>2. decls \in SUBSET Decl /\ exported \in SUBSET Decl
  BY <1>1 DEF IInv, FilesOK, IsFile, ToSet
<1>3. Means(OwnNames(f, c[f].id), n, IF OwnName(f, n) THEN {f} ELSE {}, c)
  <2>1. Means(Own(f, c[f].id, decls), n, IF \E d \in decls : d.name = n THEN {f} ELSE {}, c)
    BY <1>1, <1>2, OwnMeans
  <2> QED BY <2>1 DEF OwnNames, OwnName
<1>4. Means(OwnExports(f, c[f].id), n, IF Declares(f, n, {"decl", "macro"}) THEN {f} ELSE {}, c)
  <2>1. Means(Own(f, c[f].id, exported), n, IF \E d \in exported : d.name = n THEN {f} ELSE {}, c)
    <3> HIDE DEF exported
    <3> QED BY <1>1, <1>2, OwnMeans
  <2>2. \A d \in decls : d.kind # "label" <=> d.kind \in {"decl", "macro"}
    BY <1>2 DEF Decl
  <2>3. (\E d \in exported : d.name = n) <=> Declares(f, n, {"decl", "macro"})
    BY <2>2 DEF Declares
  <2> QED BY <2>1, <2>3 DEF OwnExports
<1>5. Means(ScopeOf(f), n, Visible(f, n), c)
  <2>1. Means(ScopeOf(f), n, Brought(f, n, FALSE), cache)
    BY <1>1, BroughtMeans DEF IInv, ScopeOf
  <2> QED BY <1>1, <2>1, MeansKept DEF Visible
<1>6. Means(Reexports(f), n, Brought(f, n, TRUE), c)
  <2> DEFINE imports == Public(Imports(f))
  <2>1. Loaded(imports)
    BY <1>1, PublicLoaded
  <2>2. \A import : import \in ToSet(imports) <=> import \in ToSet(Imports(f)) /\ (TRUE => import.pub)
    BY <1>1, PublicElements
  <2> HIDE DEF imports
  <2>3. Means(Combined(Explicit(imports), Glob(imports)), n, Brought(f, n, TRUE), cache)
    BY <1>1, <2>1, <2>2, BroughtMeans DEF IInv
  <2>4. Means(Reexports(f), n, Brought(f, n, TRUE), cache)
    BY <2>3 DEF Reexports, imports
  <2> QED BY <1>1, <2>4, MeansKept
<1>7. Means(c[f].exports, n, Offered(f, n), c)
  <2> DEFINE S == IF Declares(f, n, {"decl", "macro"}) THEN {f} ELSE {}
  <2>1. c[f].exports = Shadow(OwnExports(f, c[f].id), Reexports(f))
    BY <1>1 DEF Exports
  <2>2. Offered(f, n) = S \cup Brought(f, n, TRUE)
    BY <1>1, OfferedUnfolds
  <2> DEFINE T == Brought(f, n, TRUE)
  <2>3. Means(OwnExports(f, c[f].id), n, S, c) /\ Means(Reexports(f), n, T, c)
    BY <1>4, <1>6
  <2> HIDE DEF S, T
  <2>4. Means(c[f].exports, n, S \cup T, c)
    BY <2>1, <2>3, ShadowMeans
  <2> QED BY <2>2, <2>4 DEF T
<1>8. Means(c[f].scope, n, Seen(f, n), c)
  <2>1. Means(c[f].scope, n, (IF OwnName(f, n) THEN {f} ELSE {}) \cup Visible(f, n), c)
    BY <1>1, <1>3, <1>5, ShadowMeans DEF FullScope
  <2>2. (IF OwnName(f, n) THEN {f} ELSE {}) \cup Visible(f, n) = Seen(f, n)
    BY DEF Seen
  <2> QED BY <2>1, <2>2
<1> QED BY <1>7, <1>8 DEF f, c

LEMMA StepNamesInv == ASSUME IInv, NamesInv, [Next]_vars PROVE NamesInv'
<1>1. CASE files' = files /\ cache' = cache
  BY <1>1, GraphKept DEF NamesInv, Means
<1>2. CASE FinishModule
  <2> DEFINE f == Top.file
  <2>1. /\ DOMAIN cache' = DOMAIN cache \cup {f} /\ files' = files
        /\ \A h \in DOMAIN cache : h \in DOMAIN cache' /\ cache'[h] = cache[h]
    BY <1>2, FinishedModule
  <2>2. ASSUME NEW h \in DOMAIN cache', NEW n \in Identifiers
        PROVE  Means(cache'[h].exports, n, Offered(h, n), cache') /\ Means(cache'[h].scope, n, Seen(h, n), cache')
    <3>1. CASE h = f
      BY <1>2, <3>1, FinishedNames
    <3>2. CASE h \in DOMAIN cache
      <4>1. Means(cache[h].exports, n, Offered(h, n), cache) /\ Means(cache[h].scope, n, Seen(h, n), cache)
        BY <3>2 DEF NamesInv
      <4>2. Means(cache[h].exports, n, Offered(h, n), cache') /\ Means(cache[h].scope, n, Seen(h, n), cache')
        BY <2>1, <4>1, MeansKept
      <4> QED BY <2>1, <3>2, <4>2
    <3> QED BY <2>1, <3>1, <3>2
  <2> HIDE DEF f
  <2> QED BY <2>1, <2>2, GraphKept DEF NamesInv, Means
<1>3. (files' = files /\ cache' = cache) \/ FinishModule
  BY DEF Next, vars, AskForImport, ReportCycle, EnterModule, TakeSeed, RejectModule, StartSplicing, SpliceImport,
         SpliceModule, Stopped, Loading
<1> QED BY <1>1, <1>2, <1>3

\* Ids tell modules apart, so a scope names the modules it means.
LEMMA MeaningIsVisible == ASSUME IInv, NamesInv PROVE ScopeIsVisibility
<1> SUFFICES ASSUME NEW f \in DOMAIN cache, NEW n \in Identifiers
             PROVE  /\ n \in DOMAIN cache[f].scope <=> OwnName(f, n) \/ Visible(f, n) # {}
                    /\ n \in DOMAIN cache[f].scope =>
                           Origins(cache[f].scope[n]) \subseteq
                               Visible(f, n) \cup (IF OwnName(f, n) THEN {f} ELSE {})
  BY DEF ScopeIsVisibility, OwnName
<1>1. Means(cache[f].scope, n, Seen(f, n), cache)
  BY DEF NamesInv
<1>2. \A g \in DOMAIN cache : FileOf(cache[g].id) = g
  <2> SUFFICES ASSUME NEW g \in DOMAIN cache PROVE FileOf(cache[g].id) = g
    OBVIOUS
  <2> DEFINE h == CHOOSE h \in DOMAIN cache : cache[h].id = cache[g].id
  <2>1. h \in DOMAIN cache /\ cache[h].id = cache[g].id
    OBVIOUS
  <2> HIDE DEF h
  <2>2. h = g
    BY <2>1 DEF IInv, CacheOK, IdsNameModules
  <2> QED BY <2>2 DEF h, FileOf
<1>3. ASSUME n \in DOMAIN cache[f].scope, NEW g \in Origins(cache[f].scope[n]) PROVE g \in Seen(f, n)
  <2>1. PICK id \in cache[f].scope[n].of : g = FileOf(id)
    BY DEF Origins
  <2>2. PICK h \in Seen(f, n) \cap DOMAIN cache : cache[h].id = id
    BY <1>1, <1>3, <2>1 DEF Means
  <2> QED BY <1>2, <2>1, <2>2
<1> QED BY <1>1, <1>3 DEF Means, Seen

\* For every file tree: a loaded file's scope has exactly the names its
\* imports make visible and its own, and each means declarations that a
\* chain of imports, public after the first, leads to.
THEOREM LoaderScopeIsVisibility == Spec => []ScopeIsVisibility
<1>1. Init => NamesInv
  BY DEF Init, NamesInv
<1>2. IInv /\ NamesInv /\ [Next]_vars => NamesInv'
  BY StepNamesInv
<1>3. IInv /\ NamesInv => ScopeIsVisibility
  BY MeaningIsVisible
<1> QED BY <1>1, <1>2, <1>3, IInvHolds, PTL DEF Spec

---------------------------------------------------------------------------
(* What a module adds to the program.                                      *)

ItemSet == [kind : {"decl", "macro", "label", "extern"}, name : Identifiers, module : Nat]
Item(kind, n, id) == [kind |-> kind, name |-> n, module |-> id]

OwnItem(f)   == [i \in 1..Len(files[f].decls) |->
                    Item(files[f].decls[i].kind, files[f].decls[i].name, cache[f].id)]
KeptOnes(f)  == {i \in 1..Len(files[f].decls) : Kept(f, files[f].decls[i])}
OwnItems(f)  == Selection(OwnItem(f), Len(files[f].decls), KeptOnes(f))

LEMMA ItemsAreOwn ==
    ASSUME FilesOK, NEW f \in Files
    PROVE  Items(f) = OwnItems(f) \o cache[f].externs
<1> DEFINE decls == files[f].decls
           n     == Len(decls)
           e     == OwnItem(f)
           K     == KeptOnes(f)
           one(i) == <<[kind |-> decls[i].kind, name |-> decls[i].name, module |-> cache[f].id]>>
<1>1. DOMAIN decls = 1..n
  BY DEF FilesOK, IsFile
<1>2. \A i \in 1..n : (IF Kept(f, decls[i]) THEN one(i) ELSE <<>>) = IF i \in K THEN <<e[i]>> ELSE <<>>
  <2> SUFFICES ASSUME NEW i \in 1..n
               PROVE  (IF Kept(f, decls[i]) THEN one(i) ELSE <<>>) = IF i \in K THEN <<e[i]>> ELSE <<>>
    OBVIOUS
  <2>1. i \in K <=> Kept(f, decls[i])
    BY DEF KeptOnes
  <2>2. e[i] = [kind |-> decls[i].kind, name |-> decls[i].name, module |-> cache[f].id]
    BY DEF OwnItem, Item
  <2> HIDE DEF K, e
  <2> QED BY <2>1, <2>2
<1>3. [i \in 1..n |-> IF Kept(f, decls[i]) THEN one(i) ELSE <<>>] =
          [i \in 1..n |-> IF i \in K THEN <<e[i]>> ELSE <<>>]
  <2> HIDE DEF one, K, e, n, decls
  <2> QED BY <1>2
<1>4. Items(f) = FlattenSeq([i \in 1..n |-> IF Kept(f, decls[i]) THEN one(i) ELSE <<>>]) \o cache[f].externs
  BY <1>1 DEF Items
<1>5. OwnItems(f) = FlattenSeq([i \in 1..n |-> IF i \in K THEN <<e[i]>> ELSE <<>>])
  BY DEF OwnItems, Selection
<1> HIDE DEF one, K, e, n, decls
<1> QED BY <1>3, <1>4, <1>5

\* Own declarations and macros once each, other modules' not at all, and
\* the labels imported.
LEMMA ItemsCount ==
    ASSUME FilesOK, CacheOK, NEW f \in DOMAIN cache
    PROVE  /\ Items(f) \in Seq(ItemSet)
           /\ \A g \in DOMAIN cache : \A n \in Identifiers : \A kind \in {"decl", "macro"} :
                  Cardinality(Places(Items(f), Item(kind, n, cache[g].id))) =
                      IF g = f THEN Declared(kind, f, n) ELSE 0
           /\ ToSet(cache[f].externs) \subseteq ToSet(Items(f))
<1> DEFINE decls == files[f].decls
           l     == Len(decls)
           own   == OwnItems(f)
           externs == cache[f].externs
<1>1. f \in Files /\ decls \in Seq(Decl) /\ cache[f].id \in Nat /\ externs \in Seq(Externs)
  BY DEF FilesOK, CacheOK, IsFile, Module, Externs
<1>2. OwnItem(f) \in [1..l -> ItemSet]
  <2> SUFFICES ASSUME NEW i \in 1..l PROVE Item(decls[i].kind, decls[i].name, cache[f].id) \in ItemSet
    BY DEF OwnItem
  <2>1. decls[i] \in Decl
    BY <1>1
  <2> QED BY <1>1, <2>1 DEF Item, ItemSet, Decl
<1>3. l \in Nat /\ KeptOnes(f) \in SUBSET (1..l)
  BY <1>1 DEF KeptOnes
<1>4. externs \in Seq(ItemSet) /\ \A i \in 1..Len(externs) : externs[i].kind = "extern"
  <2>1. \A i \in 1..Len(externs) : externs[i] \in Externs
    BY <1>1
  <2>2. \A x \in Externs : x \in ItemSet /\ x.kind = "extern"
    BY DEF Externs, ItemSet
  <2> HIDE DEF externs
  <2> QED BY <1>1, <2>1, <2>2
<1>5. /\ own \in Seq(ItemSet)
      /\ \A x : Cardinality(Places(own, x)) = Cardinality(Hits(OwnItem(f), KeptOnes(f), x))
  <2> DEFINE e == OwnItem(f)
             K == KeptOnes(f)
  <2>1. own = Selection(e, l, K)
    BY DEF OwnItems
  <2>2. l \in Nat /\ e \in [1..l -> ItemSet] /\ K \in SUBSET (1..l)
    BY <1>2, <1>3
  <2> HIDE DEF l, decls, e, K, own
  <2>3. \A x : /\ Selection(e, l, K) \in Seq(ItemSet)
               /\ Cardinality(Places(Selection(e, l, K), x)) = Cardinality(Hits(e, K, x))
    BY <2>2, PlacesChosen
  <2> QED BY <2>1, <2>3 DEF e, K
<1>6. Items(f) = own \o externs
  BY <1>1, ItemsAreOwn
<1> HIDE DEF own, externs
<1>7. Items(f) \in Seq(ItemSet) /\ ToSet(externs) \subseteq ToSet(Items(f))
  <2>1. ToSet(own \o externs) = ToSet(own) \cup ToSet(externs)
    BY <1>4, <1>5, JoinedElements
  <2>2. own \o externs \in Seq(ItemSet)
    BY <1>4, <1>5
  <2> QED BY <1>6, <2>1, <2>2
<1>8. ASSUME NEW g \in DOMAIN cache, NEW n \in Identifiers, NEW kind \in {"decl", "macro"}
      PROVE  Cardinality(Places(Items(f), Item(kind, n, cache[g].id))) =
                 IF g = f THEN Declared(kind, f, n) ELSE 0
  <2> DEFINE x == Item(kind, n, cache[g].id)
             A == {i \in KeptOnes(f) : OwnItem(f)[i] = x}
  <2>1. Places(externs, x) = {}
    <3>1. x.kind # "extern"
      BY DEF Item
    <3> HIDE DEF x
    <3> QED BY <1>4, <3>1 DEF Places
  <2>2. Cardinality(Places(externs, x)) = 0
    BY <2>1, FS_EmptySet
  <2>3. Cardinality(Places(own, x)) = Cardinality(A) /\ Cardinality(Places(own, x)) \in Nat
    BY <1>5, PlacesFinite DEF Hits
  <2>4. Cardinality(Places(Items(f), x)) = Cardinality(A)
    <3> HIDE DEF x, A
    <3>1. Cardinality(Places(own \o externs, x)) = Cardinality(Places(own, x)) + Cardinality(Places(externs, x))
      BY <1>4, <1>5, PlacesJoined
    <3> QED BY <1>6, <2>2, <2>3, <3>1
  <2>5. \A i \in 1..l : OwnItem(f)[i] = x <=> decls[i].kind = kind /\ decls[i].name = n /\ cache[f].id = cache[g].id
    BY DEF OwnItem, Item
  <2>6. CASE g = f
    <3>1. \A i \in 1..l : decls[i].kind = kind => Kept(f, decls[i])
      BY DEF Kept
    <3>2. A = {i \in DOMAIN decls : decls[i].name = n /\ decls[i].kind = kind}
      <4>1. DOMAIN decls = 1..l
        BY <1>1
      <4>2. \A i : i \in A <=> i \in 1..l /\ decls[i].name = n /\ decls[i].kind = kind
        <5> HIDE DEF x
        <5> QED BY <2>5, <2>6, <3>1 DEF KeptOnes
      <4> HIDE DEF A, l, decls
      <4> QED BY <4>1, <4>2
    <3> HIDE DEF A
    <3> QED BY <2>4, <2>6, <3>2 DEF Declared
  <2>7. CASE g # f
    <3>1. cache[f].id # cache[g].id
      BY <2>7 DEF CacheOK, IdsNameModules
    <3>2. A = {}
      <4> HIDE DEF x
      <4> QED BY <1>3, <2>5, <3>1
    <3> HIDE DEF A
    <3> QED BY <2>4, <2>7, <3>2, FS_EmptySet
  <2> QED BY <2>6, <2>7
<1> QED BY <1>7, <1>8 DEF externs

\* One of each imported label stays, and everything else.
LEMMA OneOfEach ==
    ASSUME NEW items \in Seq(ItemSet), NEW x
    PROVE  LET each == OneExternEach(items) IN
           /\ each \in Seq(ItemSet)
           /\ x.kind # "extern" => Cardinality(Places(each, x)) = Cardinality(Places(items, x))
           /\ x.kind = "extern" /\ x \in ToSet(items) => Cardinality(Places(each, x)) = 1
           /\ x \notin ToSet(items) => Cardinality(Places(each, x)) = 0
<1> DEFINE n == Len(items)
           K == {i \in 1..n : ~SeenLabel(items, i)}
           each == OneExternEach(items)
           A == {i \in K : items[i] = x}
<1>1. n \in Nat /\ DOMAIN items = 1..n /\ items \in [1..n -> ItemSet] /\ K \in SUBSET (1..n)
  OBVIOUS
<1>2. each = Selection(items, n, K)
  <2>1. [i \in 1..n |-> IF SeenLabel(items, i) THEN <<>> ELSE <<items[i]>>] =
            [i \in 1..n |-> IF i \in K THEN <<items[i]>> ELSE <<>>]
    OBVIOUS
  <2> QED BY <1>1, <2>1 DEF OneExternEach, Selection
<1> HIDE DEF each, n
<1>3. each \in Seq(ItemSet) /\ Cardinality(Places(each, x)) = Cardinality(A)
  <2> HIDE DEF K, A
  <2>1. /\ Selection(items, n, K) \in Seq(ItemSet)
        /\ Cardinality(Places(Selection(items, n, K), x)) = Cardinality(Hits(items, K, x))
    BY <1>1, PlacesChosen
  <2> QED BY <1>2, <2>1 DEF A, Hits
<1>4. ASSUME x.kind # "extern" PROVE A = Places(items, x)
  BY <1>1, <1>4 DEF Places, SeenLabel
<1>5. ASSUME x.kind = "extern", x \in ToSet(items) PROVE Cardinality(A) = 1
  <2> DEFINE P == Places(items, x)
  <2>1. P \subseteq Nat /\ P # {} /\ P \subseteq 1..n
    BY <1>1, <1>5 DEF Places, ToSet
  <2>2. PICK i \in P : \A j \in P : ~(j < i)
    BY <2>1, LeastNumber
  <2>3. i \in A
    <3>1. ~SeenLabel(items, i)
      <4> SUFFICES ASSUME NEW j \in 1..(i - 1), items[j] = items[i] PROVE FALSE
        BY DEF SeenLabel
      <4>1. i \in 1..n /\ items[i] = x
        BY <1>1, <2>2 DEF Places
      <4>2. j \in 1..n /\ j < i
        BY <1>1, <4>1
      <4>3. j \in P
        BY <1>1, <4>1, <4>2 DEF Places
      <4> QED BY <2>2, <4>2, <4>3
    <3> QED BY <1>1, <2>2, <3>1 DEF Places
  <2>4. ASSUME NEW j \in A PROVE j = i
    <3>1. j \in 1..n /\ items[j] = x /\ i \in 1..n /\ items[i] = x /\ ~SeenLabel(items, j)
      BY <1>1, <2>2 DEF Places
    <3>2. ~(i < j)
      <4> SUFFICES ASSUME i < j PROVE FALSE
        OBVIOUS
      <4>1. i \in 1..(j - 1)
        BY <1>1, <3>1
      <4> QED BY <1>5, <3>1, <4>1 DEF SeenLabel
    <3>3. j \in P
      BY <1>1, <3>1 DEF Places
    <3>4. ~(j < i)
      BY <2>2, <3>3
    <3> QED BY <1>1, <3>1, <3>2, <3>4
  <2>5. A = {i}
    <3> HIDE DEF A
    <3> QED BY <2>3, <2>4
  <2> HIDE DEF A
  <2> QED BY <2>5, FS_Singleton
<1> HIDE DEF A
<1>6. ASSUME x \notin ToSet(items) PROVE Cardinality(A) = 0
  <2>1. A = {}
    BY <1>1, <1>6 DEF ToSet, A
  <2> HIDE DEF A
  <2> QED BY <2>1, FS_EmptySet
<1> QED BY <1>3, <1>4, <1>5, <1>6 DEF each

---------------------------------------------------------------------------
(* Splicing.                                                               *)

ImportsSpliced(f) == \A i \in 1..Len(Imports(f)) : ToSet(Imports(f)[i].to) \subseteq spliced

\* The imports p is past are spliced, the last of them in part.
Past(p, S) ==
    /\ \A i \in 1..(p.imp - 1) : ToSet(Imports(p.file)[i].to) \subseteq S
    /\ p.imp <= Len(Imports(p.file)) => \A c \in 1..(p.child - 1) : Current(p).to[c] \in S

WalkFiles == {walk[k].file : k \in 1..Len(walk)}
Emitted   == spliced \ WalkFiles

Unspliced == phase \in {"loading", "failed", "panicked"} /\ program = <<>> /\ walk = <<>> /\ spliced = {}

\* The walk is at no file twice, and what it left behind is spliced.
WalkInv ==
    /\ phase \in {"splicing", "done"} /\ (phase = "done" => walk = <<>>)
    /\ Entry \in spliced
    /\ \A j, k \in 1..Len(walk) : walk[j].file = walk[k].file => j = k
    /\ \A k \in 1..Len(walk) : Past(walk[k], spliced)
    /\ \A f \in Emitted : ImportsSpliced(f)

\* The program has what the files left behind have, as often as they do.
ProgramInv ==
    /\ program \in Seq(ItemSet)
    /\ \A f \in DOMAIN cache : \A n \in Identifiers : \A kind \in {"decl", "macro"} :
           Cardinality(Places(program, Item(kind, n, cache[f].id))) = IF f \in Emitted THEN Declared(kind, f, n) ELSE 0
    /\ \A f \in Emitted : ToSet(cache[f].externs) \subseteq ToSet(program)
    /\ phase = "done" => \A x \in ToSet(program) : x.kind = "extern" => Cardinality(Places(program, x)) = 1

SpliceInv == Unspliced \/ (WalkInv /\ ProgramInv)

LEMMA LoadingUnspliced ==
    ASSUME IInv, SpliceInv, phase = "loading" PROVE Unspliced
BY DEF SpliceInv, WalkInv

LEMMA StartSplicingProgram == ASSUME IInv, Unspliced, StartSplicing PROVE (WalkInv /\ ProgramInv)'
<1> DEFINE p == Place(Entry)
<1>1. /\ phase' = "splicing" /\ walk' = <<p>> /\ spliced' = {Entry} /\ program' = <<>>
      /\ UNCHANGED <<files, cache>>
  BY DEF StartSplicing, Unspliced, Loading
<1>2. p.file = Entry /\ p.imp = 1 /\ p.child = 1
  BY DEF Place
<1> HIDE DEF p
<1>3. Len(walk') = 1 /\ walk'[1] = p /\ \A k \in 1..Len(walk') : k = 1
  BY <1>1
<1>4. Emitted' = {}
  BY <1>1, <1>2, <1>3 DEF Emitted, WalkFiles
<1>5. Past(p, spliced)'
  BY <1>2 DEF Past
<1>6. WalkInv'
  <2>1. \A k \in 1..Len(walk') : Past(walk[k], spliced)'
    BY <1>3, <1>5 DEF Past, Imports, Current
  <2> QED BY <1>1, <1>3, <1>4, <2>1 DEF WalkInv
<1>7. ProgramInv'
  <2>1. \A x : Places(<<>>, x) = {}
    BY DEF Places
  <2>2. \A x : Cardinality(Places(<<>>, x)) = 0
    BY <2>1, FS_EmptySet
  <2>3. <<>> \in Seq(ItemSet)
    OBVIOUS
  <2> QED BY <1>1, <1>4, <2>2, <2>3 DEF ProgramInv
<1> QED BY <1>6, <1>7

\* Going one import on leaves one more file behind.
LEMMA AdvancedPast ==
    ASSUME FilesOK, NEW p, IsPlace(p), AtChild(p), {"file", "imp", "child"} \subseteq DOMAIN p,
           p.imp <= Len(Imports(p.file)), Current(p).to # <<>>,
           NEW S, Past(p, S)
    PROVE  Past(Advanced(p), S \cup {Target(p)}) /\ Advanced(p).file = p.file
<1> DEFINE q == Advanced(p)
           R == S \cup {Target(p)}
           to == Current(p).to
<1>1. /\ \A x \in DOMAIN p \ {"imp", "child"} : q[x] = p[x]
      /\ \/ q.imp = p.imp /\ q.child = p.child + 1
         \/ p.child = Len(to) /\ q.imp = p.imp + 1 /\ q.child = 1
  BY AdvancedPlace
<1>2. /\ Len(to) \in Nat /\ p.child \in 1..Len(to) /\ p.imp \in 1..Len(Imports(p.file))
  BY AtTarget
<1>3. q.file = p.file
  BY <1>1
<1>4. Target(p) = to[p.child] /\ to = Imports(p.file)[p.imp].to /\ DOMAIN to = 1..Len(to)
  <2>1. p.file \in Files /\ Imports(p.file)[p.imp].to \in Seq(Files)
    BY <1>2, FileShape DEF IsPlace, FilesOK
  <2> QED BY <2>1 DEF Target, Current
<1>5. /\ \A i \in 1..(p.imp - 1) : ToSet(Imports(p.file)[i].to) \subseteq S
      /\ \A c \in 1..(p.child - 1) : to[c] \in S
  BY DEF Past
<1> HIDE DEF q, to
<1>6. CASE q.imp = p.imp /\ q.child = p.child + 1
  <2>1. \A c \in 1..(q.child - 1) : c \in 1..(p.child - 1) \/ c = p.child
    BY <1>2, <1>6
  <2>2. \A c \in 1..(q.child - 1) : to[c] \in R
    BY <1>4, <1>5, <2>1
  <2> QED BY <1>3, <1>4, <1>5, <1>6, <2>2 DEF Past, q, Current
<1>7. CASE p.child = Len(to) /\ q.imp = p.imp + 1 /\ q.child = 1
  <2>1. \A i \in 1..(q.imp - 1) : i \in 1..(p.imp - 1) \/ i = p.imp
    BY <1>2, <1>7
  <2>2. \A c \in 1..Len(to) : c \in 1..(p.child - 1) \/ c = p.child
    BY <1>2, <1>7
  <2>3. ToSet(to) \subseteq R
    BY <1>4, <1>5, <2>2 DEF ToSet
  <2>4. \A i \in 1..(q.imp - 1) : ToSet(Imports(q.file)[i].to) \subseteq R
    BY <1>3, <1>4, <1>5, <2>1, <2>3
  <2>5. \A c \in 1..(q.child - 1) : FALSE
    BY <1>7
  <2> QED BY <1>3, <2>4, <2>5 DEF Past, q
<1> QED BY <1>1, <1>3, <1>6, <1>7 DEF q, to

LEMMA PastMore == ASSUME NEW p, NEW S, NEW R, S \subseteq R, Past(p, S) PROVE Past(p, R)
BY DEF Past

LEMMA PastKept == ASSUME NEW p, NEW S, Past(p, S), files' = files PROVE Past(p, S)'
BY DEF Past, Imports, Current

LEMMA SpliceImportWalk == ASSUME IInv, WalkInv, SpliceImport PROVE WalkInv' /\ Emitted' = Emitted
<1> DEFINE p == WalkTop
           q == Advanced(p)
           g == Target(p)
           n == Len(walk)
<1>1. /\ n \in Nat \ {0} /\ p = walk[n] /\ p.file \in spliced
      /\ IsPlace(p) /\ AtChild(p) /\ DOMAIN p = {"file", "imp", "child"}
      /\ p.imp <= Len(Imports(p.file)) /\ Current(p).to # <<>> /\ phase = "splicing"
  BY SplicedImport
<1>2. /\ Len(walk') = (IF g \in spliced THEN n ELSE n + 1)
      /\ walk'[n] = q /\ (\A k \in 1..n : k # n => walk'[k] = walk[k])
      /\ (g \notin spliced => walk'[n + 1] = Place(g)) /\ spliced' = spliced \cup {g}
      /\ UNCHANGED <<files, phase, cache>>
  BY SplicedImport
<1>3. Past(q, spliced \cup {g}) /\ q.file = p.file
  <2>1. Past(p, spliced) /\ {"file", "imp", "child"} \subseteq DOMAIN p
    BY <1>1 DEF WalkInv
  <2> QED BY <1>1, <2>1, AdvancedPast DEF IInv
<1>4. Place(g).file = g /\ \A S : Past(Place(g), S)
  BY DEF Place, Past
<1> HIDE DEF p, q, g, n
<1>5. \A k \in 1..Len(walk') : k \in 1..n \/ (g \notin spliced /\ k = n + 1)
  BY <1>1, <1>2
<1>6. /\ \A k \in 1..n : walk'[k].file = walk[k].file /\ walk[k].file \in spliced /\ k \in 1..Len(walk')
      /\ g \notin spliced => walk'[n + 1].file = g /\ n + 1 \in 1..Len(walk')
  <2>1. \A k \in 1..n : walk[k].file \in spliced
    BY DEF IInv, WalkOK, n
  <2> QED BY <1>1, <1>2, <1>3, <1>4, <2>1
<1>7. ASSUME NEW j \in 1..Len(walk'), NEW k \in 1..Len(walk'), walk'[j].file = walk'[k].file PROVE j = k
  <2>1. j \in 1..n /\ k \in 1..n => j = k
    BY <1>6, <1>7 DEF WalkInv, n
  <2> QED BY <1>5, <1>6, <1>7, <2>1
<1>8. \A k \in 1..Len(walk') : Past(walk'[k], spliced')
  <2>1. \A k \in 1..n : k # n => Past(walk'[k], spliced')
    <3>1. \A k \in 1..n : Past(walk[k], spliced)
      BY DEF WalkInv, n
    <3> QED BY <1>2, <3>1, PastMore
  <2> QED BY <1>2, <1>3, <1>4, <1>5, <2>1
<1>9. ASSUME NEW k \in 1..Len(walk') PROVE Past(walk[k], spliced)'
  <2>1. PICK r, S : r = walk'[k] /\ S = spliced'
    OBVIOUS
  <2>2. Past(r, S)'
    BY <1>2, <1>8, <2>1, PastKept
  <2> QED BY <2>1, <2>2 DEF Past, Imports, Current
<1>10. Emitted' = Emitted
  <2>1. \A f \in spliced : f \in WalkFiles' <=> f \in WalkFiles
    <3>1. \A f \in spliced : (\E k \in 1..Len(walk') : walk'[k].file = f) <=> \E k \in 1..n : walk[k].file = f
      BY <1>5, <1>6
    <3> QED BY <3>1 DEF WalkFiles, n
  <2>2. g \notin spliced => g \in WalkFiles'
    BY <1>6 DEF WalkFiles
  <2> QED BY <1>2, <2>1, <2>2 DEF Emitted
<1>11. \A f \in Emitted' : ImportsSpliced(f)'
  BY <1>2, <1>10 DEF WalkInv, ImportsSpliced, Imports
<1>12. phase' = "splicing" /\ Entry \in spliced'
  BY <1>1, <1>2 DEF WalkInv
<1>13. WalkInv'
  BY <1>7, <1>9, <1>11, <1>12 DEF WalkInv
<1> QED BY <1>10, <1>13

LEMMA SpliceImportProgram ==
    ASSUME IInv, WalkInv, ProgramInv, SpliceImport PROVE (WalkInv /\ ProgramInv)'
<1>1. phase = "splicing" /\ UNCHANGED <<files, phase, cache, program>>
  BY SplicedImport
<1>2. WalkInv' /\ Emitted' = Emitted
  BY SpliceImportWalk
<1>3. ProgramInv'
  BY <1>1, <1>2 DEF ProgramInv, Declared
<1> QED BY <1>2, <1>3

\* What splicing a module does to the walk, and to the program.
LEMMA SplicedModule ==
    ASSUME IInv, SpliceModule
    PROVE  LET n == Len(walk)
               f == WalkTop.file
               all == program \o Items(f) IN
           /\ n \in Nat \ {0} /\ WalkTop = walk[n] /\ f \in spliced /\ f \in DOMAIN cache
           /\ \A i \in 1..Len(Imports(f)) : i \in 1..(WalkTop.imp - 1)
           /\ Len(walk') = n - 1 /\ \A k \in 1..(n - 1) : walk'[k] = walk[k]
           /\ \/ n = 1 /\ program' = OneExternEach(all) /\ phase' = "done" /\ walk' = <<>>
              \/ n # 1 /\ program' = all /\ phase' = "splicing"
           /\ UNCHANGED <<files, cache, spliced>>
<1> DEFINE n == Len(walk)
           p == WalkTop
           f == p.file
<1>1. /\ phase = "splicing" /\ walk # <<>> /\ IsSequence(walk) /\ p.imp > Len(Imports(f))
      /\ walk' = SubSeq(walk, 1, n - 1)
      /\ UNCHANGED <<files, cache, spliced>>
  BY DEF SpliceModule, Loading, IInv, PhaseOK, WalkOK
<1>2. \/ n = 1 /\ program' = OneExternEach(program \o Items(f)) /\ phase' = "done"
      \/ n # 1 /\ program' = program \o Items(f) /\ phase' = "splicing"
  BY <1>1 DEF SpliceModule
<1>3. n \in Nat \ {0} /\ p = walk[n]
  BY <1>1 DEF IsSequence, WalkTop
<1>4. IsPlace(p) /\ f \in spliced /\ f \in DOMAIN cache
  BY <1>3 DEF IInv, WalkOK
<1>5. \A i \in 1..Len(Imports(f)) : i \in 1..(p.imp - 1)
  <2>1. p.imp \in Nat /\ Len(Imports(f)) \in Nat
    BY <1>4, FileShape DEF IsPlace, IInv, FilesOK
  <2> HIDE DEF p, f
  <2> QED BY <1>1, <2>1
<1> HIDE DEF p, f
<1>6. IsSequence(walk') /\ Len(walk') = n - 1 /\ \A k \in 1..(n - 1) : walk'[k] = walk[k]
  BY <1>1, SequencePopped
<1>7. n = 1 => walk' = <<>>
  BY <1>6 DEF IsSequence
<1> QED BY <1>1, <1>2, <1>3, <1>4, <1>5, <1>6, <1>7 DEF p, f

LEMMA SpliceModuleWalk ==
    ASSUME IInv, WalkInv, SpliceModule
    PROVE  WalkInv' /\ WalkTop.file \notin Emitted /\ Emitted' = Emitted \cup {WalkTop.file}
<1> DEFINE n == Len(walk)
           p == WalkTop
           f == WalkTop.file
<1>1. /\ n \in Nat \ {0} /\ p = walk[n] /\ f \in spliced
      /\ \A i \in 1..Len(Imports(f)) : i \in 1..(p.imp - 1)
      /\ Len(walk') = n - 1 /\ \A k \in 1..(n - 1) : walk'[k] = walk[k]
      /\ phase' \in {"splicing", "done"} /\ (phase' = "done" => walk' = <<>>)
      /\ UNCHANGED <<files, cache, spliced>>
  BY SplicedModule
<1>2. /\ \A j, k \in 1..n : walk[j].file = walk[k].file => j = k
      /\ \A k \in 1..n : Past(walk[k], spliced)
  BY DEF WalkInv
<1>3. n \in 1..n /\ walk[n].file = f /\ \A k \in 1..n : k = n \/ k \in 1..(n - 1)
  BY <1>1
<1>4. f \in WalkFiles /\ \A h : h # f => (h \in WalkFiles' <=> h \in WalkFiles)
  <2>1. \A h : h # f => ((\E k \in 1..(n - 1) : walk'[k].file = h) <=> \E k \in 1..n : walk[k].file = h)
    <3> HIDE DEF f, n
    <3> QED BY <1>1, <1>3
  <2>2. f \in WalkFiles
    BY <1>3 DEF WalkFiles
  <2>3. \A h : h # f => (h \in WalkFiles' <=> h \in WalkFiles)
    BY <1>1, <2>1 DEF WalkFiles
  <2> QED BY <2>2, <2>3
<1>5. f \notin WalkFiles'
  <2> SUFFICES ASSUME NEW k \in 1..(n - 1), walk'[k].file = f PROVE FALSE
    BY <1>1 DEF WalkFiles
  <2>1. k \in 1..n /\ k # n
    BY <1>1
  <2>2. walk[k].file = f
    BY <1>1
  <2> HIDE DEF f, n
  <2> QED BY <1>2, <1>3, <2>1, <2>2
<1>6. f \notin Emitted /\ Emitted' = Emitted \cup {f}
  <2> HIDE DEF f
  <2> QED BY <1>1, <1>4, <1>5 DEF Emitted
<1>7. ImportsSpliced(f)
  <2>1. Past(p, spliced)
    BY <1>1, <1>2, <1>3
  <2> QED BY <1>1, <2>1 DEF Past, ImportsSpliced
<1>8. \A h \in Emitted' : ImportsSpliced(h)'
  <2>1. \A h \in Emitted' : ImportsSpliced(h)
    <3> HIDE DEF f
    <3> QED BY <1>6, <1>7 DEF WalkInv
  <2> QED BY <1>1, <2>1 DEF ImportsSpliced, Imports
<1>9. ASSUME NEW k \in 1..Len(walk') PROVE Past(walk[k], spliced)'
  <2>1. k \in 1..(n - 1) /\ k \in 1..n
    BY <1>1
  <2>2. PICK r, S : r = walk'[k] /\ S = spliced'
    OBVIOUS
  <2>3. Past(r, S)
    BY <1>1, <1>2, <2>1, <2>2
  <2>4. Past(r, S)'
    BY <1>1, <2>3, PastKept
  <2> QED BY <2>2, <2>4 DEF Past, Imports, Current
<1>10. \A j, k \in 1..Len(walk') : walk'[j].file = walk'[k].file => j = k
  <2>1. \A k \in 1..Len(walk') : k \in 1..n /\ walk'[k] = walk[k]
    BY <1>1
  <2> HIDE DEF n
  <2> QED BY <1>2, <2>1
<1>11. WalkInv'
  <2>1. Entry \in spliced'
    BY <1>1 DEF WalkInv
  <2> QED BY <1>1, <1>8, <1>9, <1>10, <2>1 DEF WalkInv
<1> QED BY <1>6, <1>11

\* The count of declarations depends on the files only.
LEMMA DeclaredKept ==
    ASSUME files' = files
    PROVE  \A kind, f, n : Declared(kind, f, n)' = Declared(kind, f, n)
BY DEF Declared

LEMMA SpliceModuleProgram == ASSUME IInv, WalkInv, ProgramInv, SpliceModule PROVE ProgramInv'
<1> DEFINE n     == Len(walk)
           f     == WalkTop.file
           items == Items(f)
           all   == program \o items
<1>1. /\ f \in DOMAIN cache /\ UNCHANGED <<files, cache, spliced>>
      /\ \/ n = 1 /\ program' = OneExternEach(all) /\ phase' = "done"
         \/ n # 1 /\ program' = all /\ phase' = "splicing"
  BY SplicedModule
<1>2. f \notin Emitted /\ Emitted' = Emitted \cup {f}
  BY SpliceModuleWalk
<1>3. /\ items \in Seq(ItemSet)
      /\ \A h \in DOMAIN cache : \A m \in Identifiers : \A kind \in {"decl", "macro"} :
             Cardinality(Places(items, Item(kind, m, cache[h].id))) = IF h = f THEN Declared(kind, f, m) ELSE 0
      /\ ToSet(cache[f].externs) \subseteq ToSet(items)
  BY <1>1, ItemsCount DEF IInv
<1>4. program \in Seq(ItemSet)
  BY DEF ProgramInv
<1> HIDE DEF f, items, n
<1>5. all \in Seq(ItemSet) /\ ToSet(all) = ToSet(program) \cup ToSet(items)
  BY <1>3, <1>4, JoinedElements
<1>6. \A x : Cardinality(Places(all, x)) = Cardinality(Places(program, x)) + Cardinality(Places(items, x))
  BY <1>3, <1>4, PlacesJoined
<1>7. \A x : Cardinality(Places(program, x)) \in Nat /\ Cardinality(Places(items, x)) \in Nat
  BY <1>3, <1>4, PlacesFinite
<1> HIDE DEF all
<1>8. ASSUME NEW h \in DOMAIN cache, NEW m \in Identifiers, NEW kind \in {"decl", "macro"}
      PROVE  Cardinality(Places(all, Item(kind, m, cache[h].id))) =
                 IF h \in Emitted' THEN Declared(kind, h, m) ELSE 0
  <2> DEFINE x == Item(kind, m, cache[h].id)
             a == Cardinality(Places(program, x))
             b == Cardinality(Places(items, x))
             d == Declared(kind, h, m)
  <2>1. Cardinality(Places(all, x)) = a + b /\ a \in Nat /\ b \in Nat
    BY <1>6, <1>7
  <2>2. a = (IF h \in Emitted THEN d ELSE 0) /\ b = IF h = f THEN d ELSE 0
    BY <1>3 DEF ProgramInv
  <2> HIDE DEF x, a, b, d
  <2>3. CASE h = f
    BY <1>2, <2>1, <2>2, <2>3 DEF d, x
  <2>4. CASE h # f
    BY <1>2, <2>1, <2>2, <2>4 DEF d, x
  <2> QED BY <2>3, <2>4
<1>9. \A h \in Emitted' : ToSet(cache[h].externs) \subseteq ToSet(all)
  BY <1>2, <1>3, <1>5 DEF ProgramInv
<1>10. \A h \in Emitted' : h \in DOMAIN cache
  BY <1>1 DEF Emitted, IInv, WalkOK
<1>11. CASE n # 1
  <2>1. program' = all /\ phase' # "done"
    BY <1>1, <1>11
  <2> QED BY <1>1, <1>5, <1>8, <1>9, <2>1, DeclaredKept DEF ProgramInv
<1>12. CASE n = 1
  <2>1. program' = OneExternEach(all)
    BY <1>1, <1>12
  <2>2. /\ program' \in Seq(ItemSet)
        /\ \A x : /\ x.kind # "extern" => Cardinality(Places(program', x)) = Cardinality(Places(all, x))
                  /\ x.kind = "extern" /\ x \in ToSet(all) => Cardinality(Places(program', x)) = 1
                  /\ x \notin ToSet(all) => Cardinality(Places(program', x)) = 0
    BY <1>5, <2>1, OneOfEach
  <2>3. \A x : Cardinality(Places(program', x)) = 0 <=> x \notin ToSet(program')
    BY <2>2, PlacesOfElements
  <2>4. \A x \in ToSet(program') : x.kind = "extern" => Cardinality(Places(program', x)) = 1
    BY <2>2, <2>3
  <2>5. ASSUME NEW h \in Emitted' PROVE ToSet(cache[h].externs) \subseteq ToSet(program')
    <3> SUFFICES ASSUME NEW x \in ToSet(cache[h].externs) PROVE x \in ToSet(program')
      OBVIOUS
    <3>1. x.kind = "extern"
      <4>1. cache[h].externs \in Seq(Externs)
        BY <1>10 DEF IInv, CacheOK, Module, Externs
      <4>2. x \in Externs
        BY <4>1 DEF ToSet
      <4> QED BY <4>2 DEF Externs
    <3>2. Cardinality(Places(program', x)) = 1
      BY <1>9, <2>2, <3>1
    <3> QED BY <2>3, <3>2
  <2>6. ASSUME NEW h \in DOMAIN cache, NEW m \in Identifiers, NEW kind \in {"decl", "macro"}
        PROVE  Cardinality(Places(program', Item(kind, m, cache[h].id))) =
                   IF h \in Emitted' THEN Declared(kind, h, m) ELSE 0
    <3> DEFINE x == Item(kind, m, cache[h].id)
    <3>1. x.kind # "extern"
      BY DEF Item
    <3>2. Cardinality(Places(all, x)) = IF h \in Emitted' THEN Declared(kind, h, m) ELSE 0
      BY <1>8
    <3> HIDE DEF x
    <3> QED BY <2>2, <3>1, <3>2 DEF x
  <2> QED BY <1>1, <2>2, <2>4, <2>5, <2>6, DeclaredKept DEF ProgramInv
<1> QED BY <1>11, <1>12

LEMMA UnsplicedKept ==
    ASSUME Unspliced, UNCHANGED <<walk, spliced, program>>, phase' \in {"loading", "failed", "panicked"}
    PROVE  Unspliced'
BY DEF Unspliced

LEMMA StepSpliceInv == ASSUME IInv, SpliceInv, [Next]_vars PROVE SpliceInv'
<1>1. CASE AskForImport \/ ReportCycle \/ EnterModule \/ TakeSeed \/ RejectModule \/ FinishModule
  <2>1. /\ phase = "loading" /\ phase' \in {"loading", "failed", "panicked"}
        /\ UNCHANGED <<walk, spliced, program>>
    BY <1>1 DEF AskForImport, ReportCycle, EnterModule, TakeSeed, RejectModule, FinishModule, ImportsLoaded,
                Fail, Splicing
  <2> QED BY <2>1, LoadingUnspliced, UnsplicedKept DEF SpliceInv
<1>2. CASE StartSplicing
  <2>1. phase = "loading"
    BY <1>2 DEF StartSplicing
  <2> QED BY <1>2, <2>1, LoadingUnspliced, StartSplicingProgram DEF SpliceInv
<1>3. CASE SpliceImport \/ SpliceModule
  <2>1. phase = "splicing"
    BY <1>3 DEF SpliceImport, SpliceModule
  <2>2. WalkInv /\ ProgramInv
    BY <2>1 DEF SpliceInv, Unspliced
  <2> QED BY <1>3, <2>2, SpliceImportProgram, SpliceModuleWalk, SpliceModuleProgram DEF SpliceInv
<1>4. CASE Stopped \/ UNCHANGED vars
  <2>1. UNCHANGED vars
    BY <1>4 DEF Stopped
  <2>2. Unspliced => Unspliced'
    BY <2>1 DEF Unspliced, vars
  <2>3. WalkInv => WalkInv'
    BY <2>1 DEF WalkInv, vars, Past, Emitted, WalkFiles, ImportsSpliced, Imports, Current
  <2>4. ProgramInv => ProgramInv'
    BY <2>1, DeclaredKept DEF ProgramInv, vars, Emitted, WalkFiles
  <2> QED BY <2>2, <2>3, <2>4 DEF SpliceInv
<1> QED BY <1>1, <1>2, <1>3, <1>4 DEF Next

\* At the end every file reached was spliced, and left behind.
LEMMA AllEmitted ==
    ASSUME IInv, CycleInv, WalkInv, Settled
    PROVE  Emitted = DOMAIN cache
<1>1. Emitted = spliced /\ spliced \subseteq DOMAIN cache /\ DOMAIN cache \subseteq Files
  <2>1. WalkFiles = {}
    BY DEF WalkInv, Settled, WalkFiles
  <2> QED BY <2>1 DEF Emitted, IInv, WalkOK, CacheOK
<1>2. Closed(spliced, Discoverable)
  <2> SUFFICES ASSUME NEW e \in Discoverable, e[1] \in spliced PROVE e[2] \in spliced
    BY DEF Closed
  <2>1. PICK i \in 1..Discovered(e[1]) : e[2] \in ToSet(Imports(e[1])[i].to)
    BY DEF Discoverable
  <2>2. i \in 1..Len(Imports(e[1]))
    BY <1>1, FileShape DEF IInv, FilesOK
  <2>3. ImportsSpliced(e[1])
    BY <1>1 DEF WalkInv
  <2> QED BY <2>1, <2>2, <2>3 DEF ImportsSpliced
<1>3. Reached \subseteq spliced
  <2>1. Entry \in spliced /\ spliced \in SUBSET Files
    BY <1>1 DEF WalkInv
  <2> QED BY <1>2, <2>1, ReachedWithin DEF Reached
<1> QED BY <1>1, <1>3 DEF CycleInv

---------------------------------------------------------------------------
(* What names refer to.                                                    *)

\* What the modules c add to the program, labels of their own aside.
Real(c) ==
    {x \in ItemSet :
        \E g \in DOMAIN c :
            \/ x.kind \in {"decl", "macro"} /\ x.name \in Named(g, {x.kind}) /\ x.module = c[g].id
            \/ x.kind = "extern" /\ x \in ToSet(c[g].externs)}

\* What t binds n to is in R.
Grounded(t, n, R) ==
    n \in DOMAIN t =>
        /\ t[n].kind = "decl"   => \A id \in t[n].of : Item("decl", n, id) \in R
        /\ t[n].kind = "macros" => \A id \in t[n].of : Item("macro", n, id) \in R
        /\ t[n].kind = "extern" => \A id \in t[n].of : Item("extern", n, id) \in R

GroundInv ==
    \A f \in DOMAIN cache :
        /\ ~Duplicated(f)
        /\ \A n \in Identifiers :
               Grounded(cache[f].exports, n, Real(cache)) /\ Grounded(cache[f].scope, n, Real(cache))

LEMMA GroundedIn == ASSUME NEW t, NEW n, NEW R, NEW S, R \subseteq S, Grounded(t, n, R) PROVE Grounded(t, n, S)
BY DEF Grounded

LEMMA MergeGrounded ==
    ASSUME NEW s, NEW t, NEW n, NEW R, Grounded(s, n, R), Grounded(t, n, R)
    PROVE  Grounded(MergeTables(s, t), n, R)
<1> DEFINE m == MergeTables(s, t)
<1> SUFFICES ASSUME n \in DOMAIN m PROVE Grounded(m, n, R)
  BY DEF Grounded
<1>1. /\ n \in DOMAIN s \cup DOMAIN t
      /\ m[n] = IF n \notin DOMAIN t THEN s[n] ELSE IF n \notin DOMAIN s THEN t[n] ELSE Merge(s[n], t[n])
  BY DEF MergeTables
<1> HIDE DEF m
<1>2. CASE n \notin DOMAIN t \/ n \notin DOMAIN s \/ s[n] = t[n]
  <2>1. (m[n] = s[n] /\ n \in DOMAIN s) \/ (m[n] = t[n] /\ n \in DOMAIN t)
    BY <1>1, <1>2 DEF Merge
  <2> QED BY <2>1 DEF Grounded
<1>3. CASE n \in DOMAIN t /\ n \in DOMAIN s /\ s[n].kind = "macros" /\ t[n].kind = "macros" /\ s[n] # t[n]
  <2>1. m[n] = Macros(s[n].of \cup t[n].of)
    BY <1>1, <1>3 DEF Merge
  <2>2. m[n].kind = "macros" /\ m[n].of = s[n].of \cup t[n].of
    BY <2>1 DEF Macros, Bound
  <2> QED BY <1>3, <2>2 DEF Grounded
<1>4. CASE n \in DOMAIN t /\ n \in DOMAIN s /\ ~(s[n].kind = "macros" /\ t[n].kind = "macros") /\ s[n] # t[n]
  <2>1. m[n] = Ambiguous(s[n].of \cup t[n].of)
    BY <1>1, <1>4 DEF Merge
  <2>2. m[n].kind = "ambiguous"
    BY <2>1 DEF Ambiguous, Bound
  <2> QED BY <2>2 DEF Grounded
<1> QED BY <1>2, <1>3, <1>4

LEMMA MergedGrounded ==
    ASSUME NEW tables \in Seq(Tables), NEW n, NEW R, \A s \in ToSet(tables) : Grounded(s, n, R)
    PROVE  Grounded(Merged(tables), n, R)
<1> DEFINE l == Len(tables)
<1>1. PICK g : Merging(g, tables)
  BY MergedUnfolds
<1>2. /\ l \in Nat /\ g[0] = NoNames /\ Merged(tables) = g[l] /\ \A k \in 1..l : tables[k] \in ToSet(tables)
      /\ \A k \in 1..l : g[k] = MergeTables(g[k - 1], tables[k])
  BY <1>1 DEF Merging, ToSet
<1> HIDE DEF l
<1> DEFINE U == {k \in 0..l : Grounded(g[k], n, R)}
<1>3. 0 \in U
  BY <1>2 DEF NoNames, Grounded
<1>4. ASSUME NEW k \in 0..l, k # l, k \in U PROVE k + 1 \in U
  <2>1. k + 1 \in 0..l /\ k + 1 \in 1..l /\ (k + 1) - 1 = k
    BY <1>2, <1>4
  <2>2. g[k + 1] = MergeTables(g[k], tables[k + 1]) /\ Grounded(tables[k + 1], n, R)
    BY <1>2, <2>1
  <2> QED BY <1>4, <2>1, <2>2, MergeGrounded
<1>5. 0..l \subseteq U
  <2> HIDE DEF U
  <2> QED BY <1>2, <1>3, <1>4, IntervalInduction
<1>6. l \in 0..l
  BY <1>2
<1> QED BY <1>2, <1>5, <1>6

LEMMA CombinedGrounded ==
    ASSUME NEW explicit \in Seq(Tables), NEW glob \in Seq(Tables), NEW n, NEW R,
           \A s \in ToSet(explicit) \cup ToSet(glob) : Grounded(s, n, R)
    PROVE  Grounded(Combined(explicit, glob), n, R)
<1> DEFINE e == Merged(explicit)
           g == Merged(glob)
           t == Over(e, g)
<1>1. Grounded(e, n, R) /\ Grounded(g, n, R)
  BY MergedGrounded
<1>2. n \in DOMAIN t => (n \in DOMAIN e /\ t[n] = e[n]) \/ (n \in DOMAIN g /\ t[n] = g[n])
  BY DEF Over
<1> HIDE DEF t
<1>3. Grounded(t, n, R)
  BY <1>1, <1>2 DEF Grounded
<1> QED BY <1>3 DEF t, Combined

LEMMA ShadowGrounded ==
    ASSUME NEW s, NEW t, NEW n, NEW R, Grounded(s, n, R), Grounded(t, n, R)
    PROVE  Grounded(Shadow(s, t), n, R)
<1> DEFINE m == Shadow(s, t)
<1> SUFFICES ASSUME n \in DOMAIN m PROVE Grounded(m, n, R)
  BY DEF Grounded
<1>1. \/ n \in DOMAIN t /\ m[n] = t[n]
      \/ n \in DOMAIN s /\ m[n] = s[n]
      \/ n \in DOMAIN s \cap DOMAIN t /\ s[n].kind = "macros" /\ t[n].kind = "macros"
           /\ m[n] = Macros(s[n].of \cup t[n].of)
  BY DEF Shadow
<1> HIDE DEF m
<1>2. CASE (n \in DOMAIN t /\ m[n] = t[n]) \/ (n \in DOMAIN s /\ m[n] = s[n])
  BY <1>2 DEF Grounded
<1>3. CASE n \in DOMAIN s \cap DOMAIN t /\ s[n].kind = "macros" /\ t[n].kind = "macros"
             /\ m[n] = Macros(s[n].of \cup t[n].of)
  <2>1. m[n].kind = "macros" /\ m[n].of = s[n].of \cup t[n].of
    BY <1>3 DEF Macros, Bound
  <2> QED BY <1>3, <2>1 DEF Grounded
<1> QED BY <1>1, <1>2, <1>3

LEMMA OwnGrounded ==
    ASSUME NEW f, NEW id, NEW decls \in SUBSET Decl, NEW n, NEW R,
           \A d \in decls : d.kind # "label" => Item(d.kind, d.name, id) \in R
    PROVE  Grounded(Own(f, id, decls), n, R)
<1> DEFINE t  == Own(f, id, decls)
           of == CHOOSE d \in decls : d.name = n
<1> SUFFICES ASSUME n \in DOMAIN t PROVE Grounded(t, n, R)
  BY DEF Grounded
<1>1. \E d \in decls : d.name = n
  BY DEF Own
<1>2. of \in decls /\ of.name = n
  BY <1>1
<1>3. t[n] = CASE of.kind = "decl"  -> DeclOf(id)
               [] of.kind = "macro" -> Macros({id})
               [] of.kind = "label" -> LabelOf(id)
  BY <1>1 DEF Own
<1> HIDE DEF t, of
<1>4. of.kind \in {"decl", "macro", "label"}
  BY <1>2 DEF Decl
<1>5. /\ DeclOf(id).kind = "decl" /\ DeclOf(id).of = {id} /\ LabelOf(id).kind = "label"
      /\ Macros({id}).kind = "macros" /\ Macros({id}).of = {id}
  BY DEF DeclOf, Macros, LabelOf, Bound
<1>6. CASE of.kind = "decl"
  BY <1>2, <1>3, <1>5, <1>6 DEF Grounded
<1>7. CASE of.kind = "macro"
  BY <1>2, <1>3, <1>5, <1>7 DEF Grounded
<1>8. CASE of.kind = "label"
  BY <1>3, <1>5, <1>8 DEF Grounded
<1> QED BY <1>4, <1>6, <1>7, <1>8

\* A label imported by name is one of the file's externs.
LEMMA ExternsHold ==
    ASSUME CacheOK, NEW f, Loaded(Imports(f)), NEW import \in ToSet(Imports(f)), import.form = "names",
           NEW n \in ToSet(import.names), n \notin DOMAIN cache[import.to[1]].exports
    PROVE  Item("extern", n, cache[import.to[1]].id) \in ToSet(ExternLabels(f))
<1> DEFINE target  == cache[import.to[1]]
           names   == import.names
           x       == Item("extern", n, target.id)
           one(k)  == IF names[k] \in DOMAIN target.exports THEN <<>>
                      ELSE <<[kind |-> "extern", name |-> names[k], module |-> target.id]>>
           labels  == [k \in DOMAIN names |-> one(k)]
           imports == Imports(f)
           all(i)  == IF imports[i].form = "names" THEN LabelsOf(imports[i]) ELSE <<>>
           externs == [i \in DOMAIN imports |-> all(i)]
<1>1. /\ import \in Import /\ import.to # <<>> /\ ToSet(import.to) \subseteq DOMAIN cache
      /\ names \in Seq(Identifiers) /\ target.id \in Nat
  BY LoadedImport, NamedTableType, ImportShape
<1>2. x \in ToSet(LabelsOf(import))
  <2>1. PICK k \in 1..Len(names) : n = names[k]
    BY <1>1 DEF ToSet
  <2>2. \A h \in 1..Len(names) : one(h) \in Seq(Externs)
    <3>1. ASSUME NEW h \in 1..Len(names)
          PROVE  [kind |-> "extern", name |-> names[h], module |-> target.id] \in Externs
      BY <1>1 DEF Externs
    <3> DEFINE e(h) == [kind |-> "extern", name |-> names[h], module |-> target.id]
    <3>2. \A h \in 1..Len(names) : e(h) \in Externs
      BY <3>1
    <3> HIDE DEF e, target, names
    <3>3. \A h \in 1..Len(names) : <<e(h)>> \in Seq(Externs) /\ <<>> \in Seq(Externs)
      BY <3>2
    <3> QED BY <3>3 DEF e
  <2>3. one(k) = <<x>>
    BY <2>1 DEF Item
  <2> HIDE DEF one, x
  <2>4. labels \in Seq(Seq(Externs)) /\ Len(labels) = Len(names) /\ labels[k] = one(k)
    <3>1. DOMAIN names = 1..Len(names) /\ Len(names) \in Nat
      BY <1>1
    <3> HIDE DEF names
    <3> QED BY <2>2, <3>1
  <2>5. x \in ToSet(labels[k])
    BY <2>3, <2>4 DEF ToSet
  <2>6. LabelsOf(import) = FlattenSeq(labels)
    BY DEF LabelsOf, one
  <2> HIDE DEF labels, names
  <2> QED BY <2>1, <2>4, <2>5, <2>6, FlattenSeqElements
<1> HIDE DEF x
<1>3. PICK i \in 1..Len(imports) : import = imports[i]
  BY DEF Loaded, ToSet
<1>4. externs \in Seq(Seq(Externs)) /\ Len(externs) = Len(imports) /\ externs[i] = all(i)
  <2>1. /\ Len(imports) \in Nat /\ DOMAIN imports = 1..Len(imports)
        /\ \A j \in 1..Len(imports) : /\ imports[j] \in Import /\ imports[j].to # <<>>
                                      /\ ToSet(imports[j].to) \subseteq DOMAIN cache
    BY DEF Loaded
  <2>2. <<>> \in Seq(Externs)
    OBVIOUS
  <2>3. \A j \in 1..Len(imports) : all(j) \in Seq(Externs)
    BY <2>1, <2>2, LabelsType
  <2> HIDE DEF all, imports
  <2> QED BY <2>1, <2>3
<1>5. x \in ToSet(externs[i])
  BY <1>2, <1>3, <1>4
<1>6. ExternLabels(f) = FlattenSeq(externs)
  BY DEF ExternLabels
<1> HIDE DEF externs, imports
<1>7. x \in ToSet(ExternLabels(f))
  BY <1>3, <1>4, <1>5, <1>6, FlattenSeqElements
<1> QED BY <1>7 DEF x

\* What the imports of a file bring is in the program, with its externs.
LEMMA ImportsGrounded ==
    ASSUME CacheOK, NEW f, Loaded(Imports(f)), NEW imports, Loaded(imports),
           ToSet(imports) \subseteq ToSet(Imports(f)), NEW n, NEW R,
           \A h \in DOMAIN cache : Grounded(cache[h].exports, n, R),
           ToSet(ExternLabels(f)) \subseteq R
    PROVE  Grounded(Combined(Explicit(imports), Glob(imports)), n, R)
<1>1. ASSUME NEW import \in ToSet(imports), import.form = "names" PROVE Grounded(NamedTable(import), n, R)
  <2> DEFINE t == NamedTable(import)
             h == import.to[1]
  <2> SUFFICES ASSUME n \in DOMAIN t PROVE Grounded(t, n, R)
    BY DEF Grounded
  <2>1. h \in DOMAIN cache
    BY LoadedImport
  <2>2. n \in ToSet(import.names)
    BY DEF NamedTable
  <2>3. t[n] = IF n \in DOMAIN cache[h].exports THEN cache[h].exports[n] ELSE ExternOf(cache[h].id, import.span)
    BY <2>2 DEF NamedTable
  <2> HIDE DEF t, h
  <2>4. CASE n \in DOMAIN cache[h].exports
    BY <2>1, <2>3, <2>4 DEF Grounded
  <2>5. CASE n \notin DOMAIN cache[h].exports
    <3>1. t[n].kind = "extern" /\ t[n].of = {cache[h].id}
      BY <2>3, <2>5 DEF ExternOf
    <3>2. Item("extern", n, cache[h].id) \in R
      BY <1>1, <2>2, <2>5, ExternsHold DEF h
    <3> QED BY <3>1, <3>2 DEF Grounded
  <2> QED BY <2>4, <2>5
<1>2. Grounded(NoNames, n, R)
  BY DEF NoNames, Grounded
<1>3. \A t \in ToSet(Explicit(imports)) : Grounded(t, n, R)
  BY <1>1, <1>2, TablesExplicit
<1>4. \A t \in ToSet(Glob(imports)) : Grounded(t, n, R)
  <2> SUFFICES ASSUME NEW t \in ToSet(Glob(imports)) PROVE Grounded(t, n, R)
    OBVIOUS
  <2>1. PICK import \in ToSet(imports) : \E h \in ToSet(import.to) : t = cache[h].exports
    BY GlobTables
  <2>2. ToSet(import.to) \subseteq DOMAIN cache
    BY LoadedImport
  <2> QED BY <2>1, <2>2
<1> QED BY <1>3, <1>4, ExplicitType, GlobType, CombinedGrounded

\* A finished module refers to what the modules loaded add.
LEMMA FinishedGround ==
    ASSUME IInv, GroundInv, FinishModule
    PROVE  LET f == Top.file IN
           /\ ~Duplicated(f)
           /\ \A n \in Identifiers : /\ Grounded(cache'[f].exports, n, Real(cache'))
                                     /\ Grounded(cache'[f].scope, n, Real(cache'))
<1> DEFINE f == Top.file
           c == cache'
           R == Real(c)
           id == c[f].id
           decls == ToSet(files[f].decls)
           exported == {d \in decls : d.pub /\ d.kind # "label"}
<1>1. /\ f \in Files /\ Loaded(Imports(f)) /\ ModuleProblem = "none" /\ f \in DOMAIN c
      /\ \A h \in DOMAIN cache : h \in DOMAIN c /\ c[h] = cache[h]
      /\ c[f].exports = Exports(f, id) /\ c[f].scope = FullScope(f, id) /\ c[f].externs = ExternLabels(f)
      /\ id \in Nat /\ \A i \in DOMAIN Imports(f) : ImportProblem(Imports(f)[i]) = "none"
  BY FinishedModule, NextIdType DEF IInv
<1>2. ~Duplicated(f)
  BY <1>1 DEF ModuleProblem
<1> HIDE DEF f, c, id
<1>3. Real(cache) \subseteq R
  BY <1>1 DEF Real
<1>4. ToSet(ExternLabels(f)) \subseteq R
  <2>1. ExternLabels(f) \in Seq(Externs)
    BY <1>1, ExternsType DEF IInv
  <2>2. \A x \in ToSet(ExternLabels(f)) : x \in Externs
    BY <2>1 DEF ToSet
  <2>3. \A x \in Externs : x \in ItemSet /\ x.kind = "extern"
    BY DEF Externs, ItemSet
  <2> QED BY <1>1, <2>2, <2>3 DEF Real
<1>5. decls \in SUBSET Decl /\ exported \in SUBSET decls
  BY <1>1 DEF IInv, FilesOK, IsFile, ToSet
<1>6. \A d \in decls : d.kind # "label" => Item(d.kind, d.name, id) \in R
  <2> SUFFICES ASSUME NEW d \in decls, d.kind # "label" PROVE Item(d.kind, d.name, id) \in R
    OBVIOUS
  <2> DEFINE x == Item(d.kind, d.name, id)
  <2>1. d \in Decl /\ d.kind \in {"decl", "macro"} /\ d.name \in Identifiers
    BY <1>5 DEF Decl
  <2>2. x.kind = d.kind /\ x.name = d.name /\ x.module = id /\ x \in ItemSet
    BY <1>1, <2>1 DEF Item, ItemSet
  <2>3. d.name \in Named(f, {d.kind})
    BY <2>1 DEF Named
  <2> HIDE DEF x
  <2>4. x \in R
    BY <1>1, <2>1, <2>2, <2>3 DEF Real, id
  <2> QED BY <2>4 DEF x
<1> HIDE DEF R
<1>7. ASSUME NEW n \in Identifiers PROVE Grounded(c[f].exports, n, R) /\ Grounded(c[f].scope, n, R)
  <2>1. Grounded(OwnNames(f, id), n, R)
    BY <1>5, <1>6, OwnGrounded DEF OwnNames
  <2>2. Grounded(OwnExports(f, id), n, R)
    <3>1. Grounded(Own(f, id, exported), n, R)
      <4> HIDE DEF decls, exported
      <4> QED BY <1>5, <1>6, OwnGrounded
    <3> QED BY <3>1 DEF OwnExports
  <2>3. \A h \in DOMAIN cache : Grounded(cache[h].exports, n, R)
    BY <1>3, GroundedIn DEF GroundInv
  <2>4. Grounded(ScopeOf(f), n, R)
    BY <1>1, <1>4, <2>3, ImportsGrounded DEF IInv, ScopeOf
  <2>5. Grounded(Reexports(f), n, R)
    <3> DEFINE imports == Public(Imports(f))
    <3>1. Loaded(imports)
      BY <1>1, PublicLoaded
    <3>2. ToSet(imports) \subseteq ToSet(Imports(f))
      BY <1>1, PublicElements
    <3> HIDE DEF imports
    <3>3. Grounded(Combined(Explicit(imports), Glob(imports)), n, R)
      BY <1>1, <1>4, <2>3, <3>1, <3>2, ImportsGrounded DEF IInv
    <3> QED BY <3>3 DEF imports, Reexports
  <2> QED BY <1>1, <2>1, <2>2, <2>4, <2>5, ShadowGrounded DEF Exports, FullScope
<1> QED BY <1>2, <1>7 DEF f, c, R

\* What modules add depends on them and the files only.
LEMMA RealKept == ASSUME files' = files PROVE Real(cache)' = Real(cache')
BY DEF Real, Named

LEMMA StepGroundInv == ASSUME IInv, GroundInv, [Next]_vars PROVE GroundInv'
<1>1. CASE files' = files /\ cache' = cache
  BY <1>1, RealKept DEF GroundInv, Duplicated, Grounded
<1>2. CASE FinishModule
  <2> DEFINE f == Top.file
  <2>1. /\ DOMAIN cache' = DOMAIN cache \cup {f} /\ files' = files
        /\ \A h \in DOMAIN cache : h \in DOMAIN cache' /\ cache'[h] = cache[h]
    BY <1>2, FinishedModule
  <2>2. Real(cache) \subseteq Real(cache')
    BY <2>1 DEF Real
  <2>3. ASSUME NEW h \in DOMAIN cache'
        PROVE  /\ ~Duplicated(h)
               /\ \A n \in Identifiers : /\ Grounded(cache'[h].exports, n, Real(cache'))
                                         /\ Grounded(cache'[h].scope, n, Real(cache'))
    <3>1. CASE h = f
      BY <1>2, <3>1, FinishedGround
    <3>2. CASE h \in DOMAIN cache
      <4>1. /\ ~Duplicated(h) /\ cache'[h] = cache[h]
            /\ \A n \in Identifiers : /\ Grounded(cache[h].exports, n, Real(cache))
                                      /\ Grounded(cache[h].scope, n, Real(cache))
        BY <2>1, <3>2 DEF GroundInv
      <4> QED BY <2>2, <4>1, GroundedIn
    <3> QED BY <2>1, <3>1, <3>2
  <2>4. \A h : Duplicated(h)' <=> Duplicated(h)
    BY <2>1 DEF Duplicated
  <2>5. Real(cache)' = Real(cache')
    BY <2>1, RealKept
  <2>6. ASSUME NEW h \in DOMAIN cache', NEW n \in Identifiers
        PROVE  /\ Grounded(cache[h].exports, n, Real(cache))'
               /\ Grounded(cache[h].scope, n, Real(cache))'
    BY <2>3, <2>5 DEF Grounded
  <2> HIDE DEF f
  <2> QED BY <2>3, <2>4, <2>6 DEF GroundInv
<1>3. (files' = files /\ cache' = cache) \/ FinishModule
  BY DEF Next, vars, AskForImport, ReportCycle, EnterModule, TakeSeed, RejectModule, StartSplicing, SpliceImport,
         SpliceModule, Stopped, Loading
<1> QED BY <1>1, <1>2, <1>3

\* A name declared in a loaded file is declared once, or is a macro.
LEMMA DeclaredCount ==
    ASSUME IInv, NEW g \in DOMAIN cache, ~Duplicated(g), NEW n
    PROVE  /\ n \in Named(g, {"decl"}) => Declared("decl", g, n) = 1
           /\ n \in Named(g, {"macro"}) => Declared("macro", g, n) \in Nat /\ Declared("macro", g, n) >= 1
<1> DEFINE decls == files[g].decls
           At(kind) == {i \in DOMAIN decls : decls[i].name = n /\ decls[i].kind = kind}
<1>1. decls \in Seq(Decl)
  BY DEF IInv, CacheOK, FilesOK, IsFile
<1>2. DOMAIN decls = 1..Len(decls) /\ Len(decls) \in Nat
  BY <1>1
<1>3. ASSUME NEW kind, n \in Named(g, {kind}) PROVE \E i \in At(kind) : TRUE
  BY <1>3 DEF Named, ToSet
<1>4. \A kind : IsFiniteSet(At(kind)) /\ Cardinality(At(kind)) \in Nat
  <2> SUFFICES ASSUME NEW kind PROVE IsFiniteSet(At(kind)) /\ Cardinality(At(kind)) \in Nat
    OBVIOUS
  <2> DEFINE A == At(kind)
  <2>1. A \in SUBSET (1..Len(decls)) /\ IsFiniteSet(1..Len(decls))
    BY <1>2, FS_Interval
  <2> HIDE DEF A
  <2>2. IsFiniteSet(A) /\ Cardinality(A) \in Nat
    BY <2>1, FS_Subset, FS_CardinalityType
  <2> QED BY <2>2 DEF A
<1>5. ASSUME n \in Named(g, {"decl"}) PROVE Cardinality(At("decl")) = 1
  <2>1. PICK i \in At("decl") : TRUE
    BY <1>3, <1>5
  <2>2. ASSUME NEW j \in At("decl") PROVE j = i
    <3>1. i \in 1..Len(decls) /\ j \in 1..Len(decls) /\ decls[i].name = decls[j].name
          /\ decls[i].kind = "decl" /\ decls[j].kind = "decl"
      BY <1>2, <2>1
    <3>2. ~(i < j) /\ ~(j < i)
      <4>1. \A a, b \in DOMAIN decls :
                ~(a < b /\ decls[a].name = decls[b].name /\ ~(decls[a].kind = "macro" /\ decls[b].kind = "macro"))
        BY DEF Duplicated
      <4> QED BY <1>2, <3>1, <4>1
    <3> QED BY <1>2, <3>1, <3>2
  <2> DEFINE A == At("decl")
  <2>3. A = {i}
    <3> HIDE DEF At
    <3> QED BY <2>1, <2>2
  <2> HIDE DEF A
  <2>4. Cardinality(A) = 1
    BY <2>3, FS_Singleton
  <2> QED BY <2>4 DEF A
<1>6. ASSUME n \in Named(g, {"macro"}) PROVE Cardinality(At("macro")) >= 1
  <2> DEFINE A == At("macro")
  <2>1. A # {} /\ IsFiniteSet(A) /\ Cardinality(A) \in Nat
    BY <1>3, <1>4, <1>6
  <2> HIDE DEF A
  <2>2. Cardinality(A) # 0
    BY <2>1, FS_EmptySet
  <2>3. Cardinality(A) >= 1
    BY <2>1, <2>2
  <2> QED BY <2>3 DEF A
<1> QED BY <1>4, <1>5, <1>6 DEF Declared

LEMMA ProgramHoldsReferences ==
    ASSUME IInv, CycleInv, SpliceInv, GroundInv
    PROVE  ProgramIsClosed
<1> SUFFICES ASSUME Settled PROVE ProgramIsClosed
  BY DEF ProgramIsClosed
<1>1. WalkInv /\ ProgramInv /\ phase = "done"
  BY DEF SpliceInv, Unspliced, Settled
<1>2. Emitted = DOMAIN cache
  BY <1>1, AllEmitted
<1>3. \A kind, n, id : Count(kind, n, id) = Cardinality(Places(program, Item(kind, n, id)))
  BY DEF Count, Places, Item
<1>4. \A f \in DOMAIN cache : \A n \in Identifiers : \A kind \in {"decl", "macro"} :
          Count(kind, n, cache[f].id) = Declared(kind, f, n)
  BY <1>1, <1>2, <1>3 DEF ProgramInv
<1>5. ASSUME NEW f \in DOMAIN cache, NEW n \in DOMAIN cache[f].scope
      PROVE  LET b == cache[f].scope[n] IN
             /\ b.kind = "decl"   => \A id \in b.of : Count("decl", n, id) = 1
             /\ b.kind = "macros" => \A id \in b.of : Count("macro", n, id) >= 1
             /\ b.kind = "extern" => \A id \in b.of : Count("extern", n, id) = 1
  <2> DEFINE b == cache[f].scope[n]
             R == Real(cache)
  <2>1. n \in Identifiers
    BY DEF IInv, CacheOK, Module
  <2>2. /\ b.kind = "decl"   => \A id \in b.of : Item("decl", n, id) \in R
        /\ b.kind = "macros" => \A id \in b.of : Item("macro", n, id) \in R
        /\ b.kind = "extern" => \A id \in b.of : Item("extern", n, id) \in R
    BY <2>1 DEF GroundInv, Grounded
  <2>3. ASSUME NEW kind \in {"decl", "macro"}, NEW id, Item(kind, n, id) \in R
        PROVE  \E g \in DOMAIN cache : n \in Named(g, {kind}) /\ id = cache[g].id
    <3> DEFINE x == Item(kind, n, id)
    <3>1. x.kind = kind /\ x.name = n /\ x.module = id
      BY DEF Item
    <3> HIDE DEF x
    <3>2. x \in R
      BY <2>3 DEF x
    <3> QED BY <3>1, <3>2 DEF Real
  <2>4. ASSUME NEW id, Item("extern", n, id) \in R PROVE Count("extern", n, id) = 1
    <3> DEFINE x == Item("extern", n, id)
    <3>1. x.kind = "extern"
      BY DEF Item
    <3> HIDE DEF x
    <3>2. PICK g \in DOMAIN cache : x \in ToSet(cache[g].externs)
      BY <2>4, <3>1 DEF Real, x
    <3>3. x \in ToSet(program)
      BY <1>1, <1>2, <3>2 DEF ProgramInv
    <3>4. Cardinality(Places(program, x)) = 1
      BY <1>1, <3>1, <3>3 DEF ProgramInv
    <3> QED BY <1>3, <3>4 DEF x
  <2>5. ASSUME NEW id, Item("decl", n, id) \in R PROVE Count("decl", n, id) = 1
    <3>1. PICK g \in DOMAIN cache : n \in Named(g, {"decl"}) /\ id = cache[g].id
      BY <2>3, <2>5
    <3>2. Declared("decl", g, n) = 1
      BY <3>1, DeclaredCount DEF GroundInv
    <3> QED BY <1>4, <2>1, <3>1, <3>2
  <2>6. ASSUME NEW id, Item("macro", n, id) \in R PROVE Count("macro", n, id) >= 1
    <3>1. PICK g \in DOMAIN cache : n \in Named(g, {"macro"}) /\ id = cache[g].id
      BY <2>3, <2>6
    <3>2. Declared("macro", g, n) >= 1
      BY <3>1, DeclaredCount DEF GroundInv
    <3>3. Count("macro", n, id) = Declared("macro", g, n)
      BY <1>4, <2>1, <3>1
    <3> QED BY <3>2, <3>3
  <2> HIDE DEF b, R
  <2> QED BY <2>2, <2>4, <2>5, <2>6 DEF b
<1> QED BY <1>4, <1>5 DEF ProgramIsClosed

\* For every file tree: the flattened program has every declaration of every
\* module as often as its file has it, each imported label once, and so
\* whatever a loaded file's names mean, the labels of libraries aside.
THEOREM LoaderProgramIsClosed == Spec => []ProgramIsClosed
<1> DEFINE Inv == IInv /\ CycleInv /\ SpliceInv /\ GroundInv
<1>1. Init => Inv
  <2>1. Init => SpliceInv
    BY DEF Init, SpliceInv, Unspliced
  <2>2. Init => GroundInv
    BY DEF Init, GroundInv
  <2> QED BY <2>1, <2>2, InitIInv, InitCycleInv
<1>2. Inv /\ [Next]_vars => Inv'
  BY StepIInv, StepCycleInv, StepSpliceInv, StepGroundInv
<1>3. Inv => ProgramIsClosed
  BY ProgramHoldsReferences
<1> QED BY <1>1, <1>2, <1>3, PTL DEF Spec

===========================================================================
