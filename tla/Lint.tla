-------------------------------- MODULE Lint --------------------------------
(***************************************************************************)
(* src/src/diagnostics/lint.rs: what the linter finds in one file, before  *)
(* anything is resolved, and at what level it reports it; and which facets *)
(* a declaration may carry (src/src/facets/, src/src/resolver/facets.rs).  *)
(*                                                                         *)
(* A program is [v, doc, stray], as the parser returns it: statements, the *)
(* lines that document the file, and runs of doc comments about nothing.   *)
(* A diagnostic is [lint, at, about, error]: at is the statement of the    *)
(* file it points into (0 for none), about what it names.                  *)
(***************************************************************************)
EXTENDS Token

LOCAL INSTANCE SequencesExt

-----------------------------------------------------------------------------
(* Lints, their groups and their levels.                                   *)

group(name) ==
    CASE name = "unused" ->
             <<"unused_parameter", "unused_import", "unused_doc_comments">>
      [] name \in {"all", "warnings"} ->
             <<"unused_parameter", "unused_import", "unreachable_code",
               "generated_declarations", "unfulfilled_lint_expectation",
               "fold_without_next", "unused_doc_comments">>
      [] OTHER -> <<>>

Lints == ToSet(group("all")) \cup {"missing_docs"}

Selected(selector) ==
    IF selector \in Lints THEN <<selector>> ELSE group(selector)

Levels == {"allow", "expect", "warn", "deny", "forbid"}
Silent == {"allow", "expect"}
Fatal == {"deny", "forbid"}

DefaultConfig ==
    [lint \in Lints |-> IF lint = "missing_docs" THEN "allow" ELSE "warn"]

(* A mutant: what is forbidden can be allowed again.                       *)
SetAll(config, selector, level) ==
    [lint \in Lints |->
        IF lint \in ToSet(Selected(selector)) THEN level ELSE config[lint]]

(* LintConfig::set: what is forbidden stays forbidden.                     *)
set(config, selector, level) ==
    [lint \in Lints |->
        IF lint \in ToSet(Selected(selector)) /\ config[lint] # "forbid"
        THEN level ELSE config[lint]]

effective_level(lint, config, directives) ==
    FoldLeft(LAMBDA level, d :
                 IF d.lint = lint /\ level # "forbid" THEN d.level ELSE level,
             config[lint], directives)

Diagnostic(lint, at, about) ==
    [lint |-> lint, at |-> at, about |-> about, error |-> FALSE]

emit_lint(diagnostic, level) ==
    IF level \in Silent THEN <<>>
    ELSE <<[diagnostic EXCEPT !.error = level \in Fatal]>>

-----------------------------------------------------------------------------
(* Facets.                                                                 *)

Selectors(payload) ==
    IF payload.k = "Lint" THEN <<payload.c[1].t>>
    ELSE LET names == SelectSeq(payload.c, LAMBDA arg : arg.k = "Identifier")
         IN  [i \in DOMAIN names |-> names[i].t]

facet_directives(facets) ==
    LET Of(facet) ==
            LET lints == FlattenSeq([i \in DOMAIN Selectors(facet.c[1]) |->
                                        Selected(Selectors(facet.c[1])[i])])
            IN  [i \in DOMAIN lints |-> [lint |-> lints[i], level |-> facet.t]]
        mine == SelectSeq(facets, LAMBDA facet : facet.t \in Levels)
    IN  FlattenSeq([i \in DOMAIN mine |-> Of(mine[i])])

ExprFacet(facet) == facet.t \in {"invariant", "from", "to", "before", "after"}
TypeFacet(facet) == facet.t = "emits"

(* Where each facet may stand, and which may stand there once only.        *)
FacetFits(facet, kind) ==
    CASE facet.t \in {"invariant", "from", "to"} -> kind \in {"Struct", "Type"}
      [] facet.t \in {"before", "after", "emits", "syntax", "leaks_section"} ->
             kind = "Macro"
      [] facet.t \in Levels -> TRUE

FacetsOf(n) ==
    CASE n.k = "Struct" -> n.c[3].c [] n.k = "Type" -> n.c[4].c
      [] n.k = "Macro" -> n.c[5].c [] OTHER -> <<>>

validate_facets(n) ==
    LET facets == FacetsOf(n)
    IN  /\ \A i \in DOMAIN facets : FacetFits(facets[i], n.k)
        /\ \A i, j \in DOMAIN facets :
               /\ facets[i].t = facets[j].t
               /\ facets[i].t \in {"syntax", "leaks_section"} => i = j

-----------------------------------------------------------------------------
(* Names.                                                                  *)

RECURSIVE Identifiers(_), Mentions(_), References(_)

AllOf(F(_), nodes) == UNION { F(nodes[i]) : i \in DOMAIN nodes }

(* literal_spliced_name: what a name spells if all it splices is integers. *)
SpelledOut(name) ==
    IF \E i \in DOMAIN name.c : name.c[i].k = "Piece" /\ name.c[i].c[1].k # "Integer"
    THEN {}
    ELSE { FoldLeft(LAMBDA text, part :
                        text \o (IF part.k = "Piece" THEN part.c[1].t ELSE part.t),
                    "", name.c) }

TypeReference(path) == {Last(path.c).t}
FieldReferences(field) == Identifiers(field.c[4]) \cup Identifiers(field.c[5])

(* collect_expr_identifiers, collect_construct_identifiers,                *)
(* collect_struct_item_references and collect_type_references: every name  *)
(* below, except in the name of a struct field.  The variable of a loop    *)
(* over statements is kept as one of its arguments.                        *)
Identifiers(n) ==
    LET c == n.c IN
    CASE n.k = "Identifier" -> {n.t}
      [] n.k = "SplicedIdentifier" -> SpelledOut(c[1]) \cup Identifiers(c[1])
      [] n.k = "Path" -> TypeReference(n)
      [] n.k = "Field" /\ Len(c) = 5 -> FieldReferences(n)
      [] n.k = "For" /\ c[3].k = "Block" ->
             {c[1].t} \cup Identifiers(c[2]) \cup Identifiers(c[3])
      [] n.k = "Block" -> AllOf(Mentions, c)
      [] OTHER -> AllOf(Identifiers, c)

Declares == {"Struct", "Enum", "Type", "Macro"}

(* A mutant: what the name of a declaration splices is not looked at.      *)
MentionsUnspliced(n) ==
    CASE n.k = "Const" -> Identifiers(n.c[3])
      [] n.k \in Declares \cup {"Import", "Label", "Section", "Syntax"} -> {}
      [] OTHER -> Identifiers(n)

(* collect_statement_identifiers: of a constant its type is left out, of   *)
(* the other declarations all but what their names splice.                 *)
Mentions(n) ==
    CASE n.k = "Const" -> Identifiers(n.c[1]) \cup Identifiers(n.c[3])
      [] n.k \in Declares -> Identifiers(n.c[1])
      [] n.k \in {"Import", "Label", "Section", "Syntax"} -> {}
      [] OTHER -> Identifiers(n)

(* collect_program_statement_references: no names of declarations, no      *)
(* generic parameters, no facets of aliases.                               *)
LintPayload(payload) ==
    IF payload.k = "Lint" THEN {payload.c[1].t}
    ELSE {"lints"} \cup Identifiers(payload)

References(n) ==
    LET c == n.c
        Facet(facet) ==
            CASE facet.t \in Levels /\ n.k = "Struct" -> LintPayload(facet.c[1])
              [] ExprFacet(facet) \/ (TypeFacet(facet) /\ n.k = "Macro") ->
                     Identifiers(facet.c[1])
              [] OTHER -> {}
        Part(part) == CASE part.k = "Block" -> AllOf(References, part.c)
                        [] part.k \in {"Arm", "For"} -> References(part)
                        [] OTHER -> Identifiers(part)
    IN  CASE n.k \in {"Import", "Label", "Section"} -> {}
          [] n.k = "Struct" -> Identifiers(c[4]) \cup AllOf(Facet, c[3].c)
          [] n.k = "Enum" -> Identifiers(c[3])
          [] n.k = "Type" -> Identifiers(c[3])
          [] n.k = "Const" -> Identifiers(c[2]) \cup Identifiers(c[3])
          [] n.k = "Invocation" -> {n.t} \cup AllOf(Identifiers, c)
          [] n.k = "Syntax" -> {c[1].t}
          [] n.k = "Macro" -> Identifiers(c[3]) \cup Identifiers(c[4])
                                \cup AllOf(Facet, c[5].c) \cup AllOf(References, c[6].c)
          [] n.k = "For" -> {c[1].t} \cup AllOf(Part, c)
          [] OTHER -> AllOf(Part, c)

-----------------------------------------------------------------------------
(* Folds and what follows the end of a body.                               *)

RECURSIVE ContainsNext(_), FoldsIn(_), Unreachable(_)

(* A mutant: a nested fold's `@next` counts for the outer one.             *)
NextAnywhere(n) ==
    \/ n.k = "Next"
    \/ /\ n.k \in {"If", "For", "Fold", "Match", "Arm", "Block", "Body", "Fields"}
       /\ \E i \in DOMAIN n.c : ContainsNext(n.c[i])

(* statements_contain_next and its two companions.                         *)
ContainsNext(n) ==
    \/ n.k = "Next"
    \/ /\ n.k \in {"If", "For", "Match", "Arm", "Block", "Body", "Fields"}
       /\ \E i \in DOMAIN n.c : ContainsNext(n.c[i])

FoldsInAll(nodes) == FlattenSeq([i \in DOMAIN nodes |-> FoldsIn(nodes[i])])

(* The folds FoldLint looks at below a node.  Of a fold that is a value it *)
(* visits the body only, and of a loop among fields or items likewise.     *)
FoldsIn(n) ==
    LET c == n.c
        Bodies == SelectSeq(c, LAMBDA part : part.k \in {"Body", "Fields"})
        OfStatement(s) ==
            IF s.k = "Fold"
            THEN <<s>> \o FoldsIn(s.c[2].c[2]) \o FoldsIn(s.c[1]) \o FoldsIn(s.c[2].c[3])
            ELSE FoldsIn(s)
        Items == SelectSeq(c, LAMBDA item : item.k # "Next")
    IN  CASE n.k = "Block" -> FlattenSeq([i \in DOMAIN c |-> OfStatement(c[i])])
          [] n.k = "Fold" -> <<n>> \o FoldsIn(c[2].c[3])
          [] n.k \in {"For", "If"} /\ Bodies # <<>> -> FoldsInAll(Bodies)
          [] n.k = "For" -> FoldsInAll(Tail(c))
          [] n.k = "Arm" -> FoldsIn(c[2])
          [] n.k \in {"Const", "Construct"} -> FoldsIn(c[3])
          [] n.k = "Struct" -> FoldsIn(c[4])
          [] n.k = "Member" -> FoldsIn(c[1])
          [] n.k = "Field" -> IF Len(c) = 2 THEN FoldsIn(c[2]) ELSE <<>>
          [] n.k \in {"Body", "Fields"} -> FoldsInAll(Items)
          [] n.k \in {"Invocation", "Call", "Named", "Unary", "Binary", "Splice", "If",
                      "Match", "Meta", "Next", "List", "Binding"} ->
                 FoldsInAll(c)
          [] OTHER -> <<>>

Nextless(nodes, at) ==
    LET folds == SelectSeq(FoldsIn(N("Block", "", nodes)),
                           LAMBDA fold : ~ ContainsNext(fold.c[2].c[3]))
    IN  [i \in DOMAIN folds |-> Diagnostic("fold_without_next", at, folds[i])]

Ends(n) == n.k = "Next" \/ (n.k = "Meta" /\ n.t = "return")

(* lint_unreachable_block: the statements after one that ends their block, *)
(* whose own blocks are not looked into.                                   *)
Unreachable(n) ==
    LET c == n.c
        ended(i) == \E j \in 1 .. i - 1 : Ends(c[j])
    IN  CASE n.k = "Block" ->
                 FlattenSeq([i \in DOMAIN c |-> IF ended(i) THEN <<c[i]>>
                                                ELSE Unreachable(c[i])])
          [] n.k = "For" -> Unreachable(c[3])
          [] n.k \in {"If", "Fold", "Match", "Arm"} ->
                 FlattenSeq([i \in DOMAIN Tail(c) |-> Unreachable(Tail(c)[i])])
          [] OTHER -> <<>>

-----------------------------------------------------------------------------
(* The lints of a macro, whose facets set levels and say what to expect.   *)

UnusedParameters(n, at) ==
    LET params == n.c[3].c
        used == AllOf(LAMBDA param : Identifiers(param.c[3]), params)
                   \cup AllOf(Mentions, n.c[6].c)
                   \cup AllOf(LAMBDA facet : IF ExprFacet(facet) THEN Identifiers(facet.c[1])
                                             ELSE {}, n.c[5].c)
        Unused(param) == /\ param.c[1].t \notin used
                         /\ SubSeq(param.c[1].t, 1, 1) # "_"
        unused == SelectSeq(params, Unused)
    IN  [i \in DOMAIN unused |-> Diagnostic("unused_parameter", at, unused[i].c[1])]

(* A mutant: what is expected and hidden does not count as occurred.       *)
OccurredIfShown(found, levels) ==
    { lint \in Lints : /\ \E i \in DOMAIN found : found[i].lint = lint
                        /\ levels[lint] # "expect" }

Occurred(found, levels) == { found[i].lint : i \in DOMAIN found }

lint_macro(n, at, config, undocumented) ==
    LET directives  == facet_directives(n.c[5].c)
        unreachable == Unreachable(n.c[6])
        found ==
            UnusedParameters(n, at)
              \o [i \in DOMAIN unreachable |->
                     Diagnostic("unreachable_code", at, unreachable[i])]
              \o Nextless(n.c[6].c, at)
              \o (IF undocumented THEN <<Diagnostic("missing_docs", at, n.c[1])>> ELSE <<>>)
        levels == [lint \in Lints |-> effective_level(lint, config, directives)]
        occurred == Occurred(found, levels)
        stale == SelectSeq(directives, LAMBDA d : /\ d.level = "expect"
                                                  /\ d.lint \notin occurred)
    IN  FlattenSeq([i \in DOMAIN found |-> emit_lint(found[i], levels[found[i].lint])])
          \o FlattenSeq([i \in DOMAIN stale |->
                 emit_lint(Diagnostic("unfulfilled_lint_expectation", at,
                                      Leaf("Text", stale[i].lint)),
                           config["unfulfilled_lint_expectation"])])

-----------------------------------------------------------------------------
(* The lints of a file.                                                    *)

UnusedImports(program, packages) ==
    LET references == AllOf(References, program.v)
        Of(i) ==
            LET import == program.v[i]
                unused == SelectSeq(import.c[2].c, LAMBDA name : name.t \notin references)
            IN  IF import.t = "pub" \/ import.c[1] \in packages
                THEN <<>>
                ELSE [j \in DOMAIN unused |-> Diagnostic("unused_import", i, unused[j])]
    IN  FlattenSeq([i \in DOMAIN program.v |->
                       IF program.v[i].k = "Import" THEN Of(i) ELSE <<>>])

(* A macro is documented if one of its overloads here is, and reported     *)
(* once if not.                                                            *)
Undocumented(program, i) ==
    LET name(j) == literal_name(program.v[j].c[1])
        Overloads == { j \in DOMAIN program.v :
                         program.v[j].k = "Macro" /\ name(j) = name(i) }
    IN  /\ program.v[i].t = "pub" /\ name(i) # ""
        /\ \A j \in Overloads : program.v[j].d = <<>>
        /\ \A j \in Overloads : j < i => program.v[j].t # "pub"

lint_missing_docs(program) ==
    LET Missing(i) ==
            LET n == program.v[i]
            IN  /\ n.k \in {"Struct", "Enum", "Type", "Const", "Label"}
                /\ n.t = "pub" /\ n.d = <<>>
    IN  (IF program.doc = <<>> THEN <<Diagnostic("missing_docs", 0, Absent)>> ELSE <<>>)
          \o FlattenSeq([i \in DOMAIN program.v |->
                 IF Missing(i) THEN <<Diagnostic("missing_docs", i, program.v[i].c[1])>>
                 ELSE <<>>])

lint_program_with(program, config, packages) ==
    LET Reported(found) ==
            FlattenSeq([i \in DOMAIN found |-> emit_lint(found[i], config[found[i].lint])])
        stray == [i \in DOMAIN program.stray |->
                     Diagnostic("unused_doc_comments", 0, Leaf("Run",
                         IF program.stray[i][1].module THEN "module" ELSE "item"))]
    IN  Reported(UnusedImports(program, packages))
          \o FlattenSeq([i \in DOMAIN program.v |->
                 IF program.v[i].k = "Macro"
                 THEN lint_macro(program.v[i], i, config, Undocumented(program, i))
                 ELSE <<>>])
          \o Reported(lint_missing_docs(program))
          \o Reported(stray)
          \o Reported(Nextless(program.v, 0))
=============================================================================
