---------------------------- MODULE CheckMeaning ----------------------------
(***************************************************************************)
(* What the diagnostics of a file should be, told from its syntax tree and *)
(* from everything that is said about levels, without the linter.          *)
(***************************************************************************)
EXTENDS Token

LOCAL INSTANCE SequencesExt

-----------------------------------------------------------------------------
(* Levels.                                                                 *)

(* What words, each [lint, level], make of a lint that begins at a level:  *)
(* the last one counts, but for a forbid, after which none does.           *)
Meant(lint, default, words) ==
    LET mine == SelectSeq(words, LAMBDA w : w.lint = lint)
    IN  IF \E i \in DOMAIN mine : mine[i].level = "forbid" THEN "forbid"
        ELSE IF mine = <<>> THEN default ELSE Last(mine).level

-----------------------------------------------------------------------------
(* Names.                                                                  *)

RECURSIVE Uttered(_, _, _)

(* The parts of a node that use no name: they name something new, a module,*)
(* a section or a lint, or are the tokens of a pattern.                    *)
Nameless(n) ==
    CASE n.k \in {"Import", "Label", "Section"} -> DOMAIN n.c
      [] n.k = "Syntax" -> {2, 3}
      [] n.k = "Facet" /\ n.t \in {"syntax", "allow", "expect", "warn", "deny", "forbid"} -> DOMAIN n.c
      [] OTHER -> {}

(* The parts that do use names and that the linter is known to pass over.  *)
(* In the body of a macro, and of a fold that is a value (`inside`): the   *)
(* types of constants, all but the name of a declaration, and the type     *)
(* that the macro emits.  Elsewhere: what the names of declarations        *)
(* splice, their generic parameters and the facets of aliases.             *)
Overlooked(n, inside) ==
    CASE n.k = "Const" -> IF inside THEN {2} ELSE {1}
      [] n.k \in {"Struct", "Enum", "Type", "Macro"} /\ inside -> DOMAIN n.c \ {1}
      [] n.k = "Type" -> {1, 2, 4}
      [] n.k \in {"Struct", "Enum", "Macro"} -> {1, 2}
      [] n.k = "Facet" /\ n.t = "emits" /\ inside -> DOMAIN n.c
      [] n.k = "Field" /\ Len(n.c) = 5 -> {3}
      [] OTHER -> {}

(* The names a tree uses, in all its parts or only in those that are not   *)
(* overlooked (`plainly`), where the macros that are called inside are.    *)
Uttered(n, inside, plainly) ==
    LET c == n.c
        says == CASE n.k = "Identifier" -> {n.t}
                  [] n.k = "Path" -> {Last(n.c).t}
                  [] n.k = "Syntax" -> {n.c[1].t}
                  [] n.k = "Invocation" /\ ~ (inside /\ plainly) -> {n.t}
                  [] OTHER -> {}
        Here(i) ==
            IF n.k = "Block" /\ c[i].k = "Fold"
            THEN UNION { Uttered(c[i].c[j], inside, plainly) : j \in DOMAIN c[i].c }
            ELSE Uttered(c[i], inside \/ c[i].k = "Fold", plainly)
        passed == Nameless(n) \cup (IF plainly THEN Overlooked(n, inside) ELSE {})
    IN  says \cup UNION { Here(i) : i \in DOMAIN c \ passed }

RECURSIVE LoopVariables(_)

(* The variables of loops over statements, which the linter takes for uses *)
(* of those names.                                                         *)
LoopVariables(n) ==
    (IF n.k = "For" /\ n.c[3].k = "Block" THEN {n.c[1].t} ELSE {})
      \cup UNION { LoopVariables(n.c[i]) : i \in DOMAIN n.c }

-----------------------------------------------------------------------------
(* Folds.                                                                  *)

RECURSIVE Folds(_)

Folds(n) == (IF n.k = "Fold" THEN {n} ELSE {}) \cup UNION { Folds(n.c[i]) : i \in DOMAIN n.c }

RECURSIVE FoldsHere(_, _), NextHere(_)

Unvisited == {"Import", "Enum", "Type", "Macro", "Syntax", "As", "Range", "In",
              "EnumVariant", "SplicedIdentifier", "Name", "Generics", "Facets", "Params"}

(* Those in the places that the linter is known to visit: among the        *)
(* statements of a block, among the items of a body or as a value, but     *)
(* only in the bodies of loops and conditions that are not statements, and *)
(* neither in a struct field nor in what an arm compares.                  *)
FoldsHere(n, place) ==
    LET Bodies == { i \in DOMAIN n.c : n.c[i].k \in {"Block", "Body", "Fields", "For"} }
        visited ==
            CASE n.k \in Unvisited \/ (n.k = "Field" /\ Len(n.c) = 5) -> {}
              [] n.k \in {"Arm", "Construct"} -> Bodies
              [] n.k \in {"For", "Fold", "If", "Next"} /\ place # "statement" -> Bodies
              [] OTHER -> DOMAIN n.c
        below == CASE n.k = "Block" -> "statement"
                   [] n.k \in {"Body", "Fields"} -> "item"
                   [] n.k = "Fold" -> place
                   [] OTHER -> "value"
    IN  (IF n.k = "Fold" THEN {n} ELSE {})
          \cup UNION { FoldsHere(n.c[i], below) : i \in visited }

(* Whether a fold's body has a `@next` for it: one in a nested fold, in a  *)
(* construction or in a declaration is for another.                        *)
NextHere(n) ==
    \/ n.k = "Next"
    \/ /\ n.k \notin {"Fold", "Construct", "Struct", "Macro"}
       /\ \E i \in DOMAIN n.c : NextHere(n.c[i])

Pointless(fold) == ~ NextHere(fold.c[2].c[3])
=============================================================================
