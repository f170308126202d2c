------------------------------- MODULE Check -------------------------------
(***************************************************************************)
(* `bitterasm check`, and what `compile` does before it writes: analyze in *)
(* src/src/main.rs.  The levels of the lints are read from the project     *)
(* file, line by line, and then from the command line; the entry file is   *)
(* linted; everything is resolved; and a level decides about declarations  *)
(* that were generated.                                                    *)
(*                                                                         *)
(* An input is [projects, commands, files], of which each is given with    *)
(* each: the lines of bitter.toml without blanks and comments, [k, s, l]   *)
(* with k "section", "setting" or "malformed"; the flags in their order;   *)
(* and the entry file as it is parsed.  Packages are the modules that are  *)
(* directories.                                                            *)
(***************************************************************************)
EXTENDS Lint, CheckMeaning

LOCAL INSTANCE FiniteSetsExt
LOCAL INSTANCE SequencesExt

CONSTANTS Inputs, Packages

VARIABLES
    given,      \* the project file, the flags and the entry file
    phase,      \* what comes next, or "checked" or "failed"
    at,         \* the line or the flag to read next
    section,    \* of the project file
    config,     \* the level of each lint so far
    reported    \* the diagnostics of the entry file

vars == <<given, phase, at, section, config, reported>>

Init ==
    /\ \E input \in Inputs :
           \E lines \in input.projects, flags \in input.commands, file \in input.files :
               given = [lines |-> lines, flags |-> flags, program |-> file]
    /\ phase = "file" /\ at = 1 /\ section = ""
    /\ config = DefaultConfig /\ reported = <<>>

Fail == phase' = "failed" /\ UNCHANGED <<given, at, section, config, reported>>

(* LintConfig::set as both readers call it: a name nobody knows is fatal.  *)
Setting(selector, level) ==
    IF Selected(selector) = <<>> THEN Fail
    ELSE /\ config' = set(config, selector, level) /\ at' = at + 1
         /\ UNCHANGED <<given, phase, section, reported>>

(* parse_lint_config.                                                      *)
AtLine(kind) ==
    phase = "file" /\ at \in DOMAIN given.lines
      /\ kind = IF given.lines[at].k = "section" THEN "section"
                ELSE IF section = "lints" THEN given.lines[at].k ELSE "other"

ReadSection ==
    /\ AtLine("section")
    /\ section' = given.lines[at].s /\ at' = at + 1
    /\ UNCHANGED <<given, phase, config, reported>>

SkipLine ==
    /\ AtLine("other")
    /\ at' = at + 1 /\ UNCHANGED <<given, phase, section, config, reported>>

ReadSetting ==
    /\ AtLine("setting")
    /\ LET line == given.lines[at]
       IN  IF line.l \in Levels THEN Setting(line.s, line.l) ELSE Fail

RefuseLine == AtLine("malformed") /\ Fail

FileRead ==
    /\ phase = "file" /\ at \notin DOMAIN given.lines
    /\ phase' = "flags" /\ at' = 1
    /\ UNCHANGED <<given, section, config, reported>>

(* prepare_diagnostics: the flags, in the order they are given.            *)
ApplyFlag ==
    /\ phase = "flags" /\ at \in DOMAIN given.flags
    /\ Setting(given.flags[at].s, given.flags[at].l)

FlagsApplied ==
    /\ phase = "flags" /\ at \notin DOMAIN given.flags
    /\ phase' = "lint" /\ UNCHANGED <<given, at, section, config, reported>>

(* The entry file, or one it imports, may be missing or not parse.         *)
LoadFails == phase = "lint" /\ Fail

AnyError(diagnostics) == \E i \in DOMAIN diagnostics : diagnostics[i].error

LintEntry ==
    LET found == lint_program_with(given.program, config, Packages)
    IN  /\ phase = "lint"
        /\ reported' = found
        /\ phase' = IF AnyError(found) THEN "failed" ELSE "resolve"
        /\ UNCHANGED <<given, at, section, config>>

(* resolve_and_expand, of which only the facets of the entry file are told *)
(* apart here: it may fail for any other reason, and generate or not.      *)
ResolveFails == phase = "resolve" /\ Fail

Resolve ==
    /\ phase = "resolve"
    /\ \A i \in DOMAIN given.program.v : validate_facets(given.program.v[i])
    /\ phase' \in {"generated", "checked"}
    /\ UNCHANGED <<given, at, section, config, reported>>

Generated ==
    LET found == emit_lint(Diagnostic("generated_declarations", 0, Absent),
                           config["generated_declarations"])
    IN  /\ phase = "generated"
        /\ reported' = reported \o found
        /\ phase' = IF AnyError(found) THEN "failed" ELSE "checked"
        /\ UNCHANGED <<given, at, section, config>>

Next ==
    \/ ReadSection \/ SkipLine \/ ReadSetting \/ RefuseLine \/ FileRead
    \/ ApplyFlag \/ FlagsApplied \/ LoadFails \/ LintEntry
    \/ ResolveFails \/ Resolve \/ Generated

Spec == Init /\ [][Next]_vars

-----------------------------------------------------------------------------
(* What there is to report, and what is said about it.                     *)

Linted == phase \in {"resolve", "generated", "checked"} \/ reported # <<>>

Words(said) ==
    FlattenSeq([i \in DOMAIN said |->
        [j \in DOMAIN Selected(said[i].s) |->
            [lint |-> Selected(said[i].s)[j], level |-> said[i].l]]])

Headings(i) == { j \in 1 .. i : given.lines[j].k = "section" }

FileWords ==
    LET settings == { i \in DOMAIN given.lines :
                        /\ given.lines[i].k = "setting" /\ Headings(i) # {}
                        /\ given.lines[CHOOSE j \in Headings(i) :
                                \A h \in Headings(i) : h <= j].s = "lints" }
    IN  Words([i \in 1 .. Cardinality(settings) |->
                  given.lines[SetToSortSeq(settings, <)[i]]])

Macros == { i \in DOMAIN given.program.v : given.program.v[i].k = "Macro" }
FacetWords(i) ==
    IF i \in Macros THEN facet_directives(given.program.v[i].c[5].c) ELSE <<>>

LevelOf(lint, i) ==
    Meant(lint, DefaultConfig[lint],
          FileWords \o Words(given.flags) \o FacetWords(i))
Loud(lint, i) == LevelOf(lint, i) \notin Silent

(* Everything there is, whatever is said: with every lint on, and without  *)
(* the facets of macros that are about lints.                              *)
All ==
    LET NotLints(facet) == facet.t \notin Levels
        Bare(n) == IF n.k = "Macro" THEN [n EXCEPT !.c[5].c = SelectSeq(@, NotLints)] ELSE n
        bare == [i \in DOMAIN given.program.v |-> Bare(given.program.v[i])]
    IN  ToSet(lint_program_with([given.program EXCEPT !.v = bare],
                                [lint \in Lints |-> "warn"], Packages))

Of(lint) == { d \in ToSet(reported) : d.lint = lint }
Expectations == "unfulfilled_lint_expectation"

(* Every diagnostic of the linter's own, which generated_declarations and  *)
(* unfulfilled expectations are not, is shown, hidden or fatal as the last *)
(* word on its lint says, of the default, the project file, the flags and  *)
(* the facets of its macro; but what is forbidden stays so whatever comes  *)
(* later.                                                                  *)
LevelsAsSaid ==
    Linted =>
        { d \in ToSet(reported) : d.lint \notin {Expectations, "generated_declarations"} }
          = { [d EXCEPT !.error = LevelOf(d.lint, d.at) \in Fatal] :
                d \in { a \in All : Loud(a.lint, a.at) } }

(* A macro is told of a lint that it says it expects exactly when the lint *)
(* finds nothing in it, at whatever level what it found would be reported. *)
ExpectationsKept ==
    Linted =>
        { <<d.at, d.about.t>> : d \in Of(Expectations) }
          = { e \in Macros \X Lints :
                /\ Loud(Expectations, 0)
                /\ [lint |-> e[2], level |-> "expect"] \in ToSet(FacetWords(e[1]))
                /\ ~ \E d \in All : d.at = e[1] /\ d.lint = e[2] }

Imported ==
    { i \in DOMAIN given.program.v :
        LET n == given.program.v[i]
        IN  n.k = "Import" /\ n.t # "pub" /\ n.c[1] \notin Packages }

Whole == N("Block", "", given.program.v)

(* The imports, and the macros with parameters, of which some may be       *)
(* unused: the names concerned, and those used in the file or the macro.   *)
Watched == { <<"unused_import", i>> : i \in Imported } \cup { <<"unused_parameter", i>> : i \in Macros }

Region(w) == IF w[2] \in Imported THEN Whole ELSE given.program.v[w[2]]

NamesOf(w) ==
    LET n == given.program.v[w[2]]
    IN  IF w[2] \in Imported THEN { name.t : name \in ToSet(n.c[2].c) }
        ELSE { p.c[1].t : p \in { q \in ToSet(n.c[3].c) : SubSeq(q.c[1].t, 1, 1) # "_" } }

UsedNames(w, plainly) ==
    LET n == given.program.v[w[2]]
    IN  IF w[2] \in Imported THEN Uttered(Whole, FALSE, plainly)
        ELSE Uttered(n.c[6], TRUE, plainly)
               \cup UNION { Uttered(n.c[3].c[j].c[3], TRUE, plainly) : j \in DOMAIN n.c[3].c }
               \cup UNION { Uttered(n.c[5].c[j], TRUE, plainly) : j \in DOMAIN n.c[5].c }

Unused(w) == { d.about.t : d \in { x \in Of(w[1]) : x.at = w[2] } }

(* An imported name or a parameter that nothing in the file, or the macro, *)
(* uses is called unused, unless a loop's variable has its name; and what  *)
(* is called unused is used nowhere, unless in a part that is overlooked.  *)
UnusedIsUnsaid ==
    Linted =>
        \A w \in Watched :
            IF Loud(w[1], w[2])
            THEN /\ NamesOf(w) \ (UsedNames(w, FALSE) \cup LoopVariables(Region(w))) \subseteq Unused(w)
                 /\ Unused(w) \subseteq NamesOf(w) \ UsedNames(w, TRUE)
            ELSE Unused(w) = {}

FoldsReported(i) == { d.about : d \in { x \in Of("fold_without_next") : x.at = i } }

(* A fold that is reported has no `@next` of its own in its body; and one  *)
(* that has none is reported, unless it stands where the linter is known   *)
(* not to visit.                                                           *)
FoldsWithoutNext ==
    LET Right(i, block) ==
            IF Loud("fold_without_next", i)
            THEN /\ FoldsReported(i) \subseteq { fold \in Folds(block) : Pointless(fold) }
                 /\ { fold \in FoldsHere(block, "statement") : Pointless(fold) } \subseteq FoldsReported(i)
            ELSE FoldsReported(i) = {}
    IN  Linted => Right(0, Whole) /\ \A i \in Macros : Right(i, given.program.v[i].c[6])
=============================================================================
