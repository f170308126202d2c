------------------------------ MODULE MCCheck ------------------------------
(***************************************************************************)
(* Inputs for Check: files with an import, a macro and folds in every      *)
(* place where the linter may or may not look, under project files, flags  *)
(* and facets that contradict each other.  A file is a text with a blank   *)
(* between any two tokens (";" for a newline), as Parser.tla reads it.     *)
(***************************************************************************)
EXTENDS Check

LOCAL P == INSTANCE Parser
LOCAL INSTANCE FiniteSetsExt
LOCAL INSTANCE SequencesExt

WordsOf(text) ==
    LET places == [i \in 1 .. Len(text) |-> i]
        Blank(i) == i \in {0, Len(text) + 1} \/ SubSeq(text, i, i) = " "
        starts == SelectSeq(places, LAMBDA i : ~ Blank(i) /\ Blank(i - 1))
        ends   == SelectSeq(places, LAMBDA i : ~ Blank(i) /\ Blank(i + 1))
    IN  [n \in DOMAIN starts |-> SubSeq(text, starts[n], ends[n])]

Digits == {"0", "1", "2", "3"}

(* Token i stands at 10 * i; what is next to a splice touches it.          *)
TokenAt(words, i) ==
    LET word == words[i]
        kind == CASE word = ";" -> "Newline"
                  [] word \in Keywords \cup Symbols -> word
                  [] SubSeq(word, 1, 1) \in Digits -> "Integer"
                  [] OTHER -> "Identifier"
        touches == i < Len(words) /\ words[i + 1] = Backtick
    IN  [k |-> kind, t |-> word, s |-> 10 * i,
         e |-> IF touches THEN 10 * i + 10 ELSE 10 * i + 5]

IsDocWord(word) == word \in {"##", "#!"}

File(text) ==
    LET words == WordsOf(text)
        marks == SetToSortSeq({ i \in DOMAIN words : IsDocWord(words[i]) }, <)
        toks  == SelectSeq([i \in DOMAIN words |-> TokenAt(words, i)],
                           LAMBDA t : ~ IsDocWord(t.t))
        docs  == [i \in DOMAIN marks |->
                     [module |-> words[marks[i]] = "#!", x |-> "", s |-> 10 * marks[i],
                      e |-> 10 * marks[i] + 5]]
        last  == 10 * Len(words) + 10
        eof   == [k |-> "Eof", t |-> "", s |-> last, e |-> last]
        Kept(read) == [ok |-> read.ok, v |-> read.v, doc |-> read.doc, stray |-> read.stray]
    IN  Kept(P!parse_seeded(Append(toks, eof), docs, P!DefaultSeed))

-----------------------------------------------------------------------------
(* Macros that earn several lints, under facets.                           *)

MacroFacets == {
    "", "| allow unused", "| expect unused_parameter", "| expect unreachable_code",
    "| expect all", "| forbid all | allow fold_without_next",
    "| deny ( fold_without_next , unused ) | warn all",
    "| allow ( all ) | deny unused_parameter | expect missing_docs",
    "| after g ( a ) | expect unused_parameter", "| emits a | warn unused" }

MacroBodies == {
    "mov 1", "mov a", "@ return a ; mov 1 ; mov 2",
    "@ fold k = 1 @ for i in 0 .. 2 { mov k ; @ if k { @ next 1 } @ else { @ return ; mov i } }",
    "@ fold k = 1 @ for i in 0 .. 2 { @ fold h = 1 @ for j in 0 .. 2 { @ next a } }",
    "@ match 1 { a => { @ next 1 ; mov 1 } _ => { } }" }

Leveled ==
    { "#! ; ; from m import p ; pub macro f ( a : T , _b : T ) " \o facets
        \o " { " \o body \o " } ; mov 1" : facets \in MacroFacets, body \in MacroBodies }

-----------------------------------------------------------------------------
(* Everywhere a name may be said: x is imported, and a parameter in turn.  *)

Sayings == {
    "const c = x + 1", "const c : x = 1", "x 1", "mov y ( 1 , n = x )", "mov ! x in 0 .. 1",
    "mov 1 as r < x >", "mov 1 as r < ( x ) >", "mov 1 as x . y", "mov 1 as y . x", "mov y . x",
    "mov y . p ? x ?", "mov q ? x ?", "mov P { f : x }", "mov P { f ? x ? : 1 }", "mov x { f : 1 }",
    "mov P { @ for i in x { f : 1 } }", "mov P { @ fold k = x @ for i in 0 .. 1 { @ next k } }",
    "mov P { @ if 1 { f : 1 } @ else { f : x } }",
    "const c = @ fold k = 1 @ for i in 0 .. 2 { x 1 ; const d : x = 1 ; @ next k }",
    "const c = @ fold k = 1 @ for i in 0 .. 2 { mov x }",
    "@ for x in 0 .. 2 { }", "@ for i in 0 .. x { }", "@ if 1 { } @ else { mov x }",
    "@ match 1 { x => { } }", "@ match x { _ => { mov 1 } }", "@ error x",
    "@ fold k = x @ for i in 0 .. 1 { @ next k = x }",
    "struct S { f : x }", "struct S { f ? x ? : T }", "struct S ? x ? { }", "struct S { f : T = x }",
    "struct S | invariant x < 1 { @ if x { f : x } }", "struct S < const n : x > { }",
    "enum E { A : x , B }", "enum E ? x ? { A }", "type A = x", "type A = u8 | invariant x < 1",
    "type A ? x ? = r < x >", "macro g ( b : x ) { mov b }", "macro g ( b : T = x ) { mov b }",
    "macro g ( b : T ) -> x { mov b }", "macro g ( b : T ) | emits x { mov b }",
    "macro g ( b : T ) | before h ( x ) { mov b }", "macro g ? x ? ( ) { x 1 }",
    "macro x ( ) { }", "syntax x ( b ) = { x $ b $ }", "section x", "x :", "from n import x" }

AtTopOnly == "syntax x ( b ) = { x $ b $ }"

Said ==
    { "from m import x ; " \o saying \o " ; mov 1" : saying \in Sayings }
      \cup { "pub from m import x ; macro f ( x : T , z : T , y : T = x )"
                \o " | before h ( z ) { " \o saying \o " ; }" :
               saying \in Sayings \ {AtTopOnly} }
      \cup { "from m import x ; macro f ( x : T , y : T ) { " \o saying \o " ; }" :
               saying \in Sayings \ {AtTopOnly} }

-----------------------------------------------------------------------------
(* Everywhere a fold may stand, with and without a `@next` for it.         *)

FoldBodies == {
    "{ }", "{ @ next k }", "{ @ if 1 { mov 1 } @ else { @ next 1 } }",
    "{ @ for j in 0 .. 1 { @ match j { 1 => { @ next k } } } }",
    "{ @ fold h = 1 @ for j in 0 .. 1 { @ next h } }", "{ mov P { @ fold h = 1 @ for j in 0 .. 1 { @ next h } } }" }

ItemFoldBodies == {
    "{ }", "{ @ next k }", "{ @ if 1 { @ next 1 } @ else { } }", "{ @ for j in 0 .. 1 { @ next k } }",
    "{ @ fold h = 1 @ for j in 0 .. 1 { @ next h } }" }

Inside(fold) == {
    "const c = " \o fold, "const c : r < ( " \o fold \o " ) > = 1", "mov 1 , 2 + ( " \o fold \o " )",
    "mov ( " \o fold \o " ) as T", "mov 0 .. ( " \o fold \o " )", "mov 1 in ( " \o fold \o " )",
    "mov ( " \o fold \o " ) . f", "mov - ( " \o fold \o " )", "mov y ( n = " \o fold \o " )",
    "mov q ? " \o fold \o " ?", "mov ? " \o fold \o " ?", "mov P { f : " \o fold \o " }",
    "mov P { @ if " \o fold \o " { f : 1 } }", "mov P { @ for i in ( " \o fold \o " ) { f : 1 } }",
    "mov P { @ fold g = 1 @ for i in 0 .. 1 { @ next " \o fold \o " } }",
    "struct S { f : T = " \o fold \o " }", "type A = r < ( " \o fold \o " ) >",
    "@ if ( " \o fold \o " ) { }", "@ for j in ( " \o fold \o " ) { }",
    "@ match 1 { ( " \o fold \o " ) => { } }", "@ match ( " \o fold \o " ) { }", "@ error " \o fold,
    "macro g ( b : T = " \o fold \o " ) { mov b }", "macro g ( ) { const c = " \o fold \o " }",
    "@ fold g = " \o fold \o " @ for i in 0 .. 1 { @ next g = " \o fold \o " }",
    "const c = @ fold g = " \o fold \o " @ for i in ( " \o fold \o " ) { @ next g }" }

Folded ==
    UNION { Inside("@ fold k = 1 @ for i in 0 .. 2 " \o body) : body \in FoldBodies }
      \cup { "macro f ( ) { @ for i in 0 .. 1 { @ fold k = 1 @ for i in 0 .. 2 " \o body
                \o " ; } }" : body \in FoldBodies }
      \cup UNION { { "mov P { @ for i in 0 .. 1 { @ fold k = 1 @ for i in 0 .. 2 " \o body
                       \o " } }",
                     "struct S { @ if 1 { } @ else { @ fold k = 1 @ for i in 0 .. 2 " \o body
                       \o " } }" } : body \in ItemFoldBodies }

-----------------------------------------------------------------------------
(* Docs, and facets where they do not belong.                              *)

Others == {
    "pub macro f ( ) { } ; ## ; pub macro f ( a : T ) { mov a }",
    "pub macro f ( ) { } ; macro g ( ) { } ; pub macro f ( a : T ) { mov a }",
    "#! ; pub struct S { } ; pub enum E { A } ; ## ; pub type A = u8 ; pub const c = 1 ; pub l :",
    "## ; mov 1 ; #! ; ## ; ## ; mov 2 ; ##",
    "struct S | before h ( 1 ) { }", "macro f ( ) | invariant 1 { }", "type A = u8 | leaks_section",
    "macro f ( ) | leaks_section | leaks_section { }", "struct S | deny all | invariant 1 { }",
    "from m . d import a , b ; from . d import * ; from m import p" }

MCPackages == { N("Module", "", <<Leaf("Level", "0"), Leaf("Text", "m"), Leaf("Text", "d")>>) }

-----------------------------------------------------------------------------
Heading(name) == [k |-> "section", s |-> name, l |-> ""]
Put(s, l) == [k |-> "setting", s |-> s, l |-> l]
Malformed == [k |-> "malformed", s |-> "", l |-> ""]

ProjectFiles == {
    <<Heading("lints"), Put("all", "deny"), Put("unused", "allow")>>,
    <<Malformed, Heading("lints"), Put("fold_without_next", "forbid"),
      Put("all", "allow"), Heading("format"), Put("all", "deny")>>,
    <<Heading("lints"), Put("missing_docs", "warn"),
      Put("unfulfilled_lint_expectation", "expect")>>,
    <<Heading("lints"), Put("all", "loud")>>, <<Heading("lints"), Put("none", "warn")>>,
    <<Heading("lints"), Malformed>> }

Flags == {
    <<>>, <<Put("missing_docs", "warn"), Put("unused", "deny")>>,
    <<Put("generated_declarations", "deny")>>,
    <<Put("unused_parameter", "forbid"), Put("all", "allow")>>,
    <<Put("all", "allow"), Put("none", "deny")>> }

MCInputs == {
    [projects |-> input.projects, commands |-> input.commands,
     files |-> { File(text) : text \in input.texts }] :
        input \in {
            [projects |-> ProjectFiles \cup {<<>>}, commands |-> Flags,
             texts |-> Leveled \cup Others],
            [projects |-> {<<>>}, commands |-> {<<>>}, texts |-> Said \cup Folded] } }

ASSUME \A input \in MCInputs : \A file \in input.files : file.ok

-----------------------------------------------------------------------------
(* UnusedIsUnsaid and FoldsWithoutNext without their exceptions, which do  *)
(* not hold.                                                               *)
UnusedIsUnsaidAlways ==
    Linted => \A w \in Watched : Loud(w[1], w[2]) => Unused(w) = NamesOf(w) \ UsedNames(w, FALSE)

FoldsWithoutNextAlways ==
    LET Stated == { given.program.v[i] : i \in DOMAIN given.program.v \ Macros }
    IN  Linted /\ Loud("fold_without_next", 0) =>
            FoldsReported(0) = { fold \in UNION { Folds(n) : n \in Stated } : Pointless(fold) }
=============================================================================
