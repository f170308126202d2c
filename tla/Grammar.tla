------------------------------ MODULE Grammar ------------------------------
(***************************************************************************)
(* The grammar of the language as data, one rule per parsing function of   *)
(* src/src/parser/: what Parser.tla runs.  A rule is a record; its `op`    *)
(* says how it is run and what it yields, a sequence of nodes:             *)
(*   token, symbol   a token of one of these kinds, yielding nothing or a  *)
(*                   node of that kind                                     *)
(*   word, exactly   an identifier, any or this one                        *)
(*   lines           any newlines                                          *)
(*   all, node       rules in order; as the children of a node             *)
(*   if, ifNext, ifWord, ifMeta   a choice made by looking ahead           *)
(*   with            a rule under other restrictions                       *)
(*   then            a rule, then what the parser does with its result     *)
(*   rule            a rule by name, where rules are recursive             *)
(* and every other one is an operator of Parser.tla.                       *)
(***************************************************************************)
EXTENDS Token

-----------------------------------------------------------------------------
(* How rules are written.                                                  *)

T(kind) == [op |-> "token", k |-> kind]
Symbol(kinds) == [op |-> "symbol", ks |-> kinds]
Word == [op |-> "word"]
Exactly(text) == [op |-> "exactly", t |-> text]
Lines == [op |-> "lines"]
All(rules) == [op |-> "all", rs |-> rules]
Done == All(<<>>)
Yield(node) == [op |-> "yield", n |-> node]
Nothing == Yield(Absent)
Node(kind, text, rules) == [op |-> "node", k |-> kind, t |-> text, rs |-> rules]
If(kinds, this, other) == [op |-> "if", ks |-> kinds, a |-> this, b |-> other]
IfNext(kind, next, this, other) ==
    [op |-> "ifNext", k |-> kind, n |-> next, a |-> this, b |-> other]
IfWord(text, this, other) ==
    [op |-> "ifWord", t |-> text, a |-> this, b |-> other]
IfMeta(text, this, other) ==
    [op |-> "ifMeta", t |-> text, a |-> this, b |-> other]
With(flags, rule) == [op |-> "with", flags |-> flags, r |-> rule]
Then(what, rule) == [op |-> "then", by |-> what, r |-> rule]
R(name) == [op |-> "rule", n |-> name]
Fail == [op |-> "fail"]

Expr(bp, stop) == [op |-> "expr", bp |-> bp, stop |-> stop]
AnyExpr == Expr(0, "")

(* A part introduced by a token, if that token is there.                   *)
Opt(kind, rule) == If({kind}, All(<<T(kind), rule>>), Nothing)
Skip(kind) == If({kind}, T(kind), Done)
Meta == All(<<T("@"), T("Identifier")>>)

(* One or more, with commas between.  With lines, newlines may stand after *)
(* an item and after a comma; before close, if there is one, a last comma. *)
Separated(rule, lines, close) ==
    [op |-> "separated", r |-> rule, lines |-> lines, close |-> close]
PerLine(rule) == Separated(rule, TRUE, "")
Unless(close, rule) == If({close}, Done, rule)

-----------------------------------------------------------------------------
(* Names, types and generics.                                              *)

ClosersAfterTick == {":", ",", "}", ")", "]", "Newline", "Eof", Backtick}

SplicedName == Node("Name", "", <<Word, [op |-> "pieces"]>>)

Piece == All(<<T(Backtick),
               Node("Piece", "", <<With([splice |-> TRUE], Expr(0, Backtick))>>),
               T(Backtick), If({"Identifier"}, Word, Done)>>)

Path == Node("Path", "", <<[op |-> "path"]>>)
TypeExpr == [op |-> "type"]

FnBound ==
    Node("Fn", "", <<Exactly("Fn"), T("("), Lines,
                     Node("List", "", <<Unless(")", PerLine(TypeExpr))>>),
                     T(")"), Opt("->", TypeExpr)>>)

(* Arguments in angle brackets, told apart by the kinds of the parameters  *)
(* where those are known, and by their first token where they are not.     *)
GenericArguments(kinds) ==
    All(<<T("<"), Lines,
          Node("Generics", "",
               <<If({">"}, Fail, [op |-> "arguments", kinds |-> kinds])>>),
          [op |-> "close"]>>)

ConstArgument == Node("ConstArg", "", <<With([closing |-> TRUE], AnyExpr)>>)

TypeArgument(kind) ==
    If({"..."}, Node("Wildcard", "", <<T("...")>>),
       CASE kind = "const" -> ConstArgument
         [] kind = "type" -> TypeExpr
         [] OTHER -> If({"Integer", "-", "(", "!", "~"}, ConstArgument,
                        TypeExpr))

GenericParameter ==
    If({"const"},
       Node("ConstParam", "", <<T("const"), Word, T(":"), TypeExpr>>),
       Node("TypeParam", "", <<Word, Opt(":", FnBound)>>))

GenericParams ==
    Node("Params", "",
         <<If({"<"}, All(<<T("<"), Lines,
                           If({">"}, Fail, PerLine(GenericParameter)),
                           [op |-> "close"]>>), Done)>>)

-----------------------------------------------------------------------------
(* Loops, conditions and folds: the same in a statement block, a struct    *)
(* body and a brace construction, but for the body.                        *)

Header == With([brace |-> TRUE], AnyExpr)

For(body) == Node("For", "", <<Word, T("in"), Header, Lines, body>>)

FoldBinding == Node("Binding", "", <<Word, T("="), AnyExpr>>)

Accumulators ==
    All(<<Node("List", "", <<[op |-> "bindings"]>>), Lines>>)

Fold(body) == Node("Fold", "", <<Accumulators, T("@"), Exactly("for"), For(body)>>)

FoldNext == Node("Next", "", <<[op |-> "next"]>>)

(* Only at statement level may a newline come before the `@else`.          *)
Condition(body, beforeElse) ==
    Node("If", "", <<Header, Lines, body, beforeElse,
                     IfMeta("else", All(<<Meta, Lines, body>>),
                            Nothing)>>)

-----------------------------------------------------------------------------
(* Brace constructions (construct.rs) and struct bodies (declarations.rs). *)

Plain(item) ==
    All(<<item, Lines, If({","}, All(<<T(","), Lines>>),
                          If({"}"}, Done, Fail))>>)
SelfDelimited(item) == All(<<item, Lines, If({","}, All(<<T(","), Lines>>), Done)>>)

Items(name) == If({"}"}, Done, All(<<R(name), R(name \o "s")>>))
Braced(kind, rule) == Node(kind, "", <<T("{"), Lines, rule, T("}")>>)

(* What may come after `@` in a body that is not a block of statements.    *)
GenerativeItem(body) ==
    IfMeta("for", SelfDelimited(All(<<Meta, For(body)>>)),
    IfMeta("fold", SelfDelimited(All(<<Meta, Fold(body)>>)),
    IfMeta("if", SelfDelimited(All(<<Meta, Condition(body, Done)>>)),
    IfMeta("next", Plain(All(<<Meta, FoldNext>>)), Fail))))

ConstructBody == Braced("Body", R("constructItems"))

ConstructItem ==
    If({"@"}, GenerativeItem(R("constructBody")),
       Plain(Node("Field", "", <<SplicedName, T(":"), AnyExpr>>)))

StructBody == Braced("Fields", R("structItems"))

Marker(kind) == If({kind}, Node(kind, "", <<T(kind)>>), Nothing)

StructItem ==
    If({"@"}, GenerativeItem(R("structBody")),
       Plain([op |-> "documented",
              r |-> Node("Field", "", <<Marker("pub"), Marker("skip"),
                                        SplicedName, T(":"), TypeExpr,
                                        Opt("=", AnyExpr)>>)]))

EnumItem ==
    Plain([op |-> "documented",
           r |-> Node("Variant", "", <<Word, Opt(":", TypeExpr)>>)])

-----------------------------------------------------------------------------
(* Expressions: what may follow an operand.                                *)

CallArgument ==
    IfNext("Identifier", "=", Node("Named", "", <<Word, T("="), AnyExpr>>),
           AnyExpr)

CallArguments ==
    All(<<T("("), Lines, Unless(")", Separated(CallArgument, TRUE, ")")),
          T(")")>>)

EnumPayload == If({"("}, All(<<T("("), AnyExpr, T(")")>>), Nothing)

(* After the generic arguments of an operand: a variant or a construction. *)
GenericOperand(kinds) ==
    All(<<GenericArguments(kinds),
          If({"."}, All(<<T("."), Word, EnumPayload>>),
             If({"{"}, ConstructBody, Fail))>>)

(* The source of a membership test is parsed tighter than a range, which   *)
(* may follow it all the same.                                             *)
MembershipSource(stop) ==
    All(<<Expr(51, stop),
          If({"..", "..="},
             All(<<Symbol({"..", "..="}), Expr(51, stop)>>), Done)>>)

Lifted(rule) == With([closing |-> FALSE, brace |-> FALSE], rule)

Parenthesized == All(<<T("("), Lifted(AnyExpr), T(")")>>)

FoldValue == All(<<Meta, Lifted(Fold(R("block")))>>)

Splice == Node("Splice", "",
               <<T(Backtick), With([splice |-> TRUE], Lifted(AnyExpr)),
                 T(Backtick)>>)

-----------------------------------------------------------------------------
(* Statements.                                                             *)

StatementEnd == [op |-> "statementEnd"]
TrailingNewline == Skip("Newline")

Block == Braced("Block", With([nested |-> TRUE], R("statements")))

Import(pub) ==
    Then("import",
         Node("Import", pub,
              <<T("from"),
                Node("Module", "", <<[op |-> "dots"], [op |-> "path"]>>),
                T("import"),
                If({"*"}, Node("Everything", "", <<T("*")>>),
                   Node("Names", "", <<Separated(Word, FALSE, "")>>)),
                StatementEnd>>))

Label(pub) == Node("Label", pub, <<[op |-> "labelName"], T(":"), StatementEnd>>)

Section ==
    Node("Section", "", <<T("section"), Marker("."), Path, StatementEnd>>)

Invocation(name) ==
    Node("Invocation", name,
         <<T("Identifier"), If({"Newline", "}", "Eof"}, Done,
                               Separated(AnyExpr, FALSE, "")), StatementEnd>>)

Const(pub) ==
    Node("Const", pub, <<T("const"), SplicedName, Opt(":", TypeExpr), T("="),
                         AnyExpr, StatementEnd>>)

(* A declaration with generic parameters is known by their kinds from here *)
(* on, its own body included.                                              *)
Signed(keyword) == Then("signature", All(<<T(keyword), SplicedName, GenericParams>>))

Facets == Node("Facets", "", <<[op |-> "facets"]>>)

Enum(pub) ==
    Node("Enum", pub, <<Signed("enum"), Lines,
                        Braced("Variants", R("enumItems")), TrailingNewline>>)

Struct(pub) ==
    Node("Struct", pub, <<Signed("struct"), Facets, Lines, StructBody,
                          TrailingNewline>>)

TypeAlias(pub) ==
    Node("Type", pub, <<Signed("type"), T("="), TypeExpr, Facets, StatementEnd>>)

MacroParameter ==
    Node("Param", "", <<Word, T(":"), TypeExpr, Opt("=", AnyExpr)>>)

Macro(pub) ==
    Node("Macro", pub,
         <<Then("syntax",
                All(<<T("macro"), SplicedName, GenericParams, T("("), Lines,
                      Then("defaults", Node("List", "",
                          <<Unless(")", PerLine(MacroParameter))>>)),
                      T(")"), Opt("->", TypeExpr), Facets>>)),
           Lines, Block, TrailingNewline>>)

SyntaxOverride ==
    Then("override",
         Node("Syntax", "",
              <<Exactly("syntax"), Word, T("("), Lines,
                Node("List", "", <<Unless(")", PerLine(Word))>>), T(")"),
                Lines, T("="), Lines, [op |-> "pattern"]>>))

(* A facet's payload, by its name.                                         *)
LintFacets == {"allow", "expect", "warn", "deny", "forbid"}
ExprFacets == {"invariant", "from", "to", "before", "after"}

FacetPayload(name) ==
    CASE name \in LintFacets ->
             Then("lints",
                  If({"("}, Node("Lints", "",
                                 <<T("("), Unless(")", Separated(AnyExpr, FALSE, "")),
                                   T(")")>>),
                     Node("Lint", "", <<Word>>)))
      [] name \in ExprFacets -> Expr(0, "|")
      [] name = "emits" -> TypeExpr
      [] name = "syntax" -> [op |-> "pattern"]
      [] name = "leaks_section" -> Done
      [] OTHER -> Fail

Arm == Node("Arm", "", <<IfWord("_", All(<<Exactly("_"), Nothing>>), AnyExpr),
                         T("=>"), Lines, Block, Skip(","), Lines>>)

Match == Node("Match", "", <<Header, Lines, T("{"), Lines, R("arms"), T("}"),
                             TrailingNewline>>)

OtherMeta(name) ==
    Node("Meta", name,
         <<If({"Newline", "}", "Eof"}, Done, Separated(AnyExpr, FALSE, "")),
           StatementEnd>>)

MetaStatement(name) ==
    All(<<Meta,
          CASE name = "for" -> All(<<For(Block), TrailingNewline>>)
            [] name = "fold" -> All(<<Fold(Block), TrailingNewline>>)
            [] name = "next" -> All(<<FoldNext, StatementEnd>>)
            [] name = "if" -> All(<<Condition(Block, Lines), TrailingNewline>>)
            [] name = "match" -> Match
            [] OTHER -> OtherMeta(name)>>)

Declaration(keyword, pub) ==
    CASE keyword = "from" -> Import(pub)
      [] keyword = "struct" -> Struct(pub)
      [] keyword = "enum" -> Enum(pub)
      [] keyword = "type" -> TypeAlias(pub)
      [] keyword = "const" -> Const(pub)
      [] keyword = "macro" -> Macro(pub)
DeclarationStarts == {"from", "struct", "enum", "type", "const", "macro"}

Documented == [op |-> "documented", r |-> [op |-> "statement"]]

-----------------------------------------------------------------------------
Rules == [
    constructBody  |-> ConstructBody,
    constructItem  |-> ConstructItem,
    constructItems |-> Items("constructItem"),
    structBody     |-> StructBody,
    structItem     |-> StructItem,
    structItems    |-> Items("structItem"),
    enumItem       |-> EnumItem,
    enumItems      |-> Items("enumItem"),
    block          |-> Block,
    arms           |-> If({"}"}, Done, All(<<Arm, R("arms")>>)),
    statements     |-> If({"}"}, Done, All(<<Documented, Lines, R("statements")>>)),
    program        |-> If({"Eof"}, Done, All(<<Documented, Lines, R("program")>>))]
=============================================================================
