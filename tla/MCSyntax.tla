------------------------------ MODULE MCSyntax ------------------------------
(***************************************************************************)
(* Inputs for Syntax: trees of two and three operators of every kind, a    *)
(* text for each form of statement, every short text over an alphabet that *)
(* starts every kind of token, calls under every small pool of patterns,   *)
(* and files of a few lines with doc comments.                             *)
(***************************************************************************)
EXTENDS Syntax

LOCAL INSTANCE Functions

Input(text) ==
    [text |-> text, tree |-> <<>>, other |-> "", seed |-> DefaultSeed,
     prints |-> FALSE]

-----------------------------------------------------------------------------
(* Expressions.                                                            *)

Id(name) == Leaf("Identifier", name)
NameOf(name) == N("Name", "", <<Leaf("Text", name)>>)
TypeT == N("Path", "", <<Leaf("Text", "T")>>)
A == Id("a")
B == Leaf("Integer", "1")
C == Id("c")

InfixOps == UNION { Tightness[l] : l \in DOMAIN Tightness } \cup {"..", "..=", "in"}

Infix(op, x, y) ==
    CASE op = "in" -> N("In", "", <<x, y>>)
      [] op \in {"..", "..="} -> N("Range", op, <<x, y>>)
      [] OTHER -> N("Binary", op, <<x, y>>)

OtherOps == {"-", "!", "as", ".", "("}

Around(op, x) ==
    CASE op \in {"-", "!"} -> N("Unary", op, <<x>>)
      [] op = "as" -> N("As", "", <<x, TypeT>>)
      [] op = "." -> N("Member", "", <<x, NameOf("f")>>)
      [] op = "(" -> N("Call", "", <<x, B>>)

SomeInfix == {"||", "|", "==", "<", ">", ">>", "+", "*", "..", "in"}

Pairs ==
    UNION { { Infix(o, Infix(p, A, B), C), Infix(o, A, Infix(p, B, C)) } :
              o \in InfixOps, p \in InfixOps }
Mixed ==
    UNION { { Around(o, Infix(p, A, B)), Infix(p, Around(o, A), B),
              Infix(p, A, Around(o, B)) } : o \in OtherOps, p \in InfixOps }
      \cup { Around(o, Around(p, A)) : o \in OtherOps, p \in OtherOps }
Threes ==
    UNION { { Infix(o, Infix(p, A, Around("as", B)), C),
              Infix(o, Infix(p, A, Around("-", Around("as", B))), C),
              Infix(o, Infix(p, A, Infix("in", B, C)), A),
              Infix(o, A, Infix(p, Infix("..", A, B), C)) } :
              o \in {"<", "..", "in", "=="}, p \in SomeInfix }
Labels == { Infix("..", A, Id(".loop")), Infix("+", A, Id(".loop")) }

ConstOf(expr) == N("Const", "", <<NameOf("x"), Absent, expr>>)

Trees ==
    { [Input("const x = " \o Spelled(e)) EXCEPT !.tree = <<ConstOf(e)>>,
                                                !.prints = TRUE] :
        e \in Pairs \cup Mixed \cup Threes \cup Labels }

-----------------------------------------------------------------------------
(* Statements.                                                             *)

Statements == {
    "pub const x?i?_y: u8 = \"a\\n\\\"\"",
    "const q?i?_y = p?i + 1?.q?i?",
    "const x = p?a.f?",
    "const x = p?(a.f)?_x",
    "from ..a.b import c, d",
    "pub from a import *",
    ".loop:\npub start:\nmov .loop, 1 + 2\nret",
    "section .text\nsection data.ro",
    "enum E { A, B: T }",
    "pub enum O<T> { Some: T, None, }\nconst x = O<u8>.Some(1)\nconst y = O<u8>.None",
    "struct P<const n: u8, T: Fn(a) -> b> | leaks_section { pub x: T, skip y: r<1> = 0 }"
      \o "\nconst z = P<1, u8> { x: 1, @if n > 1 { y: 2 } @else { } }",
    "struct S { @for i in 0..2 { y?i?: T }, @if a { b: c }\n@fold k = 1 @for i in 0..2 {"
      \o " z: T, @next k + 1\n } }",
    "type Q<T> = r<T, ...> | invariant self < 3 | emits a.b\ntype R = r<(1 + 2)>",
    "type Z = u8 | warn unused | deny(all, unused)",
    "macro f<const n: u8>(a: T, b: r<n> = 1) -> T { mov a, b\n\n @if a == n { f 1 } @else { f 2 } }",
    "macro add(a: r, b: r) | syntax { add $a$, \\$ $b$ } { x a }",
    "macro g(a: r) | allow unused | from f(a)\n | to g(a) | leaks_section { }",
    "syntax add(a, b) = { add $a$ + $b$ }",
    "@for i in 0..3 { const q?i? = i\n}",
    "@fold a = 0, b = 1 @for i in xs { @next a = b, b = a + b }",
    "@match a { 1 => { x } b..c => { y }\n_ => { z } }",
    "@if (P { x: 1 }) == q { }",
    "@if (P { x: 1 }) as T { }",
    "@if f((P { x: 1 })) { }",
    "@if f(p) { }",
    "@error \"no\", a\n@here",
    "const x = @fold a = 1 @for i in 0..3 { @next a * 2 } + 1",
    "const x = P { @fold a = 1 @for i in xs { @next a,\n f: 1 }, g: 2 }",
    "const x = P { @fold a = 1 @for i in xs { f: 1, @next a } }",
    "const x = P { @fold a = 1 @for i in xs { @next a = 2, b = 3,\n f: 1 } }",
    "const x = f(a, n = 1,\n)\nconst y = 'a' + 0x_ff" }

Files == { [Input(text) EXCEPT !.prints = TRUE] : text \in Statements }

-----------------------------------------------------------------------------
(* Short texts.                                                            *)

Alphabet == {"0", "x", "1", "_", "a", "=", ">", ".", "\"", "\\", "n", "\n", "#",
             " ", "'", "$"}
Shorts ==
    { Input(x \o y \o z) : x \in Alphabet, y \in Alphabet, z \in Alphabet \cup {""} }
Longer ==
    { Input(text) : text \in {"0b12", "0o78", "0X1__2", "'\\n'", "'\\x'", "'ab", "\"a\\",
        "...=", "..==", "<<=>>", "->=>", "&&&|||", "!==", "####", "##  a \t", "#! b ## c\n",
        "\\?", "const const_ = 0_1_", "a\r\n b", "%^~@;[]",
        "a\f"} }

-----------------------------------------------------------------------------
(* Patterns.                                                               *)

Lit(kind, text) == [cap |-> "", lits |-> <<Leaf(kind, text)>>]
Sym(kind) == Lit(kind, kind)
Cap(param) == [cap |-> param, lits |-> <<>>]
PatternOf(segs) ==
    [segs |-> segs, params |-> [i \in DOMAIN Captures(segs) |-> Captures(segs)[i].cap]]
F == Lit("Identifier", "f")

CallPatterns == {
    PatternOf(<<F, Cap("a"), Sym(","), Cap("b")>>),
    PatternOf(<<F, Cap("b"), Sym("+"), Cap("a")>>),
    [PatternOf(<<F, Cap("b"), Sym(","), Cap("a")>>) EXCEPT !.params = <<"a", "b">>],
    PatternOf(<<F, Cap("a")>>),
    PatternOf(<< [F EXCEPT !.lits = Append(@, Leaf("(", "("))], Cap("a"), Sym(")"),
                 Cap("b")>>) }
OperandPatterns == {
    <<"g", PatternOf(<<Sym("["), Cap("a"), Sym("]")>>)>>,
    <<"g", PatternOf(<<Sym("["), Cap("a"), Sym("+"), Cap("b"), Sym("]")>>)>>,
    <<"h", PatternOf(<<Sym("["), Cap("b"), Sym("]")>>)>>,
    <<"h", PatternOf(<<Sym("["), Cap("a"), Sym("+"), Cap("b"), Sym("+"), Cap("c"),
                       Sym("]")>>)>> }

Pools(patterns) ==
    { <<p>> : p \in patterns }
      \cup { s \in patterns \X patterns : s[1] # s[2] }
      \cup { s \in patterns \X patterns \X patterns : IsInjective(s) }

Calls ==
    { [Input(text) EXCEPT !.seed.anchored = [n \in {"f"} |-> pool]] :
        text \in {"f 1, 2", "f 1 + 2", "f 1 + 2, 3", "f (1) 2", "f (1)", "f (1) - 2 + 3"},
        pool \in Pools(CallPatterns) }
Operands ==
    { [Input("const x = " \o text) EXCEPT !.seed.unanchored = pool] :
        text \in {"[1]", "[1 + 2]", "[1 + 2 + 3]", "2 * [1 + 2]", "[1] * 2"},
        pool \in Pools(OperandPatterns) }

-----------------------------------------------------------------------------
(* Statements in two orders.                                               *)

Declares == {
    "macro f(a: r, b: r) | syntax { f $a$, $b$ } { }\n",
    "macro f(a: r) | syntax { f $a$ } { }\n",
    "macro f(a: r, b: r) | syntax { f $a$ + $b$ } { }\n",
    "macro g(a: r) | syntax { [ $a$ ] } { }\n",
    "struct P<const n: u8> { }\n",
    "enum E<T> { A }\n" }
Uses == { "f 1, [2]\n", "f 1 + 2\n", "const x = P<1> { }\n", "const x = E<(a)>.A\n" }

Orders ==
    { [Input(d \o e \o u) EXCEPT !.other = u \o e \o d] :
        d \in Declares, e \in Declares, u \in Uses }

-----------------------------------------------------------------------------
(* Doc comments.                                                           *)

Line(n, kind) ==
    LET name == <<"na", "nb", "nc", "nd">>[n]
    IN  CASE kind = "doc" -> "## about\n"
          [] kind = "module" -> "#! of the file\n"
          [] kind = "const" -> "const " \o name \o " = 1 ## late\n"
          [] kind = "call" -> "mov 1\n"
          [] kind = "struct" -> "struct " \o name \o " {\n ## in\n f" \o name \o ": T, ## past\n }\n"
          [] kind = "label" -> "\n." \o name \o ":\n"
          [] kind = "for" -> "@for i in 0..1 {\n ## in\n pub const " \o name \o " = f(1,\n ## lost\n 2)\n}\n"
          [] kind = "enum" -> "enum " \o name \o " {\n ## in\n v" \o name \o "\n ## past\n}\n"

LineKinds == {"doc", "module", "const", "call", "struct", "label", "for", "enum"}

Documents ==
    { Input(Line(1, k[1]) \o Line(2, k[2]) \o Line(3, k[3]) \o Line(4, k[4])) :
        k \in LineKinds \X LineKinds \X {"doc", "const", "struct", "call"} \X {"label", "doc", "for"} }

-----------------------------------------------------------------------------
(* PrintedIsRead without its exception, which does not hold: `a .. .loop`  *)
(* is printed `a...loop`.                                                  *)
PrintedIsReadAlways == Len(reads) = 2 /\ given.prints => ReadBack

-----------------------------------------------------------------------------
MCInputs == Trees \cup Files \cup Shorts \cup Longer \cup Calls \cup Operands
              \cup Orders \cup Documents
=============================================================================
