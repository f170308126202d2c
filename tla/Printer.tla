------------------------------- MODULE Printer -------------------------------
(***************************************************************************)
(* src/src/printer.rs: a syntax tree written as source, which is how       *)
(* `basm expand` shows what macros became.  Indentation is left out: it is *)
(* blank space to the lexer.  Doc comments are not printed.                *)
(***************************************************************************)
EXTENDS Pattern

LOCAL INSTANCE TLC
LOCAL INSTANCE SequencesExt

Join(texts, between) ==
    IF texts = <<>> THEN ""
    ELSE FoldLeft(LAMBDA all, text : all \o between \o text,
                  Head(texts), Tail(texts))

(* Rust's own escapes, for a string literal.                               *)
DebugEscapes == ("\n" :> "\\n") @@ ("\r" :> "\\r") @@ ("\t" :> "\\t")
             @@ ("\f" :> "\\0") @@ ("\\" :> "\\\\") @@ ("\"" :> "\\\"")

Quoted(text) ==
    LET Char(i) == LET c == SubSeq(text, i, i)
                   IN  IF c \in DOMAIN DebugEscapes THEN DebugEscapes[c] ELSE c
    IN  "\"" \o Join([i \in 1 .. Len(text) |-> Char(i)], "") \o "\""

token_text(token) ==
    CASE token.k = "String" -> Quoted(token.t)
      [] token.k = "Escaped" -> "\\" \o token.t
      [] OTHER -> token.t

(* Patterns: spaces between tokens, but none around a dollar.              *)
print_pattern_tokens(toks) ==
    LET Tight(i) == i = 1 \/ "$" \in {toks[i].k, toks[i - 1].k}
    IN  Join([i \in DOMAIN toks |->
                 (IF Tight(i) THEN "" ELSE " ") \o token_text(toks[i])], "")

print_pattern_segments(segs) ==
    Join([i \in DOMAIN segs |->
             IF segs[i].cap # "" THEN "$" \o segs[i].cap \o "$"
             ELSE print_pattern_tokens(segs[i].lits)], " ")

Dots(n) == Join([i \in 1 .. n |-> "."], "")

-----------------------------------------------------------------------------
RECURSIVE Written(_)

WrittenAll(nodes, between) ==
    Join([i \in DOMAIN nodes |-> Written(nodes[i])], between)

Within(open, nodes, between, close) ==
    IF nodes = <<>> THEN "" ELSE open \o WrittenAll(nodes, between) \o close

Optional(before, node) == IF node = Absent THEN "" ELSE before \o Written(node)

Public(n) == IF n.t = "pub" THEN "pub " ELSE ""

(* A mutant: no parentheses.                                               *)
BareBinary(n) == Written(n.c[1]) \o " " \o n.t \o " " \o Written(n.c[2])

(* Only a binary operation is put in parentheses.                          *)
print_binary(n) ==
    "(" \o Written(n.c[1]) \o " " \o n.t \o " " \o Written(n.c[2]) \o ")"

print_expr(n) ==
    LET c == n.c IN
    CASE n.k \in {"Text", "Identifier", "Integer"} -> n.t
      [] n.k = "String" -> Quoted(n.t)
      [] n.k \in {"Name", "SplicedIdentifier"} -> WrittenAll(c, "")
      [] n.k \in {"Piece", "Splice"} -> Backtick \o Written(c[1]) \o Backtick
      [] n.k = "Member" -> Written(c[1]) \o "." \o Written(c[2])
      [] n.k = "Call" -> Written(c[1]) \o "(" \o WrittenAll(Tail(c), ", ") \o ")"
      [] n.k = "Named" -> Written(c[1]) \o " = " \o Written(c[2])
      [] n.k = "EnumVariant" ->
             Written(c[1]) \o Written(c[2]) \o "." \o Written(c[3])
               \o Within("(", SelectSeq(<<c[4]>>, LAMBDA x : x # Absent), "", ")")
      [] n.k = "Unary" -> n.t \o Written(c[1])
      [] n.k = "Binary" -> print_binary(n)
      [] n.k = "As" -> Written(c[1]) \o " as " \o Written(c[2])
      [] n.k = "Construct" -> Written(c[1]) \o Written(c[2]) \o " " \o Written(c[3])
      [] n.k = "Range" -> Written(c[1]) \o n.t \o Written(c[2])
      [] n.k = "In" -> Written(c[1]) \o " in " \o Written(c[2])

print_type_expr(n) ==
    LET c == n.c IN
    CASE n.k = "Path" -> WrittenAll(c, ".")
      [] n.k = "Apply" -> Written(c[1]) \o Written(c[2])
      [] n.k = "Generics" -> Within("<", c, ", ", ">")
      [] n.k = "ConstArg" -> Written(c[1])
      [] n.k = "Wildcard" -> "..."
      [] n.k = "Params" -> Within("<", c, ", ", ">")
      [] n.k = "ConstParam" -> "const " \o Written(c[1]) \o ": " \o Written(c[2])
      [] n.k = "TypeParam" -> Written(c[1]) \o Optional(": ", c[2])
      [] n.k = "Fn" -> "Fn(" \o WrittenAll(c[1].c, ", ") \o ")" \o Optional(" -> ", c[2])

(* Loops, conditions and folds print alike in the three kinds of bodies.   *)
print_loop_meta(n) ==
    LET c == n.c IN
    CASE n.k = "For" ->
             "@for " \o Written(c[1]) \o " in " \o Written(c[2]) \o " " \o Written(c[3])
      [] n.k = "Fold" -> "@fold " \o WrittenAll(c[1].c, ", ") \o " " \o Written(c[2])
      [] n.k = "Binding" -> Written(c[1]) \o " = " \o Written(c[2])
      [] n.k = "Next" ->
             "@next" \o Optional(" ", c[1]) \o Within(" ", c[2].c, ", ", "")
      [] n.k = "If" ->
             "@if " \o Written(c[1]) \o " " \o Written(c[2]) \o Optional(" @else ", c[3])
      [] n.k = "Block" -> "{\n" \o WrittenAll(c, "\n") \o "\n}"
      [] n.k = "Fields" -> "{\n" \o WrittenAll(c, ",\n") \o "\n}"
      [] n.k \in {"Body", "Variants"} -> "{ " \o WrittenAll(c, ", ") \o " }"

(* A field of a construction has a name and a value, one of a struct five  *)
(* parts.                                                                  *)
print_field(n) ==
    LET c == n.c
    IN  IF Len(c) = 2 THEN Written(c[1]) \o ": " \o Written(c[2])
        ELSE (IF c[1] = Absent THEN "" ELSE "pub ")
               \o (IF c[2] = Absent THEN "" ELSE "skip ")
               \o Written(c[3]) \o ": " \o Written(c[4]) \o Optional(" = ", c[5])

(* The selectors of a lint facet are kept as the arguments of a call.      *)
print_facet(n) ==
    LET payload == n.c[1]
    IN  " | " \o n.t \o
        (CASE n.c = <<>> -> ""
           [] payload.k = "Lints" -> " lints(" \o WrittenAll(payload.c, ", ") \o ")"
           [] payload.k = "Lint" -> " " \o Written(payload.c[1])
           [] payload.k = "Pattern" ->
                  " { " \o print_pattern_tokens(payload.c) \o " }"
           [] OTHER -> " " \o Written(payload))

print_declaration(n) ==
    LET c == n.c IN
    Public(n) \o
    (CASE n.k = "Enum" -> "enum " \o WrittenAll(SubSeq(c, 1, 2), "") \o " " \o Written(c[3])
       [] n.k = "Struct" -> "struct " \o WrittenAll(SubSeq(c, 1, 3), "") \o "\n" \o Written(c[4])
       [] n.k = "Type" ->
              "type " \o WrittenAll(SubSeq(c, 1, 2), "") \o " = " \o WrittenAll(SubSeq(c, 3, 4), "")
       [] n.k = "Const" ->
              "const " \o Written(c[1]) \o Optional(": ", c[2]) \o " = " \o Written(c[3])
       [] n.k = "Macro" ->
              "macro " \o WrittenAll(SubSeq(c, 1, 2), "") \o "(" \o WrittenAll(c[3].c, ", ")
                \o ")" \o Optional(" -> ", c[4]) \o Written(c[5]) \o "\n" \o Written(c[6])
       [] n.k = "Import" ->
              "from " \o Written(c[1]) \o " import " \o Written(c[2])
       [] n.k = "Label" -> Written(c[1]) \o ":")

print_statement(n) ==
    LET c == n.c IN
    CASE n.k \in {"Enum", "Struct", "Type", "Const", "Macro", "Import", "Label"} ->
             print_declaration(n)
      [] n.k = "Module" ->
             Dots(CHOOSE l \in 0 .. 9 : ToString(l) = c[1].t) \o WrittenAll(Tail(c), ".")
      [] n.k = "Everything" -> "*"
      [] n.k = "Names" -> WrittenAll(c, ", ")
      [] n.k = "Param" -> Written(c[1]) \o ": " \o Written(c[2]) \o Optional(" = ", c[3])
      [] n.k = "Variant" -> Written(c[1]) \o Optional(": ", c[2])
      [] n.k = "Facets" -> WrittenAll(c, "")
      [] n.k = "Section" -> "section " \o (IF c[1] = Absent THEN "" ELSE ".") \o Written(c[2])
      [] n.k = "Invocation" -> n.t \o Within(" ", c, ", ", "")
      [] n.k = "Syntax" ->
             "syntax " \o Written(c[1]) \o "(" \o WrittenAll(c[2].c, ", ") \o ") = { "
               \o print_pattern_segments(split_into_segments(c[3].c).segs) \o " }"
      [] n.k = "Match" ->
             "@match " \o Written(c[1]) \o " {\n" \o WrittenAll(Tail(c), ",\n") \o "\n}"
      [] n.k = "Arm" ->
             (IF c[1] = Absent THEN "_" ELSE Written(c[1])) \o " => " \o Written(c[2])
      [] n.k = "Meta" -> "@" \o n.t \o Within(" ", c, ", ", "")

Written(n) ==
    CASE n.k \in {"Text", "Identifier", "Integer", "String", "Name", "Piece", "Splice",
                  "SplicedIdentifier", "Member", "Call", "Named", "EnumVariant",
                  "Unary", "Binary", "As", "Construct", "Range", "In"} -> print_expr(n)
      [] n.k \in {"Path", "Apply", "Generics", "ConstArg", "Wildcard", "Params",
                  "ConstParam", "TypeParam", "Fn"} -> print_type_expr(n)
      [] n.k \in {"For", "Fold", "Binding", "Next", "If", "Block", "Fields", "Body",
                  "Variants"} -> print_loop_meta(n)
      [] n.k = "Field" -> print_field(n)
      [] n.k = "Facet" -> print_facet(n)
      [] OTHER -> print_statement(n)

print_statements(nodes) == WrittenAll(nodes, "\n")
=============================================================================
