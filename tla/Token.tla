------------------------------- MODULE Token -------------------------------
(***************************************************************************)
(* src/src/token.rs and src/src/ast.rs as the lexer, the parser and the    *)
(* printer share them.                                                     *)
(*                                                                         *)
(* A token is [k, t, s, e].  Its kind k is the text of a keyword or of a   *)
(* punctuation token, and "Identifier", "Integer", "String", "Escaped",    *)
(* "Newline" or "Eof" otherwise; t is its text, or what a string spells;   *)
(* [s, e) is where it stands.  A text is a TLA+ string.  TLA+ strings have *)
(* neither NUL nor backtick: the form feed stands for one and the question *)
(* mark, which no token of the language has, for the other.                *)
(*                                                                         *)
(* A syntax tree is made of nodes [k, t, c, d]: the variant, a text of its *)
(* own (a name, an operator, "pub"), its children in the order they are    *)
(* written, and the doc comments above it.  Spans are left out.            *)
(***************************************************************************)
EXTENDS Integers, Sequences

Backtick == "?"

Keywords == {"from", "import", "as", "in", "pub", "skip", "macro", "type",
             "struct", "enum", "const", "section"}

Symbols == {".", "..", "...", "..=", ",", ":", ";", "(", ")", "[", "]", "{",
            "}", "*", "+", "-", "->", "/", "%", "=", "==", "=>", "!", "!=",
            "<", "<=", "<<", ">", ">=", ">>", "&", "&&", "|", "||", "^", "~",
            "@", "$", Backtick}

(* word_text: identifiers and keywords alike.                              *)
IsWord(token) == token.k \in Keywords \cup {"Identifier"}

SameToken(a, b) == a.k = b.k /\ a.t = b.t

N(kind, text, children) ==
    [k |-> kind, t |-> text, c |-> children, d |-> <<>>]

Leaf(kind, text) == N(kind, text, <<>>)
Absent == Leaf("Absent", "")

(* literal_name: the text of a name none of whose parts is spliced, or "". *)
literal_name(name) == IF Len(name.c) = 1 THEN name.c[1].t ELSE ""
=============================================================================
