------------------------------- MODULE Lexer -------------------------------
(***************************************************************************)
(* src/src/lexer.rs: a source text turned into tokens and doc comments,    *)
(* one action per kind of thing that may start at the current position.    *)
(* A position counts the characters of the text from 1, so a span [s, e)   *)
(* of the code is [s + 1, e + 1) here.  Of the letters, the ASCII ones.    *)
(***************************************************************************)
EXTENDS Token

LOCAL INSTANCE TLC

VARIABLES
    source,   \* the text
    pos,      \* the next character to read
    tokens,   \* the tokens read so far
    docs,     \* the doc comments read so far, which are no tokens
    lexing    \* "running", "done", or "failed" at the first lexical error

lexVars == <<source, pos, tokens, docs, lexing>>

-----------------------------------------------------------------------------
(* Characters.                                                             *)

Characters(s) == { SubSeq(s, i, i) : i \in 1 .. Len(s) }

Blank == {" ", "\t", "\r"}
Decimal == Characters("0123456789")
Hexadecimal == Decimal \cup Characters("abcdefABCDEF")
is_identifier_start ==
    Characters("_abcdefghijklmnopqrstuvwxyzABCDEFGHIJKLMNOPQRSTUVWXYZ")
is_identifier_continue == is_identifier_start \cup Decimal

SymbolStarts == { SubSeq(s, 1, 1) : s \in Symbols }

(* What a backslash spells before each character it may stand before.      *)
Escapes == ("n" :> "\n") @@ ("r" :> "\r") @@ ("t" :> "\t") @@ ("0" :> "\f")
              @@ ("\\" :> "\\")
StringEscapes == Escapes @@ ("\"" :> "\"")
CharEscapes == Escapes @@ ("'" :> "'")

Printable32 ==
    " !\"#$%&'()*+,-./0123456789:;<=>?@ABCDEFGHIJKLMNOPQRSTUVWXYZ[\\]^_"
      \o "?abcdefghijklmnopqrstuvwxyz{|}~"

CodePoint(c) ==
    CASE c = Backtick -> 96 [] c = "\f" -> 0 [] c = "\t" -> 9
      [] c = "\n" -> 10 [] c = "\r" -> 13
      [] OTHER -> 31 + CHOOSE i \in 1 .. Len(Printable32) :
                          SubSeq(Printable32, i, i) = c

-----------------------------------------------------------------------------
(* Looking at the source.                                                  *)

peekAt(i) == IF i <= Len(source) THEN SubSeq(source, i, i) ELSE ""

(* The first position from i on whose character is not in chars.           *)
RunEnd(i, chars) ==
    CHOOSE j \in i .. Len(source) + 1 :
        /\ peekAt(j) \notin chars
        /\ \A h \in i .. j - 1 : peekAt(h) \in chars

LineEnd(i) ==
    CHOOSE j \in i .. Len(source) + 1 :
        /\ peekAt(j) \in {"\n", ""}
        /\ \A h \in i .. j - 1 : peekAt(h) # "\n"

(* A mutant: any number of underscores.                                    *)
LooseDigitsEnd(i, digits) == RunEnd(i, digits \cup {"_"})

(* consume_digits: digits, and underscores no two of which are adjacent.   *)
DigitsEnd(i, digits) ==
    LET Goes(h) == \/ peekAt(h) \in digits
                   \/ peekAt(h) = "_" /\ ~ (h > i /\ peekAt(h - 1) = "_")
    IN  CHOOSE j \in i .. Len(source) + 1 :
            ~ Goes(j) /\ \A h \in i .. j - 1 : Goes(h)

Reading == lexing = "running" /\ pos <= Len(source)

push(k, t, end) ==
    /\ tokens' = Append(tokens, [k |-> k, t |-> t, s |-> pos, e |-> end])
    /\ pos' = end
    /\ UNCHANGED <<source, docs, lexing>>

Refuse == lexing' = "failed" /\ UNCHANGED <<source, pos, tokens, docs>>

-----------------------------------------------------------------------------
(* The actions.                                                            *)

SkipBlanks ==
    /\ Reading /\ peekAt(pos) \in Blank
    /\ pos' = RunEnd(pos, Blank)
    /\ UNCHANGED <<source, tokens, docs, lexing>>

LexNewline ==
    Reading /\ peekAt(pos) = "\n" /\ push("Newline", "", pos + 1)

(* `##` documents what follows and `#!` the file; three hashes and more    *)
(* are an ordinary comment.  One space after the marker is dropped.        *)
StartsWith(text, prefix) ==
    Len(text) >= Len(prefix) /\ SubSeq(text, 1, Len(prefix)) = prefix

IsDoc(line) ==
    \/ StartsWith(line, "#!")
    \/ StartsWith(line, "##") /\ ~ StartsWith(line, "###")

doc_comment(line, start) ==
    LET rest == SubSeq(line, 3, Len(line))
        text == IF StartsWith(rest, " ") THEN Tail(rest) ELSE rest
        kept == { i \in 1 .. Len(text) : SubSeq(text, i, i) \notin Blank }
        last == IF kept = {} THEN 0
                ELSE CHOOSE i \in kept : \A j \in kept : j <= i
    IN  [module |-> StartsWith(line, "#!"), x |-> SubSeq(text, 1, last),
         s |-> start, e |-> start + Len(line)]

LexComment ==
    LET end  == LineEnd(pos)
        line == SubSeq(source, pos, end - 1)
    IN  /\ Reading /\ peekAt(pos) = "#"
        /\ pos' = end
        /\ docs' = IF IsDoc(line) THEN Append(docs, doc_comment(line, pos))
                   ELSE docs
        /\ UNCHANGED <<source, tokens, lexing>>

LexIdentifier ==
    LET end  == RunEnd(pos, is_identifier_continue)
        text == SubSeq(source, pos, end - 1)
    IN  /\ Reading /\ peekAt(pos) \in is_identifier_start
        /\ push(IF text \in Keywords THEN text ELSE "Identifier", text, end)

(* A prefix wants something after it, though an underscore will do; the    *)
(* token keeps the text as it is written.                                  *)
LexNumber ==
    LET mark   == IF peekAt(pos) = "0" THEN peekAt(pos + 1) ELSE ""
        digits == CASE mark \in {"x", "X"} -> Hexadecimal
                    [] mark \in {"b", "B"} -> {"0", "1"}
                    [] mark \in {"o", "O"} -> Characters("01234567")
                    [] OTHER -> Decimal
        from   == IF digits = Decimal
                  THEN IF peekAt(pos) = "0" THEN pos + 1 ELSE pos
                  ELSE pos + 2
        end    == DigitsEnd(from, digits)
    IN  /\ Reading /\ peekAt(pos) \in Decimal
        /\ IF digits # Decimal /\ end = from THEN Refuse
           ELSE push("Integer", SubSeq(source, pos, end - 1), end)

(* A string: what it spells and where it ends, or nowhere if a newline,    *)
(* the end of the text or an unknown escape comes before its quote.        *)
StringFrom(start) ==
    LET Body[i \in start .. Len(source) + 2] ==
            LET More(c, next) == LET rest == Body[next]
                                 IN  [v |-> c \o rest.v, e |-> rest.e]
            IN  CASE peekAt(i) \in {"", "\n"} -> [v |-> "", e |-> 0]
                  [] peekAt(i) = "\"" -> [v |-> "", e |-> i + 1]
                  [] peekAt(i) = "\\" ->
                         IF peekAt(i + 1) \in DOMAIN StringEscapes
                         THEN More(StringEscapes[peekAt(i + 1)], i + 2)
                         ELSE [v |-> "", e |-> 0]
                  [] OTHER -> More(peekAt(i), i + 1)
    IN  Body[start]

LexString ==
    LET string == StringFrom(pos + 1)
    IN  /\ Reading /\ peekAt(pos) = "\""
        /\ IF string.e = 0 THEN Refuse
           ELSE push("String", string.v, string.e)

(* A character literal is the integer of its code point.                   *)
LexChar ==
    LET escaped == peekAt(pos + 1) = "\\"
        char    == IF ~ escaped THEN peekAt(pos + 1)
                   ELSE IF peekAt(pos + 2) \in DOMAIN CharEscapes
                        THEN CharEscapes[peekAt(pos + 2)] ELSE ""
        closing == IF escaped THEN pos + 3 ELSE pos + 2
    IN  /\ Reading /\ peekAt(pos) = "'"
        /\ IF \/ char = ""
              \/ ~ escaped /\ char \in {"'", "\n"}
              \/ peekAt(closing) # "'"
           THEN Refuse
           ELSE push("Integer", ToString(CodePoint(char)), closing + 1)

(* Every `consume_if` chain takes the longest symbol there is.             *)
LexSymbol ==
    LET lengths == { n \in 1 .. 3 : /\ pos + n - 1 <= Len(source)
                                      /\ SubSeq(source, pos, pos + n - 1) \in Symbols }
        length  == CHOOSE n \in lengths : \A m \in lengths : m <= n
        symbol  == SubSeq(source, pos, pos + length - 1)
    IN  /\ Reading /\ peekAt(pos) \in SymbolStarts
        /\ push(symbol, symbol, pos + length)

LexEscape ==
    /\ Reading /\ peekAt(pos) = "\\"
    /\ IF peekAt(pos + 1) \in {Backtick, "$"}
       THEN push("Escaped", peekAt(pos + 1), pos + 2)
       ELSE Refuse

Unexpected ==
    /\ Reading
    /\ peekAt(pos) \notin Blank \cup is_identifier_start \cup Decimal
          \cup SymbolStarts \cup {"\n", "#", "\"", "'", "\\"}
    /\ Refuse

LexEof ==
    /\ lexing = "running" /\ pos > Len(source)
    /\ tokens' = Append(tokens, [k |-> "Eof", t |-> "", s |-> pos, e |-> pos])
    /\ lexing' = "done"
    /\ UNCHANGED <<source, pos, docs>>

LexStart(text) ==
    /\ source = text /\ pos = 1 /\ tokens = <<>> /\ docs = <<>>
    /\ lexing = "running"

lex_one ==
    \/ SkipBlanks \/ LexNewline \/ LexComment \/ LexIdentifier \/ LexNumber
    \/ LexString \/ LexChar \/ LexSymbol \/ LexEscape \/ Unexpected \/ LexEof
=============================================================================
