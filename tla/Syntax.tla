------------------------------- MODULE Syntax -------------------------------
(***************************************************************************)
(* A source file read, and read again: lexed, parsed, printed, and lexed   *)
(* and parsed once more; or, after the first reading, the same statements  *)
(* in another order.  `basm expand` and the loader do the first half, a    *)
(* user of what `expand` prints the second.                                *)
(*                                                                         *)
(* An input is [text, tree, other, seed, prints]: the source; what it      *)
(* spells, if it was made by spelling a tree; the same statements in       *)
(* another order, if any; the signatures and patterns its imports bring;   *)
(* and whether its reading is printed.                                     *)
(***************************************************************************)
EXTENDS Lexer, Parser, SyntaxMeaning

LOCAL INSTANCE FiniteSetsExt
LOCAL INSTANCE SequencesExt

CONSTANT Inputs

VARIABLES
    given,    \* the input
    round,    \* 1 or 2
    reads     \* what the parser made of the source, in each round

vars == <<lexVars, given, round, reads>>

Init ==
    /\ given \in Inputs /\ LexStart(given.text)
    /\ round = 1 /\ reads = <<>>

Lex == lex_one /\ UNCHANGED <<given, round, reads>>

Parse ==
    /\ lexing = "done" /\ Len(reads) < round
    /\ reads' = Append(reads, parse_seeded(tokens, docs, given.seed))
    /\ UNCHANGED <<lexVars, given, round>>

Restart(text) ==
    /\ source' = text /\ pos' = 1 /\ tokens' = <<>> /\ docs' = <<>>
    /\ lexing' = "running" /\ round' = 2
    /\ UNCHANGED <<given, reads>>

Finished == round = 1 /\ reads # <<>> /\ reads[1].ok

PrintBack == Finished /\ given.prints /\ Restart(print_statements(reads[1].v))
Reorder == Finished /\ given.other # "" /\ Restart(given.other)

Next == Lex \/ Parse \/ PrintBack \/ Reorder
Spec == Init /\ [][Next]_vars

-----------------------------------------------------------------------------
(* Tokens stand in the order of the source, with blanks and comments       *)
(* between them and nothing else; each spells what it is; and none could   *)
(* have been longer: no lexeme starts with it and goes on.                 *)
Gap(s, e) ==
    \A i \in s .. e - 1 :
        \/ SubSeq(source, i, i) \in {" ", "\t", "\r"}
        \/ \E h \in s .. i : /\ SubSeq(source, h, h) = "#"
                             /\ \A j \in h .. i : SubSeq(source, j, j) # "\n"

LexemesAreLongest ==
    /\ tokens # <<>> =>
           LET token == Last(tokens)
               n == Len(tokens)
               Text(e) == SubSeq(source, token.s, e - 1)
           IN  /\ Gap(IF n = 1 THEN 1 ELSE tokens[n - 1].e, token.s)
               /\ token.k # "Eof" =>
                      /\ KindOf(Text(token.e)) = token.k
                      /\ \A e \in token.e + 1 .. Len(source) + 1 :
                             KindOf(Text(e)) = "None"
    /\ lexing = "done" => Last(tokens).s = Len(source) + 1

(* A tree spelled with the parentheses that precedence and associativity   *)
(* call for, and no other, is read as that tree: so are the binding powers *)
(* of infix, prefix and postfix operators, ranges, `in` and `as`.          *)
SpelledIsRead ==
    reads # <<>> /\ given.tree # <<>> => reads[1].ok /\ reads[1].v = given.tree

(* What the printer writes is read as what was printed, but for trees with *)
(* one of the forms in Awkward.                                            *)
ReadBack == reads[2].ok /\ reads[2].v = reads[1].v

PrintedIsRead ==
    Len(reads) = 2 /\ given.prints /\ (\A i \in DOMAIN reads[1].v : ~ Awkward(reads[1].v[i]))
        => ReadBack

(* Each syntax pattern is tried as if no other were there: a statement is  *)
(* read as the pattern of the most literal tokens reads it alone, and      *)
(* refused if no pattern reads it or two of those read it differently.     *)
(* (A `>>` that a pattern split in two stays split for the next.)          *)
Pooled == given.seed.anchored # NoSignatures \/ given.seed.unanchored # <<>>

Pool ==
    UNION { { <<name, p>> : p \in ToSet(given.seed.anchored[name]) } :
              name \in DOMAIN given.seed.anchored }
      \cup ToSet(given.seed.unanchored)

Alone(c) ==
    parse_program(Start(tokens, <<>>, [given.seed EXCEPT
        !.anchored = IF is_anchored(c[2], c[1])
                     THEN [n \in {c[1]} |-> <<c[2]>>] ELSE NoSignatures,
        !.unanchored = IF is_anchored(c[2], c[1]) THEN <<>> ELSE <<c>>]))

MostLiteralWins ==
    reads # <<>> /\ round = 1 /\ Pooled /\ (\A i \in DOMAIN tokens : tokens[i].k # ">>") =>
        LET able == { c \in Pool : Alone(c).ok }
            best == { c \in able : \A d \in able : Literals(d[2]) <= Literals(c[2]) }
            readings == { Alone(c).v : c \in best }
        IN  /\ reads[1].ok <=> Cardinality(readings) = 1
            /\ reads[1].ok => reads[1].v \in readings

(* A declaration may stand later in the file than what needs its signature *)
(* or its pattern, as parser/mod.rs:6 says, if nothing stops the first pass *)
(* before it has seen them all: the same statements in another order are   *)
(* then read as the same statements.                                       *)
DeclaredWhereSeen ==
    Len(reads) = 2 /\ given.other # "" =>
        LET prepass == parse_program(Start(tokens, <<>>, given.seed))
        IN  prepass.ok => reads[2].ok /\ ToSet(reads[2].v) = ToSet(reads[1].v)

(* No doc comment is lost, and none is about two things: it is the file's, *)
(* or that of the item that begins with the next token, or astray.         *)
NextToken(doc) ==
    Min({ p \in DOMAIN tokens : tokens[p].k # "Newline" /\ tokens[p].s > doc.s })

ItemStarts == {"pub", "skip", "const", "struct", "enum", "type", "macro", ".",
               "Identifier"}

NamedFrom(p) ==
    IF tokens[p].k \notin ItemStarts THEN ""
    ELSE tokens[Min({ q \in p .. Len(tokens) : tokens[q].k \in {"Identifier", "Eof"} })].t

DocsAreAccounted ==
    reads # <<>> /\ round = 1 /\ reads[1].ok =>
        LET items == NodesOf(reads[1].v, Documentable)
            IsModules(doc) == doc.module /\ NextToken(doc) = NextToken([s |-> 0])
            Owner(doc) ==
                { i \in DOMAIN items :
                    ~ doc.module /\ ItemName(items[i]) = NamedFrom(NextToken(doc)) }
            IsStray(doc) == ~ IsModules(doc) /\ Owner(doc) = {}
        IN  /\ reads[1].doc = SelectSeq(docs, IsModules)
            /\ \A i \in DOMAIN items :
                   items[i].d = SelectSeq(docs, LAMBDA doc : Owner(doc) = {i})
            /\ FlattenSeq(reads[1].stray) = SelectSeq(docs, IsStray)
=============================================================================
