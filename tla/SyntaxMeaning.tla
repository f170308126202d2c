---------------------------- MODULE SyntaxMeaning ----------------------------
(***************************************************************************)
(* What texts and trees should mean to each other, said without a lexer,   *)
(* a parser or a printer: which texts are lexemes, how a tree is spelled   *)
(* with the parentheses it needs and no other, and which item a doc        *)
(* comment is about.  Which forms of a tree are known not to survive the   *)
(* printer is listed here too.                                             *)
(***************************************************************************)
EXTENDS Printer

LOCAL INSTANCE FiniteSets

-----------------------------------------------------------------------------
(* Lexemes.                                                                *)

Chars(text) == { SubSeq(text, i, i) : i \in 1 .. Len(text) }
Digits == Chars("0123456789")
Letters == Chars("abcdefghijklmnopqrstuvwxyzABCDEFGHIJKLMNOPQRSTUVWXYZ_")

DigitsOf(prefix) ==
    CASE prefix \in {"0x", "0X"} -> Digits \cup Chars("abcdefABCDEF")
      [] prefix \in {"0b", "0B"} -> Chars("01")
      [] prefix \in {"0o", "0O"} -> Chars("01234567")

SingleUnderscores(text) ==
    \A i \in 1 .. Len(text) - 1 : SubSeq(text, i, i + 1) # "__"

IsNumber(text) ==
    LET First == SubSeq(text, 1, 1)
        Based == /\ Len(text) > 2
                 /\ SubSeq(text, 1, 2) \in {"0x", "0X", "0b", "0B", "0o", "0O"}
    IN  /\ text # "" /\ First \in Digits
        /\ IF Based
           THEN LET digits == SubSeq(text, 3, Len(text))
                IN  /\ Chars(digits) \subseteq DigitsOf(SubSeq(text, 1, 2)) \cup {"_"}
                    /\ SingleUnderscores(digits)
           ELSE Chars(text) \subseteq Digits \cup {"_"} /\ SingleUnderscores(text)

IsName(text) ==
    /\ text # "" /\ SubSeq(text, 1, 1) \in Letters
    /\ Chars(text) \subseteq Letters \cup Digits

(* A quoted text without a newline, every backslash of which escapes one   *)
(* of the characters it may, and whose quote is the last character.        *)
IsString(text) ==
    LET n == Len(text)
        At(i) == SubSeq(text, i, i)
        Run(i) == Cardinality({ j \in 1 .. i - 1 :
                                  \A h \in j .. i - 1 : At(h) = "\\" })
        Escaped(i) == Run(i) % 2 = 1
    IN  /\ n >= 2 /\ At(1) = "\"" /\ At(n) = "\"" /\ ~ Escaped(n)
        /\ \A i \in 2 .. n - 1 :
               /\ At(i) # "\n"
               /\ At(i) = "\"" => Escaped(i)
               /\ At(i) = "\\" /\ ~ Escaped(i) =>
                      At(i + 1) \in Chars("nrt0\\\"")

IsChar(text) ==
    \/ /\ Len(text) = 3 /\ SubSeq(text, 1, 1) = "'" /\ SubSeq(text, 3, 3) = "'"
       /\ SubSeq(text, 2, 2) \notin {"'", "\\", "\n"}
    \/ /\ Len(text) = 4 /\ SubSeq(text, 1, 2) = "'\\" /\ SubSeq(text, 4, 4) = "'"
       /\ SubSeq(text, 3, 3) \in Chars("nrt0\\'")

KindOf(text) ==
    CASE text \in Keywords \cup Symbols -> text
      [] text = "\n" -> "Newline"
      [] IsName(text) -> "Identifier"
      [] IsNumber(text) \/ IsChar(text) -> "Integer"
      [] IsString(text) -> "String"
      [] text \in {"\\$", "\\" \o Backtick} -> "Escaped"
      [] OTHER -> "None"

-----------------------------------------------------------------------------
(* Spelling.                                                               *)

(* The binary operators from the loosest to the tightest.                  *)
Tightness ==
    << {"||"}, {"&&"}, {"|"}, {"^"}, {"&"}, {"==", "!="},
       {"<", "<=", ">", ">="}, {"<<", ">>"}, {"+", "-"}, {"*", "/", "%"} >>

Comparison == 7

Level(n) ==
    CASE n.k = "Range" -> 0
      [] n.k = "Binary" -> CHOOSE l \in DOMAIN Tightness : n.t \in Tightness[l]
      [] n.k = "In" -> Comparison
      [] n.k = "Unary" -> 11
      [] OTHER -> 12

IsDotted(name) == SubSeq(name, 1, 1) = "."

RECURSIVE Exposes(_, _, _)

(* May the i-th part of n stand there without parentheses?  Left operands  *)
(* may be as loose as n, right ones may not; a unary operator reaches over *)
(* what follows its operand, `in` over a range and a type over a `<` or a  *)
(* dot.  `closed` says that binary operations have parentheses already.    *)
Fits(n, i, closed) ==
    LET x == n.c[i]
        level == IF closed /\ x.k = "Binary" THEN 12 ELSE Level(x)
        Side(s) == (closed /\ s.k = "Binary") \/ Level(s) > Comparison
        RangeOf == x.k = "Range" /\ Side(x.c[1]) /\ Side(x.c[2])
    IN  CASE n.k = "Binary" ->
                 IF i = 1 THEN /\ level >= Level(n)
                               /\ n.t = "<" => ~ Exposes(x, "As", closed)
                 ELSE level > Level(n)
          [] n.k = "In" /\ i = 1 -> level >= Comparison
          [] n.k = "In" -> level > Comparison \/ RangeOf
          [] n.k = "Range" /\ i = 1 -> ~ Exposes(x, "In", closed)
          [] n.k = "Range" ->
                 level > 0 /\ (closed => ~ (x.k = "Identifier" /\ IsDotted(x.t)))
          [] n.k = "Unary" -> level >= 11
          [] n.k = "As" /\ i = 1 -> level >= 12
          [] n.k = "Member" /\ i = 1 -> level >= 12 /\ x.k # "As"
          [] n.k = "Call" /\ i = 1 -> level >= 12
          [] OTHER -> TRUE

(* Does n end in a type, or in an `in` whose source is no range?           *)
Exposes(n, kind, closed) ==
    IF closed /\ n.k = "Binary" THEN FALSE
    ELSE \/ n.k = kind /\ kind = "As"
         \/ n.k = kind /\ kind = "In" /\ ~ (n.c[2].k = "Range" /\ Fits(n, 2, closed))
         \/ /\ n.k \in {"Binary", "Range", "In", "Unary"}
            /\ Fits(n, Len(n.c), closed)
            /\ Exposes(n.c[Len(n.c)], kind, closed)

RECURSIVE Spelled(_)

(* With the parentheses it needs and no other.                             *)
Spelled(n) ==
    LET Part(i) == IF Fits(n, i, FALSE) THEN Spelled(n.c[i])
                   ELSE "(" \o Spelled(n.c[i]) \o ")"
    IN  CASE n.k \in {"Binary", "Range"} -> Part(1) \o " " \o n.t \o " " \o Part(2)
          [] n.k = "In" -> Part(1) \o " in " \o Part(2)
          [] n.k = "Unary" -> n.t \o Part(1)
          [] n.k = "As" -> Part(1) \o " as " \o Written(n.c[2])
          [] n.k = "Member" -> Part(1) \o "." \o Written(n.c[2])
          [] n.k = "Call" ->
                 Part(1) \o "(" \o Join([i \in 1 .. Len(n.c) - 1 |-> Spelled(n.c[i + 1])],
                                        ", ") \o ")"
          [] OTHER -> Written(n)

-----------------------------------------------------------------------------
(* Printing.                                                               *)

RECURSIVE OpensBrace(_)

(* Has n a construction that nothing around it, but for arguments, closes? *)
OpensBrace(n) ==
    CASE n.k = "Construct" -> TRUE
      [] n.k \in {"Binary", "Splice", "Fold"} -> FALSE
      [] OTHER -> \E i \in DOMAIN n.c : OpensBrace(n.c[i])

HeaderOf(n) ==
    CASE n.k = "For" -> {n.c[2]} [] n.k \in {"If", "Match"} -> {n.c[1]}
      [] OTHER -> {}

RECURSIVE Awkward(_)

(* Has n one of the forms that do not survive being printed, against what  *)
(* printer.rs says of itself?  Something other than a binary operation     *)
(* needs parentheses; a header of a loop or condition has a construction   *)
(* that looks like its body; a lint facet has its selectors in             *)
(* parentheses; a positional `@next` is followed by something on its line; *)
(* or a spliced expression that ends in a member is followed by more of    *)
(* the name.                                                               *)
Awkward(n) ==
    \/ \E i \in DOMAIN n.c : ~ Fits(n, i, TRUE) \/ Awkward(n.c[i])
    \/ \E x \in HeaderOf(n) : OpensBrace(x)
    \/ n.k = "Lints"
    \/ /\ n.k = "Body"
       /\ \E i \in 1 .. Len(n.c) - 1 : n.c[i].k = "Next" /\ n.c[i].c[1] # Absent
    \/ /\ n.k = "Name"
       /\ \E i \in 1 .. Len(n.c) - 1 : n.c[i].k = "Piece" /\ n.c[i].c[1].k = "Member"

(* How many literal tokens a pattern asks for.                             *)
Literals(pattern) ==
    Cardinality({ <<i, j>> \in (1 .. 9) \X (1 .. 9) :
                    /\ i \in DOMAIN pattern.segs
                    /\ j \in DOMAIN pattern.segs[i].lits })

-----------------------------------------------------------------------------
(* Doc comments.                                                           *)

(* The name a documented item goes by.                                     *)
ItemName(n) ==
    CASE n.k = "Field" -> n.c[Len(n.c) - 2].c[1].t
      [] n.k = "Label" -> IF IsDotted(n.c[1].t) THEN Tail(n.c[1].t) ELSE n.c[1].t
      [] n.k \in {"Variant", "Syntax"} -> n.c[1].t
      [] OTHER -> n.c[1].c[1].t

RECURSIVE NodesOf(_, _)

(* The nodes of one of these kinds among some nodes and all their parts,   *)
(* from first to last.                                                     *)
NodesOf(nodes, kinds) ==
    IF nodes = <<>> THEN <<>>
    ELSE (IF nodes[1].k \in kinds THEN <<nodes[1]>> ELSE <<>>)
           \o NodesOf(nodes[1].c, kinds) \o NodesOf(Tail(nodes), kinds)
=============================================================================
