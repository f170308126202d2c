------------------------------- MODULE Parser -------------------------------
(***************************************************************************)
(* src/src/parser/: a token stream parsed by the rules of Grammar.tla.     *)
(*                                                                         *)
(* What the parser keeps besides its position is its state here: the       *)
(* tokens (closing two generic lists at once splits one of them in two),   *)
(* the generic signatures and the syntax patterns known so far, the names  *)
(* whose syntax this file overrides, the imports, and the doc comments     *)
(* waiting and astray.  The restrictions an expression is parsed under are *)
(* put back whatever comes of it, so they are passed down instead.         *)
(***************************************************************************)
EXTENDS Grammar, Pattern

LOCAL INSTANCE TLC
LOCAL INSTANCE SequencesExt
LOCAL INSTANCE FiniteSetsExt

NoSignatures == [x \in {} |-> <<>>]
DefaultSeed == [sigs |-> NoSignatures, anchored |-> NoSignatures, unanchored |-> <<>>]

Start(toks, docs, seed) ==
    [toks |-> toks, pos |-> 1, sigs |-> seed.sigs, anchored |-> seed.anchored,
     unanchored |-> seed.unanchored, overridden |-> {}, imports |-> <<>>,
     docs |-> docs, stray |-> <<>>]

Unrestricted ==
    [closing |-> FALSE, brace |-> FALSE, splice |-> FALSE, nested |-> FALSE]

-----------------------------------------------------------------------------
(* Token navigation.                                                       *)

Got(nodes, st) == [ok |-> TRUE, v |-> nodes, st |-> st]
Failed(st) == [ok |-> FALSE, v |-> <<>>, st |-> st]

Eof == [k |-> "Eof", t |-> "", s |-> 0, e |-> 0]
Peek(st, n) == IF st.pos + n <= Len(st.toks) THEN st.toks[st.pos + n] ELSE Eof
Current(st) == st.toks[st.pos]
At(st, kind) == Current(st).k = kind
Advance(st) == IF At(st, "Eof") THEN st ELSE [st EXCEPT !.pos = @ + 1]

SkipLines(st) ==
    [st EXCEPT !.pos = CHOOSE p \in @ .. Len(st.toks) :
                          /\ st.toks[p].k # "Newline"
                          /\ \A q \in @ .. p - 1 : st.toks[q].k = "Newline"]

AtStatementEnd(st) == Current(st).k \in {"Newline", "}", "Eof"}

Touching(a, b) == a.e = b.s

at_dot_identifier(st) ==
    At(st, ".") /\ IsWord(Peek(st, 1)) /\ Touching(Current(st), Peek(st, 1))

at_dotted_label(st) == at_dot_identifier(st) /\ Peek(st, 2).k = ":"

AtMeta(st, text) ==
    At(st, "@") /\ Peek(st, 1).k = "Identifier" /\ Peek(st, 1).t = text

(* expect_generic_close: `>>` is two closers, and the tokens keep the two. *)
expect_generic_close(st) ==
    LET token == Current(st)
        half(s, e) == [k |-> ">", t |-> ">", s |-> s, e |-> e]
    IN  CASE token.k = ">>" ->
                 Got(<<>>, [st EXCEPT
                     !.toks = SubSeq(@, 1, st.pos - 1)
                                \o <<half(token.s, token.s + 1),
                                     half(token.s + 1, token.e)>>
                                \o SubSeq(@, st.pos + 1, Len(@)),
                     !.pos = @ + 1])
          [] token.k = ">" -> Got(<<>>, Advance(st))
          [] OTHER -> Failed(st)

-----------------------------------------------------------------------------
(* Operators.                                                              *)

LeftPower(kind) ==
    CASE kind \in {"*", "/", "%"} -> 80
      [] kind \in {"+", "-"} -> 70
      [] kind \in {"<<", ">>"} -> 60
      [] kind \in {"<", "<=", ">", ">="} -> 50
      [] kind \in {"==", "!="} -> 40
      [] kind = "&" -> 30
      [] kind = "^" -> 20
      [] kind = "|" -> 10
      [] kind = "&&" -> 6
      [] kind = "||" -> 2
      [] OTHER -> -1

(* A mutant: every operator would associate to the right.                  *)
SamePower(kind) == LeftPower(kind)

RightPower(kind) == LeftPower(kind) + 1

(* In a generic argument no operator may begin like a closing bracket.     *)
current_binary_operator(st, f) ==
    LET kind == Current(st).k
    IN  IF f.closing /\ kind \in {">", ">=", ">>"} THEN -1 ELSE LeftPower(kind)

(* What follows an operand: the rule for it and the node it makes, or none.*)
Follow(left, bp, stop, f, st) ==
    LET kind == Current(st).k
        bare == left.k = "Identifier" /\ ~ f.brace
        Step(rule, k) == <<[rule |-> rule, k |-> k, t |-> kind]>>
    IN  CASE stop # "" /\ kind = stop -> <<>>
          [] kind = "." -> Step(All(<<T("."), SplicedName>>), "Member")
          [] kind = "(" -> Step(CallArguments, "Call")
          [] kind = "{" /\ bare -> Step(ConstructBody, "Construct")
          [] kind = "<" /\ bare /\ left.t \in DOMAIN st.sigs ->
                 Step(GenericOperand(st.sigs[left.t]), "Generic")
          [] kind = "as" -> Step(All(<<T("as"), TypeExpr>>), "As")
          [] kind \in {"..", "..="} /\ 1 >= bp ->
                 Step(All(<<T(kind), Expr(2, stop)>>), "Range")
          [] kind = "in" /\ 50 >= bp ->
                 Step(All(<<T("in"), MembershipSource(stop)>>), "In")
          [] kind \notin {"..", "..=", "in"}
                /\ current_binary_operator(st, f) >= bp ->
                 Step(All(<<T(kind), Expr(RightPower(kind), stop)>>), "Binary")
          [] OTHER -> <<>>

Joined(step, left, parts) ==
    LET Member(bound) == N("In", "", <<left, bound>>)
    IN  CASE step.k = "Call" -> N("Call", "", <<left>> \o parts)
          [] step.k = "Construct" ->
                 N("Construct", "", <<left, Leaf("Generics", "")>> \o parts)
          [] step.k = "Generic" ->
                 N(IF Len(parts) = 2 THEN "Construct" ELSE "EnumVariant", "",
                   <<left>> \o parts)
          [] step.k \in {"Range", "Binary"} -> N(step.k, step.t, <<left>> \o parts)
          [] step.k = "In" ->
                 Member(IF Len(parts) = 1 THEN parts[1]
                        ELSE N("Range", parts[2].k, <<parts[1], parts[3]>>))
          [] OTHER -> N(step.k, "", <<left>> \o parts)

-----------------------------------------------------------------------------
(* Syntax patterns, and which of them are known.                           *)

(* The tokens of a pattern block up to its closing brace: 0 if there is    *)
(* none.                                                                   *)
PatternEnd(st) ==
    LET Depth[p \in st.pos .. Len(st.toks)] ==
            (IF p = st.pos THEN 0 ELSE Depth[p - 1])
              + (CASE st.toks[p].k = "{" -> 1 [] st.toks[p].k = "}" -> -1
                   [] OTHER -> 0)
        ends == { p \in st.pos + 1 .. Len(st.toks) : Depth[p] = 0 }
    IN  IF ends = {} THEN 0 ELSE Min(ends)

parse_pattern_block(st) ==
    LET end  == PatternEnd(st)
        Kept(token) == token.k # "Newline"
    IN  IF ~ At(st, "{") \/ end = 0 THEN Failed(st)
        ELSE Got(<<N("Pattern", "",
                     [i \in 1 .. Len(SelectSeq(SubSeq(st.toks, st.pos + 1, end - 1), Kept)) |->
                        LET t == SelectSeq(SubSeq(st.toks, st.pos + 1, end - 1), Kept)[i]
                        IN  Leaf(t.k, t.t)])>>,
                 [st EXCEPT !.pos = end + 1])

Known(patterns, name) ==
    IF name \in DOMAIN patterns THEN patterns[name] ELSE <<>>

add_syntax_pattern(st, name, pattern) ==
    LET held == Known(st.anchored, name)
    IN  IF is_anchored(pattern, name)
        THEN IF pattern \in ToSet(held) THEN st
             ELSE [st EXCEPT !.anchored = (name :> Append(held, pattern)) @@ @]
        ELSE IF <<name, pattern>> \in ToSet(st.unanchored) THEN st
             ELSE [st EXCEPT !.unanchored = Append(@, <<name, pattern>>)]

(* An override takes the place of every pattern the name has so far, and   *)
(* two in one file are refused.                                            *)
register_syntax_override(st, name, pattern) ==
    add_syntax_pattern(
        [st EXCEPT !.overridden = @ \cup {name},
                   !.anchored = [n \in DOMAIN @ \ {name} |-> @[n]],
                   !.unanchored = SelectSeq(@, LAMBDA u : u[1] # name)],
        name, pattern)

-----------------------------------------------------------------------------
(* Doc comments.                                                           *)

(* A mutant: docs that something stands between are taken all the same.    *)
TakeEveryDoc(st) ==
    LET start == Current(st).s
        Mine(doc) == ~ doc.module /\ doc.s < start
    IN  [block |-> SelectSeq(st.docs, Mine),
         st |-> [st EXCEPT !.docs = SelectSeq(@, LAMBDA doc : ~ Mine(doc))]]

(* The docs above the current token, up to the last token before it: the   *)
(* rest of those before it are astray.                                     *)
take_doc_lines(st) ==
    LET start  == Current(st).s
        before == { p \in 1 .. st.pos - 1 : st.toks[p].k # "Newline" }
        floor  == IF before = {} THEN 0 ELSE st.toks[Max(before)].e
        above  == SelectSeq(st.docs, LAMBDA doc : doc.s < start)
        Mine(doc) == ~ doc.module /\ doc.s >= floor
    IN  [block |-> SelectSeq(above, Mine),
         st |-> [st EXCEPT
                   !.docs = SelectSeq(@, LAMBDA doc : doc.s >= start),
                   !.stray = @ \o SelectSeq(above, LAMBDA doc : ~ Mine(doc))]]

Documentable == {"Struct", "Enum", "Type", "Const", "Macro", "Label", "Syntax",
                 "Field", "Variant"}

attach_doc(nodes, block, st) ==
    IF block = <<>> \/ nodes = <<>> THEN Got(nodes, st)
    ELSE IF nodes[1].k \in Documentable
         THEN Got(<<[nodes[1] EXCEPT !.d = block]>>, st)
         ELSE Got(nodes, [st EXCEPT !.stray = @ \o block])

take_module_doc(st) ==
    LET Mine(doc) == doc.module /\ doc.s < Current(st).s
    IN  [block |-> SelectSeq(st.docs, Mine),
         st |-> [st EXCEPT !.docs = SelectSeq(@, LAMBDA doc : ~ Mine(doc))]]

(* finish_docs: what nothing claimed, in order, in runs with no token      *)
(* inside.                                                                 *)
finish_docs(st) ==
    LET left == SetToSortSeq(ToSet(st.stray) \cup ToSet(st.docs),
                             LAMBDA a, b : a.s < b.s)
        token_between(s, e) ==
            \E p \in DOMAIN st.toks :
                /\ st.toks[p].s >= s /\ st.toks[p].s < e
                /\ st.toks[p].k # "Newline"
        Joins(run, doc) == /\ Last(run).module = doc.module
                           /\ ~ token_between(Last(run).e, doc.s)
        Step(runs, doc) ==
            IF runs # <<>> /\ Joins(Last(runs), doc)
            THEN [runs EXCEPT ![Len(runs)] = Append(@, doc)]
            ELSE Append(runs, <<doc>>)
    IN  FoldLeft(Step, <<>>, left)

-----------------------------------------------------------------------------
(* What the parser does with the result of a rule, by the rule's `then`.   *)

LintNames == {"unused_parameter", "unused_import", "unreachable_code",
              "generated_declarations", "unfulfilled_lint_expectation",
              "fold_without_next", "unused_doc_comments", "missing_docs",
              "unused", "all", "warnings"}

Kinds(params) ==
    [i \in DOMAIN params.c |->
        IF params.c[i].k = "ConstParam" THEN "const" ELSE "type"]

register_generic_signature(st, name, params) ==
    IF name = "" \/ params.c = <<>> THEN st
    ELSE [st EXCEPT !.sigs = (name :> Kinds(params)) @@ @]

Texts(nodes) == [i \in DOMAIN nodes |-> nodes[i].t]

register_macro_syntax(r) ==
    LET name     == literal_name(r.v[1])
        params   == Texts([i \in DOMAIN r.v[3].c |-> r.v[3].c[i].c[1]])
        patterns == SelectSeq(r.v[5].c, LAMBDA facet : facet.t = "syntax")
        split    == split_into_segments(patterns[1].c[1].c)
    IN  IF patterns = <<>> \/ name = "" THEN r
        ELSE IF ~ WellFormed(split, params) THEN Failed(r.st)
        ELSE Got(r.v, add_syntax_pattern(r.st, name,
                          [segs |-> split.segs, params |-> params]))

Selectors(payload) ==
    IF payload.k = "Lint" THEN Texts(payload.c)
    ELSE Texts(SelectSeq(payload.c, LAMBDA arg : arg.k = "Identifier"))

After(by, r) ==
    CASE by = "import" -> Got(r.v, [r.st EXCEPT !.imports = Append(@, r.v[1])])
      [] by = "signature" ->
             Got(r.v, register_generic_signature(r.st, literal_name(r.v[1]), r.v[2]))
      [] by = "defaults" ->
             LET Defaulted(i) == r.v[1].c[i].c[3] # Absent
             IN  IF \E i \in 1 .. Len(r.v[1].c) - 1 :
                        Defaulted(i) /\ ~ Defaulted(i + 1)
                 THEN Failed(r.st) ELSE r
      [] by = "syntax" -> register_macro_syntax(r)
      [] by = "lints" ->
             IF \/ Selectors(r.v[1]) = <<>>
                \/ ~ ToSet(Selectors(r.v[1])) \subseteq LintNames
             THEN Failed(r.st) ELSE r
      [] by = "override" ->
             LET node   == r.v[1]
                 name   == node.c[1].t
                 params == Texts(node.c[2].c)
                 split  == split_into_segments(node.c[3].c)
             IN  IF ~ WellFormed(split, params) \/ name \in r.st.overridden
                 THEN Failed(r.st)
                 ELSE Got(r.v, register_syntax_override(r.st, name,
                                   [segs |-> split.segs, params |-> params]))

(* `syntax name(...) = {` at top level, found by looking ahead only.       *)
at_syntax_override_start(st, f) ==
    LET from == st.pos + 2
        Depth[p \in from .. Len(st.toks)] ==
            (IF p = from THEN 0 ELSE Depth[p - 1])
              + (CASE st.toks[p].k = "(" -> 1 [] st.toks[p].k = ")" -> -1
                   [] OTHER -> 0)
        closes == { p \in from + 1 .. Len(st.toks) : Depth[p] = 0 }
    IN  /\ ~ f.nested
        /\ Current(st).t = "syntax" /\ Peek(st, 1).k = "Identifier"
        /\ Peek(st, 2).k = "(" /\ closes # {}
        /\ Min(closes) + 2 <= Len(st.toks)
        /\ st.toks[Min(closes) + 1].k = "="
        /\ st.toks[Min(closes) + 2].k = "{"

(* A positional `@next` may be followed by a comma only where the comma    *)
(* ends the item; a named one goes on over commas while names follow.      *)
NextEnds(st) ==
    At(st, ",") => Peek(st, 1).k \in {"Newline", "}"}

NextGoesOn(st) ==
    LET after == SkipLines(Advance(st))
    IN  At(st, ",") /\ At(after, "Identifier") /\ Peek(after, 1).k = "="

(* The operand before any operator, once no operand pattern matched.       *)
Prefix(stop, f, st) ==
    LET token == Current(st)
    IN  CASE token.k = "Identifier" /\ ~ f.splice /\ Peek(st, 1).k = Backtick
                /\ Touching(token, Peek(st, 1)) ->
                 Node("SplicedIdentifier", "", <<SplicedName>>)
          [] token.k = "Identifier" ->
                 All(<<T("Identifier"), Yield(Leaf("Identifier", token.t))>>)
          [] at_dot_identifier(st) -> [op |-> "labelName"]
          [] token.k \in {"Integer", "String"} ->
                 All(<<T(token.k), Yield(Leaf(token.k, token.t))>>)
          [] token.k = "(" -> Parenthesized
          [] AtMeta(st, "fold") -> FoldValue
          [] token.k = Backtick -> Splice
          [] token.k \in {"-", "!", "~"} ->
                 Node("Unary", token.k, <<T(token.k), Expr(90, stop)>>)
          [] OTHER -> Fail

StatementRule(f, st) ==
    LET kind   == Current(st).k
        public == kind = "pub"
        here   == IF public THEN Advance(st) ELSE st
        pub    == IF public THEN "pub" ELSE ""
        start  == Current(here).k
        label  == (start = "Identifier" /\ Peek(here, 1).k = ":")
                     \/ at_dotted_label(here)
    IN  All(<<Skip("pub"),
              CASE start \in DeclarationStarts -> Declaration(start, pub)
                [] ~ public /\ at_syntax_override_start(st, f) -> SyntaxOverride
                [] label -> Label(pub)
                [] ~ public /\ start = "section" -> Section
                [] ~ public /\ start = "Identifier" -> [op |-> "call"]
                [] ~ public /\ start = "@" /\ Peek(st, 1).k = "Identifier" ->
                       MetaStatement(Peek(st, 1).t)
                [] OTHER -> Fail>>)

-----------------------------------------------------------------------------
(* Running the rules.                                                      *)

(* What may follow an operand read already.                                *)
GoingOn(left, r) ==
    [op |-> "goingOn", left |-> left, bp |-> r.bp, stop |-> r.stop]

(* Each of the operators below runs rules, of which each may come back.    *)
RECURSIVE Run(_, _, _), Expanded(_, _, _), match_segments(_, _, _, _),
          captured(_, _, _, _), match_syntax_pattern(_, _, _), tried(_, _, _, _, _),
          TryEach(_, _, _, _), Readings(_, _, _, _), parse_operand_via_syntax(_, _),
          invocation_of(_, _, _, _), parse_invocation_statement(_, _),
          parse_operand(_, _, _), parse_expr(_, _, _), go_on(_, _, _),
          parse_type_expr(_, _), parse_facet_list(_, _), parse_documented(_, _, _)

(* Literals are matched token by token, and a capture runs up to the first *)
(* token of the literal after it.                                          *)
StopBefore(segs) == IF segs = <<>> THEN "" ELSE segs[1].lits[1].k

match_segments(segs, caps, f, st) ==
    LET lits == segs[1].lits
    IN  CASE segs = <<>> -> Got(caps, st)
          [] segs[1].cap # "" ->
                 captured(Run(Expr(0, StopBefore(Tail(segs))), f, st), segs, caps, f)
          [] \A j \in DOMAIN lits : SameToken(Peek(st, j - 1), lits[j]) ->
                 match_segments(Tail(segs), caps, f, [st EXCEPT !.pos = @ + Len(lits)])
          [] OTHER -> Failed(st)

captured(r, segs, caps, f) ==
    IF r.ok THEN match_segments(Tail(segs), (segs[1].cap :> r.v[1]) @@ caps, f, r.st)
    ELSE r

in_param_order(m, params) ==
    IF m.ok THEN Got([i \in DOMAIN params |-> m.v[params[i]]], m.st) ELSE m

match_syntax_pattern(pattern, f, st) ==
    in_param_order(match_segments(pattern.segs, NoSignatures, f, st), pattern.params)

(* Every candidate is tried from the same place; of the readings found     *)
(* those of the most literal tokens are kept, each once.  What a failed    *)
(* candidate did to the tokens stays done.                                 *)
Noted(r, args, c, all) ==
    LET again == \E i \in DOMAIN all.found :
                     all.found[i].name = c[1] /\ all.found[i].args = args
    IN  [st |-> [r.st EXCEPT !.pos = all.st.pos],
         found |-> IF ~ r.ok \/ again THEN all.found
                   ELSE Append(all.found,
                               [name |-> c[1], args |-> args, end |-> r.st.pos,
                                weight |-> literal_token_count(c[2])])]

tried(m, c, ending, f, all) ==
    Noted(IF m.ok THEN Run(ending, f, m.st) ELSE m, m.v, c, all)

TryEach(candidates, ending, f, all) ==
    LET c == Head(candidates)
    IN  IF candidates = <<>> THEN all
        ELSE TryEach(Tail(candidates), ending, f,
                     tried(match_syntax_pattern(c[2], f, all.st), c, ending, f, all))

Heaviest(all) ==
    LET Best(r) == \A i \in DOMAIN all.found : all.found[i].weight <= r.weight
    IN  [all EXCEPT !.found = SelectSeq(@, Best)]

Readings(candidates, ending, f, st) ==
    Heaviest(TryEach(candidates, ending, f, [st |-> st, found |-> <<>>]))

(* Operand patterns that begin with the current token, as calls.           *)
operand_of(r) ==
    CASE Len(r.found) = 0 -> Got(<<>>, r.st)
      [] Len(r.found) = 1 ->
             Got(<<N("Call", "", <<Leaf("Identifier", r.found[1].name)>>
                                    \o r.found[1].args)>>,
                 [r.st EXCEPT !.pos = r.found[1].end])
      [] OTHER -> Failed(r.st)

parse_operand_via_syntax(f, st) ==
    LET Begins(u) == /\ is_operand_pattern(u[2])
                     /\ SameToken(u[2].segs[1].lits[1], Current(st))
    IN  operand_of(Readings(SelectSeq(st.unanchored, Begins), Done, f, st))

(* A name that anchors a pattern is never read the default way.            *)
invocation_of(r, name, claimed, f) ==
    CASE Len(r.found) = 1 ->
             Got(<<N("Invocation", r.found[1].name, r.found[1].args)>>,
                 [r.st EXCEPT !.pos = r.found[1].end])
      [] Len(r.found) = 0 /\ ~ claimed -> Run(Invocation(name), f, r.st)
      [] OTHER -> Failed(r.st)

parse_invocation_statement(f, st) ==
    LET name == Current(st).t
        mine == Known(st.anchored, name)
        candidates == [i \in DOMAIN mine |-> <<name, mine[i]>>]
                         \o SelectSeq(st.unanchored,
                                      LAMBDA u : ~ is_operand_pattern(u[2]))
    IN  invocation_of(Readings(candidates, StatementEnd, f, st), name,
                      name \in DOMAIN st.anchored, f)

(* parse_expr_bp_until: an operand, then whatever goes on from it.         *)
parse_operand(via, r, f) ==
    IF via.ok /\ via.v = <<>> THEN Run(Prefix(r.stop, f, via.st), f, via.st) ELSE via

parse_expr(r, f, st) ==
    LET operand == parse_operand(parse_operand_via_syntax(f, st), r, f)
    IN  IF operand.ok THEN Run(GoingOn(operand.v[1], r), f, operand.st)
        ELSE operand

go_on(r, f, st) ==
    LET step == Follow(r.left, r.bp, r.stop, f, st)
        next == Run(step[1].rule, f, st)
    IN  CASE step = <<>> -> Got(<<r.left>>, st)
          [] ~ next.ok -> next
          [] OTHER -> Run(GoingOn(Joined(step[1], r.left, next.v), r), f, next.st)

(* Each of these runs one kind of rule that the next operator dispatches.  *)
parse_type_expr(f, st) ==
    LET path == Run(Path, f, st)
        args == Run(GenericArguments(Known(path.st.sigs, Last(path.v[1].c).t)), f, path.st)
    IN  CASE ~ path.ok \/ ~ At(path.st, "<") -> path
          [] ~ args.ok -> args
          [] OTHER -> Got(<<N("Apply", "", path.v \o args.v)>>, args.st)

parse_facet_list(f, st) ==
    LET bar  == SkipLines(st)
        name == Peek(bar, 1)
        Facet == All(<<T("|"), If({"from"}, T("from"), Exactly(name.t)),
                       Node("Facet", name.t, <<FacetPayload(name.t)>>),
                       [op |-> "facets"]>>)
    IN  IF At(bar, "|") THEN Run(Facet, f, bar) ELSE Got(<<>>, st)

parse_documented(r, f, st) ==
    LET docs == take_doc_lines(st)
        item == Run(r.r, f, docs.st)
    IN  IF item.ok THEN attach_doc(item.v, docs.block, item.st) ELSE item

(* The rule that stands for one of the remaining kinds here.               *)
Expanded(r, f, st) ==
    LET token == Current(st)
        sep   == IF r.op = "separated" /\ r.lines THEN Lines ELSE Done
    IN  CASE r.op = "pieces" ->
                 IF token.k = Backtick /\ st.pos < Len(st.toks)
                       /\ Peek(st, 1).k \notin ClosersAfterTick
                 THEN All(<<Piece, r>>) ELSE Done
          [] r.op = "path" -> All(<<Word, [op |-> "dotted"]>>)
          [] r.op = "dotted" -> If({"."}, All(<<T("."), Word, r>>), Done)
          [] r.op = "dots" ->
                 LET ds == { p \in st.pos .. Len(st.toks) :
                               \A q \in st.pos .. p : st.toks[q].k \in {".", "..", "..."} }
                 IN  All([i \in 1 .. Cardinality(ds) |-> T(st.toks[st.pos + i - 1].k)]
                         \o <<Yield(Leaf("Level", ToString(
                                FoldSet(LAMBDA p, n : n + Len(st.toks[p].t), 0, ds))))>>)
          [] r.op = "labelName" ->
                 IF at_dot_identifier(st)
                 THEN All(<<T("."), T(Peek(st, 1).k),
                            Yield(Leaf("Identifier", "." \o Peek(st, 1).t))>>)
                 ELSE All(<<T("Identifier"), Yield(Leaf("Identifier", token.t))>>)
          [] r.op = "separated" ->
                 All(<<r.r, sep,
                       If({","}, All(<<T(","), sep,
                            IF r.close = "" THEN r ELSE Unless(r.close, r)>>), Done)>>)
          [] r.op = "bindings" ->
                 All(<<FoldBinding, If({","}, All(<<T(","), Lines, r>>), Done)>>)
          [] r.op = "arguments" ->
                 LET rest == [op |-> "arguments", kinds |-> IF r.kinds = <<>> THEN <<>>
                                                            ELSE Tail(r.kinds)]
                 IN  All(<<TypeArgument(IF r.kinds = <<>> THEN "" ELSE Head(r.kinds)),
                           Lines, If({","}, All(<<T(","), Lines, rest>>), Done)>>)
          [] r.op = "next" ->
                 CASE AtStatementEnd(st) \/ token.k = "," ->
                          All(<<Nothing, Yield(Leaf("List", ""))>>)
                   [] token.k = "Identifier" /\ Peek(st, 1).k = "=" ->
                          All(<<Nothing, Node("List", "", <<FoldBinding, [op |-> "updates"]>>)>>)
                   [] OTHER ->
                          All(<<AnyExpr, [op |-> "nextEnds"], Yield(Leaf("List", ""))>>)
          [] r.op = "nextEnds" -> IF NextEnds(st) THEN Done ELSE Fail
          [] r.op = "updates" ->
                 IF NextGoesOn(st) THEN All(<<T(","), Lines, FoldBinding, r>>) ELSE Done
          [] r.op = "statementEnd" ->
                 IF token.k = "Newline" THEN T("Newline")
                 ELSE IF AtStatementEnd(st) THEN Done ELSE Fail
          [] r.op = "statement" -> StatementRule(f, st)
          [] r.op = "if" -> IF token.k \in r.ks THEN r.a ELSE r.b
          [] r.op = "ifNext" ->
                 IF token.k = r.k /\ Peek(st, 1).k = r.n THEN r.a ELSE r.b
          [] r.op = "ifWord" ->
                 IF token.k = "Identifier" /\ token.t = r.t THEN r.a ELSE r.b
          [] r.op = "ifMeta" -> IF AtMeta(st, r.t) THEN r.a ELSE r.b
          [] r.op = "rule" -> Rules[r.n]

Run(r, f, st) ==
    LET token == Current(st)
        Taking(ok, nodes) == IF ok THEN Got(nodes, Advance(st)) ELSE Failed(st)
    IN  CASE r.op = "token" -> Taking(token.k = r.k, <<>>)
          [] r.op = "symbol" -> Taking(token.k \in r.ks, <<Leaf(token.k, "")>>)
          [] r.op = "word" ->
                 Taking(token.k = "Identifier", <<Leaf("Text", token.t)>>)
          [] r.op = "exactly" -> Taking(token.k = "Identifier" /\ token.t = r.t, <<>>)
          [] r.op = "lines" -> Got(<<>>, SkipLines(st))
          [] r.op = "yield" -> Got(<<r.n>>, st)
          [] r.op = "fail" -> Failed(st)
          [] r.op = "all" ->
                 IF r.rs = <<>> THEN Got(<<>>, st)
                 ELSE LET a == Run(Head(r.rs), f, st)
                          b == Run(All(Tail(r.rs)), f, a.st)
                      IN  IF ~ a.ok THEN a
                          ELSE IF b.ok THEN Got(a.v \o b.v, b.st) ELSE b
          [] r.op = "node" ->
                 LET a == Run(All(r.rs), f, st)
                 IN  IF a.ok THEN Got(<<N(r.k, r.t, a.v)>>, a.st) ELSE a
          [] r.op = "with" -> Run(r.r, r.flags @@ f, st)
          [] r.op = "then" ->
                 LET a == Run(r.r, f, st) IN IF a.ok THEN After(r.by, a) ELSE a
          [] r.op = "expr" -> parse_expr(r, f, st)
          [] r.op = "goingOn" -> go_on(r, f, st)
          [] r.op = "type" -> parse_type_expr(f, st)
          [] r.op = "facets" -> parse_facet_list(f, st)
          [] r.op = "documented" -> parse_documented(r, f, st)
          [] r.op = "close" -> expect_generic_close(st)
          [] r.op = "pattern" -> parse_pattern_block(st)
          [] r.op = "call" -> parse_invocation_statement(f, st)
          [] OTHER -> Run(Expanded(r, f, st), f, st)

-----------------------------------------------------------------------------
parse_program(st) ==
    LET docs == take_module_doc(SkipLines(st))
        Read(all) == [ok |-> all.ok, v |-> all.v, st |-> all.st, doc |-> docs.block,
                          stray |-> finish_docs(all.st)]
    IN  Read(Run(R("program"), Unrestricted, docs.st))

(* A mutant: no first pass.                                                *)
ParsedOnce(toks, docs, seed) == parse_program(Start(toks, docs, seed))

(* A first pass, whose outcome does not matter, finds the signatures and   *)
(* the patterns the second one starts from.                                *)
parse_seeded(toks, docs, seed) ==
    parse_program(Start(toks, docs, parse_program(Start(toks, <<>>, seed)).st))
=============================================================================
