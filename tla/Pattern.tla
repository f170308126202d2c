------------------------------- MODULE Pattern -------------------------------
(***************************************************************************)
(* src/src/facets/syntax.rs: the pattern of tokens and captures a macro's  *)
(* `syntax` facet gives its calls.                                         *)
(*                                                                         *)
(* A pattern is [segs, params]: segments [cap, lits], a capture's          *)
(* parameter ("" for none) or the literal tokens, and the parameters in    *)
(* the order the macro declares them.                                      *)
(***************************************************************************)
EXTENDS Token

LOCAL INSTANCE SequencesExt
LOCAL INSTANCE FiniteSets

Unescaped(token) ==
    IF token.k = "Escaped" THEN Leaf(token.t, token.t) ELSE Leaf(token.k, token.t)

(* split_into_segments: `$name$` is a capture, everything else a literal.  *)
split_into_segments(toks) ==
    LET Literal(segs, token) ==
            IF segs # <<>> /\ Last(segs).cap = ""
            THEN [segs EXCEPT ![Len(segs)].lits = Append(@, Unescaped(token))]
            ELSE Append(segs, [cap |-> "", lits |-> <<Unescaped(token)>>])
        Step(acc, token) ==
            CASE acc.in = "bad" -> acc
              [] acc.in = "literal" ->
                     IF token.k = "$" THEN [acc EXCEPT !.in = "open"]
                     ELSE [acc EXCEPT !.segs = Literal(@, token)]
              [] acc.in = "open" ->
                     IF token.k = "Identifier"
                     THEN [in |-> "close",
                           segs |-> Append(acc.segs, [cap |-> token.t, lits |-> <<>>])]
                     ELSE [acc EXCEPT !.in = "bad"]
              [] acc.in = "close" ->
                     [acc EXCEPT !.in = IF token.k = "$" THEN "literal" ELSE "bad"]
    IN  FoldLeft(Step, [in |-> "literal", segs |-> <<>>], toks)

Captures(segs) == SelectSeq(segs, LAMBDA seg : seg.cap # "")

(* parse_pattern: every parameter is captured once, nothing else is, and   *)
(* something stands between two captures.                                  *)
WellFormed(split, params) ==
    LET segs == split.segs
        caps == Captures(segs)
    IN  /\ split.in = "literal"
        /\ \A i \in DOMAIN caps : caps[i].cap \in ToSet(params)
        /\ \A p \in ToSet(params) :
               Cardinality({ i \in DOMAIN caps : caps[i].cap = p }) = 1
        /\ \A i \in 1 .. Len(segs) - 1 : segs[i].cap = "" \/ segs[i + 1].cap = ""

is_anchored(pattern, name) ==
    /\ pattern.segs # <<>> /\ pattern.segs[1].cap = ""
    /\ SameToken(pattern.segs[1].lits[1], Leaf("Identifier", name))

is_operand_pattern(pattern) ==
    /\ pattern.segs # <<>> /\ pattern.segs[1].cap = ""
    /\ ~ IsWord(pattern.segs[1].lits[1])

(* A mutant: segments are counted for tokens.                              *)
SegmentCount(pattern) == Len(pattern.segs)

literal_token_count(pattern) ==
    FoldLeft(LAMBDA n, seg : n + Len(seg.lits), 0, pattern.segs)
=============================================================================
