---------------------------- MODULE MacroMeaning --------------------------
(* What a program of macros means, as the book tells it                    *)
(* (docs/book/src/macros, meta, programs/sections.md): a recursive         *)
(* definition with no stack, no counters and no pending jumps, which       *)
(* MacroRun is compared with.                                              *)
(*                                                                         *)
(* A meaning says how its statements end ("on", "return", "tail", "next"   *)
(* or "fail"), with which value, what was emitted into which section, and  *)
(* which section is open afterwards.  `c` is the call they are in: its     *)
(* macro, its depth, where `@next` leads, and the label positions.         *)
EXTENDS MacroRun

Ends(how, value, out, sec) == [how |-> how, value |-> value, out |-> out, sec |-> sec]
Failed                     == Ends("fail", None, <<>>, "default")
InFront(out, m)            == IF m.how = "fail" THEN m ELSE [m EXCEPT !.out = out \o @]

Denote(e, env, c) ==
    e.plus + (IF e.of \in DOMAIN env THEN env[e.of] ELSE IF e.of \in DOMAIN c.labels THEN c.labels[e.of] ELSE 0)

\* The parts of a program with a meaning of their own.
RECURSIVE Meant(_, _, _, _)
Body(stmts, env, sec, c)       == Meant([kind |-> "body", stmts |-> stmts], env, sec, c)
RoundsFrom(s, k, env, sec, c)  == Meant([kind |-> "rounds", s |-> s, k |-> k], env, sec, c)
Call(name, n, sec, c)          == Meant([kind |-> "call", name |-> name, n |-> n], NoEnv, sec, c)
Iterate(id, n, sec, c, tails)  == Meant([kind |-> "iterate", id |-> id, n |-> n, tails |-> tails], NoEnv, sec, c)
InTurn(names, n, sec, c)       == Meant([kind |-> "hooks", names |-> names, n |-> n], NoEnv, sec, c)

\* An invariant holds if its macro returns a truth and emits nothing.
Holds(check, n, sec, c) ==
    check = None \/ LET m == Call(check, n, sec, c) IN
                    m.how = "return" /\ m.value \notin {None, 0} /\ m.out = <<>>

\* The overload that fits: one of several that takes the integer as it is
\* before those that take it for an alias.
Pick(name, n, sec, c) ==
    LET all   == program.macros[name]
        fit   == {i \in DOMAIN all : Holds(all[i].check, n, sec, c)}
        exact == {i \in fit : all[i].check = None}
        best  == IF Cardinality(fit) > 1 /\ exact # {} THEN exact ELSE fit IN
    IF Len(all) = 1 THEN <<name, 1>>
    ELSE IF Cardinality(best) = 1 THEN <<name, CHOOSE i \in best : TRUE>> ELSE <<>>

\* A call: at most MaxDepth of them nest, and the section is the caller's
\* again afterwards.
CallMeans(name, n, sec, c) ==
    LET id == Pick(name, n, sec, c) IN
    IF id = <<>> \/ c.depth = MaxDepth THEN Failed
    ELSE LET m == Iterate(id, n, sec, [c EXCEPT !.id = id, !.depth = @ + 1, !.next = "none"], 0) IN
         IF Macro(id).leaks THEN m ELSE [m EXCEPT !.sec = sec]

IterateMeans(id, n, sec, c, tails) ==
    LET d      == Macro(id)
        before == InTurn(d.before, n, sec, c)
        body   == Body(d.body, Params(n), before.sec, c)
        after  == InTurn(d.after, n, body.sec, c) IN
    IF ~Holds(d.check, n, sec, c) \/ before.how = "fail" \/ body.how = "fail" THEN Failed
    ELSE IF body.how = "tail"
    THEN IF tails = MaxTail THEN Failed
         ELSE InFront(before.out \o body.out, Iterate(id, body.value, body.sec, c, tails + 1))
    ELSE IF after.how = "fail" \/ (d.returns /\ body.value = None) THEN Failed
    ELSE Ends("return", body.value, before.out \o body.out \o after.out, after.sec)

\* Hooks, one after the other.
InTurnMeans(names, n, sec, c) ==
    IF names = <<>> THEN Ends("on", None, <<>>, sec)
    ELSE LET m == Call(Head(names), n, sec, c) IN
         IF m.how = "fail" THEN Failed ELSE InFront(m.out, InTurn(Tail(names), n, m.sec, c))

\* A `@for` or `@fold` from round k on; its value is the last accumulator.
RoundsMean(s, k, env, sec, c) ==
    IF k = s.times THEN Ends("on", IF s.op = "fold" THEN env.acc ELSE None, <<>>, sec)
    ELSE LET next == IF s.op = "fold" THEN "fold" ELSE IF c.next = "none" THEN "none" ELSE "blocked"
             m    == Body(s.body, [env EXCEPT !.i = k], sec, [c EXCEPT !.next = next]) IN
         CASE m.how = "on"   -> InFront(m.out, RoundsFrom(s, k + 1, env, m.sec, c))
           [] m.how = "next" -> InFront(m.out, RoundsFrom(s, k + 1, [env EXCEPT !.acc = m.value], m.sec, c))
           [] OTHER          -> m

\* A call or fold m, used as its statement s says.
Used(s, m, env) ==
    LET leaves == s.op = "fold" /\ m.how \in {"return", "tail"} IN
    IF m.how = "fail" THEN Failed
    ELSE IF s.use = "expr" /\ (m.out # <<>> \/ leaves) THEN Failed
    ELSE IF leaves THEN m
    ELSE IF s.use # "statement" /\ m.value = None THEN Failed
    ELSE [m EXCEPT !.how = IF s.use = "return" THEN "return" ELSE "on"]

TailOf(s, env, sec, c) ==
    /\ s.op = "call" /\ s.use = "return" /\ s.name = c.id[1] /\ Macro(c.id).after = <<>>
    /\ Pick(s.name, Denote(s.arg, env, c), sec, c) = c.id

\* One statement of a body.
Statement(s, env, sec, c) ==
    CASE s.op = "emit"    -> Ends("on", None, <<[value |-> Denote(s.value, env, c), section |-> sec]>>, sec)
      [] s.op = "section" -> Ends("on", None, <<>>, s.name)
      [] s.op = "assert"  -> IF Denote(s.value, env, c) = 0 THEN Failed ELSE Ends("on", None, <<>>, sec)
      [] s.op = "if"      -> Body(IF Denote(s.value, env, c) # 0 THEN s.body ELSE s.other, env, sec, c)
      [] s.op = "for"     -> RoundsFrom(s, 0, env, sec, c)
      [] s.op = "fold"    -> Used(s, RoundsFrom(s, 0, [env EXCEPT !.acc = Denote(s.init, env, c)], sec, c), env)
      [] s.op = "call"    -> IF TailOf(s, env, sec, c) THEN Ends("tail", Denote(s.arg, env, c), <<>>, sec)
                             ELSE Used(s, Call(s.name, Denote(s.arg, env, c), sec, c), env)
      [] s.op = "next"    -> IF c.next = "fold" THEN Ends("next", Denote(s.value, env, c), <<>>, sec) ELSE Failed
      [] s.op = "return"  -> Ends("return", Denote(s.value, env, c), <<>>, sec)
      [] s.op = "stop"    -> Ends("return", None, <<>>, sec)

BodyMeans(stmts, env, sec, c) ==
    IF stmts = <<>> THEN Ends("on", None, <<>>, sec)
    ELSE LET s == Head(stmts)
             m == Statement(s, env, sec, c) IN
         IF m.how # "on" THEN m
         ELSE InFront(m.out, Body(Tail(stmts),
                 IF s.op \in {"call", "fold"} /\ s.use # "statement" THEN [env EXCEPT !.x = m.value] ELSE env,
                 m.sec, c))

Meant(part, env, sec, c) ==
    CASE part.kind = "body"    -> BodyMeans(part.stmts, env, sec, c)
      [] part.kind = "rounds"  -> RoundsMean(part.s, part.k, env, sec, c)
      [] part.kind = "call"    -> CallMeans(part.name, part.n, sec, c)
      [] part.kind = "iterate" -> IterateMeans(part.id, part.n, sec, c, part.tails)
      [] part.kind = "hooks"   -> InTurnMeans(part.names, part.n, sec, c)

---------------------------------------------------------------------------
\* The whole program, if its labels are at `labels`; `at` is where it finds
\* them.
TopStatement(m, s, labels) ==
    LET c == [id |-> <<>>, depth |-> 0, next |-> "none", labels |-> labels] IN
    IF m.how = "fail" THEN m
    ELSE CASE s.op = "label"   -> [m EXCEPT !.value = [l \in DOMAIN @ \cup {s.name} |-> IF l = s.name THEN Len(m.out) ELSE @[l]]]
           [] s.op = "section" -> [m EXCEPT !.sec = s.name]
           [] s.op = "call"    ->
                LET r == Call(s.name, Denote(s.arg, NoEnv, c), m.sec, c) IN
                IF r.how = "fail" THEN Failed ELSE [m EXCEPT !.out = @ \o r.out, !.sec = r.sec]

Meaning(labels) ==
    FoldLeft(LAMBDA m, s : TopStatement(m, s, labels), Ends("on", NoEnv, <<>>, "default"), program.top)

\* A finished expansion is what the program means when its labels stand
\* where it put them; a program without a meaning is refused, and only such
\* a program.
Conforms ==
    LET m == Meaning(positions) IN
    /\ phase = "done" =>
           /\ m.how # "fail" /\ m.value = positions
           /\ emitted = [k \in DOMAIN m.out |-> m.out[k].value]
           /\ sections = [k \in DOMAIN m.out |-> m.out[k].section]
    /\ phase = "failed" => m.how = "fail"

===========================================================================
