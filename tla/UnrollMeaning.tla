---------------------------- MODULE UnrollMeaning --------------------------
(* What an unrolled program must mean: its source, run directly with the   *)
(* loop variables and accumulators in an environment, nothing substituted. *)
EXTENDS Unroll, FiniteSets

---------------------------------------------------------------------------
(* Reading a statement: its text with what is known put in.  A name bound  *)
(* inside it reads as a probe, as if a caller had passed that.             *)

Probe == 77
Under(binds, locals) == [n \in DOMAIN locals \cup binds |-> IF n \in binds THEN Probe ELSE locals[n]]

\* Places of a node's arguments that are names it binds, not expressions.
Binders(n) == IF n.is \in {"for", "fold"} THEN {1} ELSE {}

RECURSIVE Reading(_, _)
Reading(n, locals) ==
    IF n.is # "spliced" /\ Eval(n, locals).why = "none" THEN ToString(Eval(n, locals).int)
    ELSE ToString(<<n.is, n.name,
            [k \in DOMAIN n.parts |-> IF n.parts[k].is = "text" THEN n.parts[k].name[1] ELSE Reading(n.parts[k], locals)],
            [k \in DOMAIN n.args |-> IF k \in Binders(n) THEN ToString(n.args[k].name) ELSE Reading(n.args[k], locals)],
            n.names,
            [k \in DOMAIN n.scopes |-> [j \in DOMAIN n.scopes[k].nodes |->
                Reading(n.scopes[k].nodes[j], Under(n.scopes[k].binds, locals))]]>>)

---------------------------------------------------------------------------
(* Running a module's statements.  `run` carries the constants known, the  *)
(* values of the names loops bind, where a @next would go and the one that *)
(* was given, what went wrong, and the readings of what was produced.      *)

Starting(known) == [known |-> known, locals |-> Empty, goes |-> "none", next |-> <<>>, why |-> "none", made |-> <<>>]

Both(run)       == [n \in DOMAIN run.known \cup DOMAIN run.locals |->
                        IF n \in DOMAIN run.locals THEN run.locals[n] ELSE run.known[n]]
Worth(run, e)   == Eval(e, Both(run))
Fails(run, why) == [run EXCEPT !.why = why]
Makes(run, n)   == [run EXCEPT !.made = Append(@, Reading(n, run.locals))]
Knows(run, n, v) == [run EXCEPT !.known = Put(@, n, v)]
Outside(run, inner) == [inner EXCEPT !.locals = run.locals, !.goes = run.goes]

\* What is wrong first in a list of expressions.
Wrong(run, es) ==
    LET bad == {k \in DOMAIN es : Worth(run, es[k]).why # "none"} IN
    IF bad = {} THEN "none" ELSE Worth(run, es[CHOOSE k \in bad : \A j \in bad : k <= j]).why

\* A loop under way: the loop, the constant its fold is for, the value its
\* variable has next, the last one, and its accumulators.
Rounds(loop, const, at, end, accs) ==
    [is |-> "rounds", loop |-> loop, const |-> const, at |-> at, end |-> end, accs |-> accs]
LoopLocals(r) ==
    LET names == <<r.loop.args[1].name>> \o r.loop.names
        ints  == <<r.at>> \o r.accs
    IN [n \in {names[k] : k \in DOMAIN names} |-> ints[CHOOSE k \in DOMAIN names : names[k] = n]]
Inside(run, r) == [run EXCEPT !.locals = LoopLocals(r) @@ @,
                              !.goes = IF r.loop.is = "fold" THEN "fold" ELSE IF @ = "none" THEN "none" ELSE "for"]

Repeats(names) == \E j, k \in DOMAIN names : j # k /\ names[j] = names[k]
CannotStart(run, loop) ==
    LET initial == Wrong(run, SubSeq(loop.args, 3, Len(loop.args))) IN
    IF loop.args[2].is \notin {"range", "range to"} THEN "range required"
    ELSE IF Repeats(Append(loop.names, loop.args[1].name)) THEN "fold"
    ELSE IF initial = "not constant" THEN "fold"
    ELSE IF initial # "none" THEN initial
    ELSE Wrong(run, loop.args[2].args)
FirstRound(run, loop, const) ==
    LET at(k) == Worth(run, loop.args[2].args[k]).int IN
    Rounds(loop, const, at(1), IF loop.args[2].is = "range" THEN at(2) - 1 ELSE at(2),
           [k \in DOMAIN loop.names |-> Worth(run, loop.args[k + 2]).int])

\* A @next gives the only accumulator, or some of them by name, each once.
Accepts(r, next) ==
    IF next.names = <<>> THEN Len(r.accs) = 1
    ELSE /\ \A j \in DOMAIN next.names : \E k \in DOMAIN r.loop.names : r.loop.names[k] = next.names[j]
         /\ ~Repeats(next.names)
After(r, next) ==
    IF next.names = <<>> THEN next.ints
    ELSE LET given(k) == {j \in DOMAIN next.names : next.names[j] = r.loop.names[k]} IN
         [k \in DOMAIN r.accs |-> IF given(k) = {} THEN r.accs[k] ELSE next.ints[CHOOSE j \in given(k) : TRUE]]

\* The constant is worth the accumulator, or a construction of a structure
\* made for it when there are several.
Concludes(run, r) ==
    LET name == r.const[1] IN
    IF r.const = <<>> THEN run
    ELSE IF Len(r.accs) = 1
    THEN Makes(Knows(run, name, r.accs[1]), Const(Literal(name), IntOf(r.accs[1])))
    ELSE Makes(Makes(run, Struct(Literal(<<"__fold$">> \o name), {},
                                 [k \in DOMAIN r.accs |-> Field(Literal(r.loop.names[k]), <<>>)])),
               Const(Literal(name), Call(Name(<<"__fold$">> \o name), [k \in DOMAIN r.accs |-> IntOf(r.accs[k])])))

\* The first arm whose pattern is the value, or cannot be read.
Arm(run, n) ==
    LET hit(k) == k + 1 \notin DOMAIN n.args \/ Worth(run, n.args[k + 1]).why # "none"
                  \/ Worth(run, n.args[k + 1]).int = Worth(run, n.args[1]).int
    IN {k \in DOMAIN n.scopes : hit(k) /\ \A j \in 1..(k - 1) : ~hit(j)}
ArmError(run, n) == Wrong(run, <<n.args[1]>> \o [k \in 1..Cardinality({j \in Arm(run, n) : j + 1 \in DOMAIN n.args}) |->
                                                    n.args[1 + CHOOSE j \in Arm(run, n) : TRUE]])

RECURSIVE Run(_, _)
Run(nodes, run) ==
    IF nodes = <<>> \/ run.why # "none" \/ run.next # <<>> THEN run
    ELSE
    LET n    == Head(nodes)
        then(done) == Run(Tail(nodes), done)
        within(body) == then(Outside(run, Run(body, run)))
        begins(loop, const) ==
            IF CannotStart(run, loop) # "none" THEN Fails(run, CannotStart(run, loop))
            ELSE Run(<<FirstRound(run, loop, const)>> \o Tail(nodes), run)
        round == Run(n.loop.scopes[1].nodes, Inside(run, n))
        name  == Folded(n.parts, Both(run))
        named == [n EXCEPT !.parts = Literal(name.name)]
        value == Worth(run, n.args[1])
    IN
    CASE n.is \in {"invoke", "label"} -> then(Makes(run, n))
      [] n.is = "emit" -> Fails(run, "meta outside macro")
      [] n.is \in {"struct", "enum", "type", "macro", "const"} /\ name.why # "none" -> Fails(run, name.why)
      [] n.is \in {"struct", "enum", "type", "macro"} /\ name.why = "none" -> then(Makes(run, named))
      [] n.is = "const" /\ name.why = "none" ->
            IF n.args[1].is = "fold" THEN begins(n.args[1], <<name.name>>)
            ELSE then(Makes(IF value.why = "none" THEN Knows(run, name.name, value.int) ELSE run, named))
      [] n.is = "if" -> IF value.why # "none" THEN Fails(run, value.why)
                        ELSE within(n.scopes[IF value.int = 0 THEN 2 ELSE 1].nodes)
      [] n.is = "match" -> IF ArmError(run, n) # "none" THEN Fails(run, ArmError(run, n))
                           ELSE IF Arm(run, n) = {} THEN then(run)
                           ELSE within(n.scopes[CHOOSE k \in Arm(run, n) : TRUE].nodes)
      [] n.is \in {"for", "fold"} -> begins(n, <<>>)
      [] n.is = "next" ->
            IF run.goes # "fold" THEN Fails(run, "fold")
            ELSE IF Wrong(run, n.args) # "none" THEN Fails(run, Wrong(run, n.args))
            ELSE [run EXCEPT !.next = <<[names |-> n.names, ints |-> [k \in DOMAIN n.args |-> Worth(run, n.args[k]).int]]>>]
      [] n.is = "rounds" ->
            IF n.at > n.end THEN then(Concludes(run, n))
            ELSE IF round.why # "none" THEN Fails(run, round.why)
            ELSE IF round.next # <<>> /\ n.loop.is = "fold"
            THEN IF ~Accepts(n, round.next[1]) THEN Fails(run, "fold")
                 ELSE Run(<<[n EXCEPT !.at = @ + 1, !.accs = After(n, round.next[1])]>> \o Tail(nodes),
                          [Outside(run, round) EXCEPT !.next = <<>>])
            ELSE Run(<<[n EXCEPT !.at = @ + 1]>> \o Tail(nodes), Outside(run, round))

---------------------------------------------------------------------------
(* The two modules, and what unrolling them comes to.                      *)

Imported == Run(source.imported, Starting(Empty))
Importing ==
    Run(source.importing, Starting([n \in (DOMAIN Imported.known \cap source.sees) \ OwnConstNames(source.importing) |->
                                       Imported.known[n]]))

Readings(nodes) == [k \in DOMAIN nodes |-> Reading(nodes[k], Empty)]

(* Unrolling keeps a program's meaning: each module's declarations and     *)
(* invocations, in order, read as they do when the source is run with its  *)
(* loop variables and accumulators in an environment, whatever the nesting *)
(* of @for, @if, @match and @fold, whatever names declarations inside them *)
(* bind anew, and whichever constants are imported.                        *)
SameMeaning ==
    /\ pass \in {2, 3} => Readings(ready[1]) = Imported.made
    /\ pass = 3 => Readings(ready[2]) = Importing.made

(* Unrolling is refused for the reason the source's own run first meets,   *)
(* and for no other but its limits: too many iterations, or two            *)
(* declarations of a name in a module.                                     *)
RefusedForTheSame ==
    /\ refused \notin {"none", "loop too large", "duplicate"} =>
           refused = IF pass = 1 THEN Imported.why ELSE Importing.why
    /\ pass = 2 => Imported.why = "none"
    /\ pass >= 3 => Importing.why = "none"

(* What is unrolled means what the source means, and what has no meaning   *)
(* is refused for it.                                                      *)
MeansTheSame == SameMeaning /\ RefusedForTheSame

(* The driver's second pass over the whole program finds nothing left to   *)
(* unroll: it keeps every statement, each attributed to the module whose   *)
(* pass produced it, which decides what private fields it may read.        *)
UnrolledStays ==
    pass = 4 =>
        /\ out = ready[1] \o ready[2]
        /\ \A k \in DOMAIN out : home[k] = IF k <= Len(ready[1]) THEN 1 ELSE 2

(* A loop's variable is a binding the loop introduces, so an enclosing     *)
(* loop over the same name leaves it alone (src/src/expander.rs says it    *)
(* is shadowed out).                                                       *)
LoopVariablesStay ==
    \A f \in DOMAIN stack : \A k \in DOMAIN stack[f].rest :
        stack[f].rest[k].is \in {"for", "fold"} => stack[f].rest[k].args[1].is = "name"

===========================================================================
