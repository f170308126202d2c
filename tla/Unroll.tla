------------------------------- MODULE Unroll -----------------------------
(* The pass that rids a program of its top-level @for, @if, @match, @fold  *)
(* (src/src/resolver/toplevel.rs), as the loader runs it on each module    *)
(* before naming its declarations, and the driver again on the whole       *)
(* program (where names are the loader's, so that modules share none).     *)
(*  One action per statement and per iteration.                   *)
(*                                                                         *)
(* Two modules: the second imports the first and sees some of its integer  *)
(* constants.                                                              *)
EXTENDS Tree

CONSTANTS
    UnrollPrograms,   \* [imported, importing : statements, sees : names]
    MaxForIterations  \* macro_body::MAX_FOR_ITERATIONS

VARIABLES
    source,    \* the program
    pass,      \* 1 and 2: the two modules; 3: everything again; 4: over
    ready,     \* what the passes over the modules produced
    exported,  \* the integer constants of the first module
    consts,    \* integer constants known so far: name -> integer
    stack,     \* statement lists and loops being unrolled, innermost last
    target,    \* where a @next would go: "none", "fold" or "for"
    pending,   \* the @next waiting for its fold, if any, as a sequence
    out,       \* the statements produced
    home,      \* the module each of them came from
    refused    \* why unrolling failed

unrollVars == <<source, pass, ready, exported, consts, stack, target, pending, out, home, refused>>

Empty == [n \in {} |-> 0]
Put(f, k, v) == [x \in DOMAIN f \cup {k} |-> IF x = k THEN v ELSE f[x]]

\* A frame is a list of statements left to unroll, or a loop with the
\* iteration it is at, its fold's accumulators and the target outside it.
Frame(is) == [is |-> is, rest |-> <<>>, node |-> Node("label"), at |-> 0, end |-> 0, done |-> 0,
              accs |-> <<>>, outer |-> "none", const |-> <<>>, module |-> 0]
Block(nodes, module) == [Frame("block") EXCEPT !.rest = nodes, !.module = module]

Top        == stack[Len(stack)]
Pop        == SubSeq(stack, 1, Len(stack) - 1)
Going      == refused = "none" /\ stack # <<>>
AtStatement == Going /\ Top.is = "block" /\ Top.rest # <<>> /\ pending = <<>>
Stmt       == Head(Top.rest)
Proceed    == stack' = Append(Pop, [Top EXCEPT !.rest = Tail(@)])
Enter(f)   == stack' = Append(Append(Pop, [Top EXCEPT !.rest = Tail(@)]), [f EXCEPT !.module = Top.module])

Refuse(why) == refused' = why /\ UNCHANGED <<stack, out, home, consts, target, pending>>
Produce(n)  == out' = Append(out, n) /\ home' = Append(home, Top.module)
Constant    == UNCHANGED <<source, pass, ready, exported>>

OwnConstNames(nodes) == {NameOf(nodes[k].parts) : k \in {j \in DOMAIN nodes : nodes[j].is = "const" /\ IsLiteral(nodes[j].parts)}}

\* The constants a module sees through its imports, unless it has its own.
Seen(nodes, theirs) == [n \in (DOMAIN theirs \cap source.sees) \ OwnConstNames(nodes) |-> theirs[n]]

UnrollInitFor(p) ==
    /\ source = p /\ pass = 1 /\ ready = <<>> /\ exported = Empty /\ consts = Empty
    /\ stack = <<Block(p.imported, 1)>> /\ target = "none" /\ pending = <<>>
    /\ out = <<>> /\ home = <<>> /\ refused = "none"
UnrollInit == \E p \in UnrollPrograms : UnrollInitFor(p)

---------------------------------------------------------------------------
(* Statements that stay.                                                   *)

Folds(n) == n.is = "const" /\ n.args[1].is = "fold"

\* A constant that is not an integer known here is not tracked.
TakeConst ==
    /\ AtStatement /\ Stmt.is = "const" /\ ~Folds(Stmt)
    /\ LET name  == Folded(Stmt.parts, consts)
           value == Eval(Stmt.args[1], consts) IN
       IF name.why # "none" THEN Refuse(name.why)
       ELSE /\ consts' = IF value.why = "none" THEN Put(consts, name.name, value.int) ELSE consts
            /\ Produce([Stmt EXCEPT !.parts = Literal(name.name)])
            /\ Proceed /\ UNCHANGED <<target, pending, refused>>
    /\ Constant

TakeDeclaration ==
    /\ AtStatement /\ Stmt.is \in {"struct", "enum", "type", "macro"}
    /\ LET name == Folded(Stmt.parts, consts) IN
       IF name.why # "none" THEN Refuse(name.why)
       ELSE /\ Produce([Stmt EXCEPT !.parts = Literal(name.name)])
            /\ Proceed /\ UNCHANGED <<consts, target, pending, refused>>
    /\ Constant

TakeOther ==
    /\ AtStatement /\ Stmt.is \in {"invoke", "label"}
    /\ Produce(Stmt) /\ Proceed
    /\ UNCHANGED <<consts, target, pending, refused>> /\ Constant

---------------------------------------------------------------------------
(* Statements that are unrolled.                                           *)

EnterIf ==
    /\ AtStatement /\ Stmt.is = "if"
    /\ LET value == Eval(Stmt.args[1], consts) IN
       IF value.why # "none" THEN Refuse(value.why)
       ELSE /\ Enter(Block(Stmt.scopes[IF value.int # 0 THEN 1 ELSE 2].nodes, 0))
            /\ UNCHANGED <<consts, target, pending, out, home, refused>>
    /\ Constant

\* Patterns are evaluated up to the first that matches.
MatchedArm(n) ==
    LET value  == Eval(n.args[1], consts)
        arms   == DOMAIN n.scopes
        tried(k) == IF k + 1 \in DOMAIN n.args THEN Eval(n.args[k + 1], consts) ELSE value
        stops  == {k \in arms : tried(k).why # "none" \/ tried(k).int = value.int}
    IN IF value.why # "none" THEN [why |-> value.why, arm |-> 0]
       ELSE IF stops = {} THEN [why |-> "none", arm |-> 0]
       ELSE LET k == CHOOSE k \in stops : \A j \in stops : k <= j IN [why |-> tried(k).why, arm |-> k]

EnterMatch ==
    /\ AtStatement /\ Stmt.is = "match"
    /\ LET chosen == MatchedArm(Stmt) IN
       IF chosen.why # "none" THEN Refuse(chosen.why)
       ELSE /\ IF chosen.arm = 0 THEN Proceed ELSE Enter(Block(Stmt.scopes[chosen.arm].nodes, 0))
            /\ UNCHANGED <<consts, target, pending, out, home, refused>>
    /\ Constant

\* What is wrong with a loop's header: its variable must still be a name,
\* its source a range with constant bounds.
HeaderError(n) ==
    IF n.args[1].is # "name" THEN "internal"
    ELSE IF n.args[2].is \notin {"range", "range to"} THEN "range required"
    ELSE "none"
Bounds(n) ==
    LET start == Eval(n.args[2].args[1], consts)
        end   == Eval(n.args[2].args[2], consts)
    IN [why |-> IF start.why # "none" THEN start.why ELSE end.why, at |-> start.int,
        end |-> IF n.args[2].is = "range to" THEN end.int ELSE end.int - 1]

Loop(n, bounds) == [Frame(n.is) EXCEPT !.node = n, !.at = bounds.at, !.end = bounds.end, !.outer = target]

EnterFor ==
    /\ AtStatement /\ Stmt.is = "for"
    /\ IF HeaderError(Stmt) # "none" THEN Refuse(HeaderError(Stmt))
       ELSE IF Bounds(Stmt).why # "none" THEN Refuse(Bounds(Stmt).why)
       ELSE Enter(Loop(Stmt, Bounds(Stmt))) /\ UNCHANGED <<consts, target, pending, out, home, refused>>
    /\ Constant

\* `unroll_fold`: the header, the accumulators' names and initial values,
\* then the bounds.
AccumulatorsClash(n) ==
    LET names == n.names IN
    \E k \in DOMAIN names : names[k] = n.args[1].name \/ \E j \in 1..(k - 1) : names[j] = names[k]
Initial(n) == [k \in DOMAIN n.names |-> Eval(n.args[k + 2], consts)]
InitialError(n) ==
    LET bad == {k \in DOMAIN n.names : Initial(n)[k].why # "none"}
        why == Initial(n)[CHOOSE k \in bad : \A j \in bad : k <= j].why
    IN IF bad = {} THEN "none" ELSE IF why = "not constant" THEN "fold" ELSE why
FoldError(n) ==
    IF HeaderError(n) # "none" THEN HeaderError(n)
    ELSE IF AccumulatorsClash(n) THEN "fold"
    ELSE IF InitialError(n) # "none" THEN InitialError(n)
    ELSE Bounds(n).why

\* A fold stands alone, or is the whole value of a constant.
EnterFold ==
    /\ AtStatement /\ (Stmt.is = "fold" \/ Folds(Stmt))
    /\ LET fold == IF Stmt.is = "fold" THEN Stmt ELSE Stmt.args[1]
           name == Folded(Stmt.parts, consts)
       IN IF name.why # "none" THEN Refuse(name.why)
          ELSE IF FoldError(fold) # "none" THEN Refuse(FoldError(fold))
          ELSE /\ Enter([Loop(fold, Bounds(fold)) EXCEPT
                           !.accs = [k \in DOMAIN fold.names |-> Initial(fold)[k].int],
                           !.const = IF Stmt.is = "fold" THEN <<>> ELSE <<[Stmt EXCEPT !.parts = Literal(name.name)]>>])
               /\ UNCHANGED <<consts, target, pending, out, home, refused>>
    /\ Constant

TakeNext ==
    /\ AtStatement /\ Stmt.is = "next"
    /\ LET values == [k \in DOMAIN Stmt.args |-> Eval(Stmt.args[k], consts)]
           bad    == {k \in DOMAIN values : values[k].why # "none"} IN
       IF target # "fold" THEN Refuse("fold")
       ELSE IF bad # {} THEN Refuse(values[CHOOSE k \in bad : \A j \in bad : k <= j].why)
       ELSE /\ pending' = <<[names |-> Stmt.names, ints |-> [k \in DOMAIN values |-> values[k].int]]>>
            /\ Proceed /\ UNCHANGED <<consts, target, out, home, refused>>
    /\ Constant

RefuseMeta == AtStatement /\ Stmt.is = "emit" /\ Refuse("meta outside macro") /\ Constant

---------------------------------------------------------------------------
(* Loops.                                                                  *)

\* `int_literal` for the variable and every accumulator.
Bindings(f) ==
    LET names == <<f.node.args[1].name>> \o f.node.names
        ints  == <<f.at>> \o f.accs
    IN [n \in {names[k] : k \in DOMAIN names} |-> IntLiteral(ints[CHOOSE k \in DOMAIN names : names[k] = n])]

AtLoop  == Going /\ Top.is \in {"for", "fold"} /\ pending = <<>>
HasTurn == Top.at <= Top.end

Turn ==
    /\ AtLoop /\ HasTurn
    /\ IF Top.done = MaxForIterations THEN Refuse("loop too large")
       ELSE /\ stack' = Append(Append(Pop, [Top EXCEPT !.at = @ + 1, !.done = @ + 1]),
                               Block(SubstituteAll(Top.node.scopes[1].nodes, Bindings(Top)), Top.module))
            /\ target' = IF Top.is = "fold" THEN "fold" ELSE IF Top.outer = "none" THEN "none" ELSE "for"
            /\ UNCHANGED <<consts, pending, out, home, refused>>
    /\ Constant

\* The fields of a fold's result, and a value of it, when there are several.
ResultName(const) == <<"__fold$">> \o NameOf(const.parts)
ResultStruct(f)   == Struct(Literal(ResultName(f.const[1])), {}, [k \in DOMAIN f.node.names |-> Field(Literal(f.node.names[k]), <<>>)])
ResultValue(f)    == Call(Name(ResultName(f.const[1])), [k \in DOMAIN f.accs |-> IntLiteral(f.accs[k])])

LeaveFoldInPlace ==
    /\ AtLoop /\ ~HasTurn
    /\ stack' = Pop /\ target' = Top.outer
    /\ IF Top.const = <<>> THEN UNCHANGED <<consts, out, home>>
       ELSE /\ out' = Append(out, Top.const[1])
            /\ home' = Append(home, Top.module)
            /\ consts' = IF Len(Top.accs) = 1 THEN Put(consts, NameOf(Top.const[1].parts), Top.accs[1]) ELSE consts
    /\ UNCHANGED <<pending, refused>> /\ Constant

LeaveLoop ==
    /\ AtLoop /\ ~HasTurn
    /\ stack' = Pop /\ target' = Top.outer
    /\ IF Top.const = <<>> THEN UNCHANGED <<consts, out, home>>
       ELSE LET const == Top.const[1] IN
            IF Len(Top.accs) = 1
            THEN /\ consts' = Put(consts, NameOf(const.parts), Top.accs[1])
                 /\ Produce([const EXCEPT !.args = <<IntLiteral(Top.accs[1])>>])
            ELSE /\ out' = out \o <<ResultStruct(Top), [const EXCEPT !.args = <<ResultValue(Top)>>]>>
                 /\ home' = home \o <<Top.module, Top.module>>
                 /\ UNCHANGED consts
    /\ UNCHANGED <<pending, refused>> /\ Constant

\* `apply_next`, when an iteration of a fold ends with a @next waiting.
Updated(f, next) ==
    IF next.names = <<>> THEN next.ints
    ELSE [k \in DOMAIN f.accs |->
            IF \E j \in DOMAIN next.names : next.names[j] = f.node.names[k]
            THEN next.ints[CHOOSE j \in DOMAIN next.names : next.names[j] = f.node.names[k]] ELSE f.accs[k]]
Applies(f, next) ==
    IF next.names = <<>> THEN Len(f.accs) = 1
    ELSE \A j \in DOMAIN next.names :
            /\ \A h \in 1..(j - 1) : next.names[h] # next.names[j]
            /\ \E k \in DOMAIN f.node.names : f.node.names[k] = next.names[j]

ApplyNext ==
    /\ Going /\ Top.is = "fold" /\ pending # <<>>
    /\ IF ~Applies(Top, pending[1]) THEN Refuse("fold")
       ELSE /\ stack' = Append(Pop, [Top EXCEPT !.accs = Updated(Top, pending[1])])
            /\ pending' = <<>> /\ UNCHANGED <<consts, target, out, home, refused>>
    /\ Constant

---------------------------------------------------------------------------
(* The end of a list, of a module, and of the program.                     *)

\* A waiting @next drops the rest of every list up to its fold; the target
\* in force outside a loop's body is back once the body's list is left.
LeaveBlock ==
    /\ Going /\ Len(stack) > 1 /\ Top.is = "block" /\ (Top.rest = <<>> \/ pending # <<>>)
    /\ stack' = Pop
    /\ target' = IF stack[Len(stack) - 1].is = "block" THEN target ELSE stack[Len(stack) - 1].outer
    /\ UNCHANGED <<consts, pending, out, home, refused>> /\ Constant

\* One name, one declaration in a module, but macros overload.
Named(nodes) == {k \in DOMAIN nodes : nodes[k].is \in {"const", "struct", "enum", "type", "macro", "label"}}
OwnName(n) == IF n.is = "label" THEN n.name ELSE NameOf(n.parts)
Clash(nodes) ==
    \E j, k \in Named(nodes) : /\ j < k /\ OwnName(nodes[j]) = OwnName(nodes[k])
                                /\ ~(nodes[j].is = "macro" /\ nodes[k].is = "macro")

IntegersOf(nodes) ==
    LET own == OwnConstNames(nodes) \cap DOMAIN consts IN [n \in own |-> consts[n]]

AtModuleEnd == Going /\ Len(stack) = 1 /\ Top.rest = <<>>

EndModule ==
    /\ AtModuleEnd /\ pass < 3 /\ UNCHANGED source
    /\ IF Clash(out) THEN Refuse("duplicate") /\ UNCHANGED <<pass, ready, exported>>
       ELSE /\ ready' = Append(ready, out) /\ pass' = pass + 1
            /\ out' = <<>> /\ home' = <<>> /\ UNCHANGED <<target, pending, refused>>
            /\ IF pass = 1
               THEN /\ exported' = IntegersOf(out)
                    /\ consts' = Seen(source.importing, exported')
                    /\ stack' = <<Block(source.importing, 2)>>
               ELSE /\ consts' = Empty /\ UNCHANGED exported
                    /\ stack' = <<Block(out, 2), Block(ready[1], 1)>>

EndProgram ==
    /\ AtModuleEnd /\ pass = 3
    /\ pass' = 4 /\ stack' = <<>>
    /\ UNCHANGED <<source, ready, exported, consts, target, pending, out, home, refused>>

UnrollEnded == pass = 4 \/ refused # "none"
Rest == UnrollEnded /\ UNCHANGED unrollVars

Unrolling ==
    \/ TakeConst \/ TakeDeclaration \/ TakeOther
    \/ EnterIf \/ EnterMatch \/ EnterFor \/ EnterFold \/ TakeNext \/ RefuseMeta
    \/ Turn \/ LeaveLoop \/ ApplyNext \/ LeaveBlock
    \/ EndModule \/ EndProgram \/ Rest

===========================================================================
