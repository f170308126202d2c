------------------------------ MODULE MacroRun ----------------------------
(* Running macros: the compile driver's walk over the top-level statements *)
(* (src/src/main.rs), twice if a label was read before its position was    *)
(* known, and the macro runner and folds under it (src/src/resolver/       *)
(* macro_body.rs, fold.rs, and the calls of values.rs).                    *)
(*                                                                         *)
(* The recursion of the code is `control`, one frame per active function;  *)
(* `doing` says whether the top frame goes on, receives the answer of the  *)
(* frame that was above it, or is left by an error.  What the code keeps   *)
(* in the resolver, to be saved and restored around the recursion, is in   *)
(* `context` and `pending`; what outlives every call, in the other         *)
(* variables.                                                              *)
(*                                                                         *)
(* A program's data is integers, and every macro has one parameter n.  An  *)
(* expression is a variable, a label or "0", plus a number; calls and      *)
(* folds are statements that say what becomes of their value: nothing      *)
(* ("statement"), a const x's whole value ("value"), part of the larger    *)
(* expression x is computed from ("expr"), or `@return`'s ("return").      *)
(* `@if` stands for `@match` too: one of two bodies is walked.             *)
EXTENDS Integers, Sequences, FiniteSets, SequencesExt

CONSTANTS
    Programs,   \* [macros : name -> its overloads, top : the top-level statements]
    Labels,     \* top-level labels
    None,       \* no value, no name
    MaxDepth,   \* MAX_MACRO_CALL_DEPTH
    MaxTail     \* MAX_TAIL_CALLS

ASSUME LimitAssumption == MaxDepth \in Nat \ {0} /\ MaxTail \in Nat

ASSUME NoneAssumption == None \notin Int /\ None \notin Labels

ASSUME ProgramAssumption ==
    \A p \in Programs : /\ p.top \in Seq(ToSet(p.top))
                        /\ \A s \in ToSet(p.top) : s.op = "label" => s.name \in Labels

MainModule == "main"

VARIABLES
    program,    \* fixed
    pass,       \* LabelMode: "tolerant", then "strict" if that guessed
    phase,      \* "walking", "done" or "failed"
    at,         \* the top-level statement
    control,    \* the active functions
    doing,      \* "run", "deliver" or "unwind"
    answer,     \* what is delivered
    context,    \* next_target, current_section and current_module
    pending,    \* pending_tail_call and pending_next
    count,      \* values_emitted
    sections,   \* emitted_sections
    positions,  \* label_positions
    guessed,    \* used_forward_label_placeholder
    blame,      \* error_module: no module, or one
    emitted,    \* what the driver collected
    origin,     \* history: the module in force where the last error arose
    swallowed   \* history: an error was recovered from

vars == <<program, pass, phase, at, control, doing, answer, context, pending, count, sections,
          positions, guessed, blame, emitted, origin, swallowed>>

Driver  == <<program, pass, phase, at, emitted>>
Stream  == <<count, sections>>
Errors  == <<blame, origin, swallowed>>

---------------------------------------------------------------------------
(* Frames.                                                                 *)

Macro(id) == program.macros[id[1]][id[2]]

Fresh     == [target |-> "none", section |-> "default", module |-> MainModule]
NoPending == [tail |-> None, next |-> None]
NoAnswer  == [out |-> <<>>, returned |-> None, exited |-> FALSE]

\* `resolve_macro_overload`, on its way to run the macro or, for a tail
\* call, to see whether it is the running one.
Choosing(name, arg, why) ==
    [kind |-> "choose", name |-> name, arg |-> arg, why |-> why, tried |-> 0, fit |-> {}]

\* `run_macro_body_inner`.
Calling(id, arg) ==
    [kind |-> "call", id |-> id, arg |-> arg, stage |-> "bind", hook |-> 0, tails |-> 0,
     out |-> <<>>, returned |-> None, saved |-> context]

\* `walk_macro_body`, and in it the rounds of a `@for` or of `run_fold`.
Walking(stmts, env) == [kind |-> "body", stmts |-> stmts, at |-> 1, env |-> env, out |-> <<>>]
Looping(kind, s, env) ==
    [kind |-> kind, times |-> s.times, round |-> 0, stmts |-> s.body, env |-> env,
     out |-> <<>>, outer |-> context.target]

Top        == Last(control)
Below      == Front(control)
Replace(f) == Append(Below, f)
Push(f)    == Append(control, f)
Calls      == {k \in DOMAIN control : control[k].kind = "call"}
Innermost  == CHOOSE k \in Calls : \A j \in Calls : j <= k
Running    == control[Innermost].id

Continue(frames) == control' = frames /\ doing' = "run" /\ answer' = NoAnswer
Deliver(frames, out, returned, exited) ==
    /\ control' = frames /\ doing' = "deliver"
    /\ answer' = [out |-> out, returned |-> returned, exited |-> exited]
Raise(frames) ==
    /\ control' = frames /\ doing' = "unwind" /\ answer' = NoAnswer
    /\ origin' = context.module

At(mode, kinds) == phase = "walking" /\ doing = mode /\ control # <<>> /\ Top.kind \in kinds

---------------------------------------------------------------------------
(* Values.                                                                 *)

\* A label whose position is not known yet is a placeholder 0.
Eval(e, env) == e.plus + (IF e.of \in DOMAIN env THEN env[e.of]
                          ELSE IF e.of \in DOMAIN positions THEN positions[e.of] ELSE 0)
Guess(e)     == guessed' = (guessed \/ e.of \in Labels \ DOMAIN positions)

NoEnv      == [v \in {} |-> 0]
Params(n)  == [v \in {"n", "i", "acc", "x"} |-> IF v = "n" THEN n ELSE 0]

---------------------------------------------------------------------------
Init ==
    /\ program \in Programs
    /\ pass = "tolerant" /\ phase = "walking" /\ at = 1 /\ emitted = <<>>
    /\ control = <<>> /\ doing = "run" /\ answer = NoAnswer
    /\ context = Fresh /\ pending = NoPending
    /\ count = 0 /\ sections = <<>>
    /\ positions = [l \in {} |-> 0] /\ guessed = FALSE
    /\ blame = {} /\ origin = None /\ swallowed = FALSE

(* The driver: `walk_top_level` and the two passes.                        *)
(* Here and below, a definition with a slip (SecondPassCountingOn, ...)    *)
(* stands before the one it is a slip of, for testing the properties; no   *)
(* specification here uses it.                                             *)

AtTop(op) ==
    /\ phase = "walking" /\ doing = "run" /\ control = <<>>
    /\ at <= Len(program.top) /\ program.top[at].op = op

WalkLabel ==
    /\ AtTop("label")
    /\ LET l == program.top[at].name IN
       positions' = [k \in DOMAIN positions \cup {l} |-> IF k = l THEN count ELSE positions[k]]
    /\ at' = at + 1
    /\ UNCHANGED <<program, pass, phase, emitted, control, doing, answer, context, pending, Stream, guessed, Errors>>

WalkSection ==
    /\ AtTop("section")
    /\ context' = [context EXCEPT !.section = program.top[at].name]
    /\ at' = at + 1
    /\ UNCHANGED <<program, pass, phase, emitted, control, doing, answer, pending, Stream, positions, guessed, Errors>>

WalkInvocation ==
    /\ AtTop("call")
    /\ LET s == program.top[at] IN
       Continue(Push(Choosing(s.name, Eval(s.arg, NoEnv), "run"))) /\ Guess(s.arg)
    /\ UNCHANGED <<Driver, context, pending, Stream, positions, Errors>>

Collect ==
    /\ phase = "walking" /\ doing = "deliver" /\ control = <<>>
    /\ emitted' = emitted \o answer.out
    /\ at' = at + 1
    /\ Continue(control)
    /\ UNCHANGED <<program, pass, phase, context, pending, Stream, positions, guessed, Errors>>

ReportError ==
    /\ phase = "walking" /\ doing = "unwind" /\ control = <<>>
    /\ phase' = "failed"
    /\ blame' = IF blame = {} THEN {MainModule} ELSE blame
    /\ UNCHANGED <<program, pass, at, emitted, control, doing, answer, context, pending, Stream,
                   positions, guessed, origin, swallowed>>

AtEnd == phase = "walking" /\ doing = "run" /\ control = <<>> /\ at = Len(program.top) + 1

SecondPass ==
    /\ AtEnd /\ pass = "tolerant" /\ guessed
    /\ pass' = "strict" /\ at' = 1 /\ emitted' = <<>>
    /\ context' = Fresh /\ pending' = NoPending
    /\ count' = 0 /\ sections' = <<>> /\ guessed' = FALSE
    /\ blame' = {} /\ origin' = None /\ swallowed' = FALSE
    /\ UNCHANGED <<program, phase, control, doing, answer, positions>>

Finish ==
    /\ AtEnd /\ (pass = "strict" \/ ~guessed)
    /\ phase' = "done"
    /\ UNCHANGED <<program, pass, at, emitted, control, doing, answer, context, pending, Stream,
                   positions, guessed, Errors>>

---------------------------------------------------------------------------
(* Choosing an overload.  All data being integers, an overload fits by its *)
(* type alone unless the parameter's type is an alias of int whose         *)
(* invariant, a call of the macro `check`, has to be tried.  A macro that  *)
(* is not overloaded is chosen without trying.                             *)

Candidates == program.macros[Top.name]
Untried    == Candidates[Top.tried + 1]
NeedsProbe == Len(Candidates) > 1 /\ Untried.check # None
Tried(fits) ==
    [Top EXCEPT !.tried = @ + 1, !.fit = IF fits THEN @ \cup {Top.tried + 1} ELSE @]

\* Whether a call in a larger expression gave the truth it was asked for.
Truthy(a)    == a.out = <<>> /\ a.returned \notin {None, 0}

FitByType ==
    /\ At("run", {"choose"}) /\ Top.tried < Len(Candidates) /\ ~NeedsProbe
    /\ Continue(Replace(Tried(TRUE)))
    /\ UNCHANGED <<Driver, context, pending, Stream, positions, guessed, Errors>>

Probe ==
    /\ At("run", {"choose"}) /\ Top.tried < Len(Candidates) /\ NeedsProbe
    /\ Continue(Push(Choosing(Untried.check, Top.arg, "run")))
    /\ UNCHANGED <<Driver, context, pending, Stream, positions, guessed, Errors>>

\* Values emitted while trying an overload are an error too, recovered from.
JudgeProbe ==
    /\ At("deliver", {"choose"})
    /\ Continue(Replace(Tried(Truthy(answer))))
    /\ swallowed' = (swallowed \/ answer.out # <<>>)
    /\ UNCHANGED <<Driver, context, pending, Stream, positions, guessed, blame, origin>>

\* The error of a probe only says that the overload does not fit.
SwallowError ==
    /\ At("unwind", {"choose"})
    /\ Continue(Replace(Tried(FALSE)))
    /\ swallowed' = TRUE
    /\ UNCHANGED <<Driver, context, pending, Stream, positions, guessed, blame, origin>>

Exact(fit)  == {i \in fit : Candidates[i].check = None}
Chosen      == LET best == IF Cardinality(Top.fit) > 1 /\ Exact(Top.fit) # {} THEN Exact(Top.fit) ELSE Top.fit
               IN  {<<Top.name, i>> : i \in best}
Decided     == At("run", {"choose"}) /\ Top.tried = Len(Candidates) /\ Cardinality(Chosen) = 1
ChosenOne   == CHOOSE id \in Chosen : TRUE

ChooseNone ==
    /\ At("run", {"choose"}) /\ Top.tried = Len(Candidates) /\ Cardinality(Chosen) # 1
    /\ Raise(Below)
    /\ UNCHANGED <<Driver, context, pending, Stream, positions, guessed, blame, swallowed>>

\* `@return` of the running macro itself: its body ends, and its call goes
\* round again with the new argument.
TailCall ==
    /\ Decided /\ Top.why = "tail" /\ ChosenOne = Running
    /\ pending' = [pending EXCEPT !.tail = Top.arg]
    /\ Deliver(Front(Below), Last(Below).out, None, FALSE)
    /\ UNCHANGED <<Driver, context, Stream, positions, guessed, Errors>>

\* It is another overload, which the call chooses all over again.
NotTailCall ==
    /\ Decided /\ Top.why = "tail" /\ ChosenOne # Running
    /\ Continue(Replace(Choosing(Top.name, Top.arg, "run")))
    /\ UNCHANGED <<Driver, context, pending, Stream, positions, guessed, Errors>>

---------------------------------------------------------------------------
(* `run_macro_body_inner`.                                                 *)

DepthLeft == Cardinality(Calls) < MaxDepth

EnterCall ==
    /\ Decided /\ Top.why = "run"
    /\ IF DepthLeft
       THEN /\ Continue(Replace(Calling(ChosenOne, Top.arg)))
            /\ context' = [context EXCEPT !.target = "none", !.module = Macro(ChosenOne).module]
            /\ UNCHANGED origin
       ELSE Raise(Below) /\ UNCHANGED context
    /\ UNCHANGED <<Driver, pending, Stream, positions, guessed, blame, swallowed>>

InStage(mode, stages) == At(mode, {"call"}) /\ Top.stage \in stages
Hooks == IF Top.stage = "before" THEN Macro(Top.id).before ELSE Macro(Top.id).after

\* `bind_macro_arguments`: an alias parameter's invariant must hold.
Bind ==
    /\ InStage("run", {"bind"})
    /\ IF Macro(Top.id).check = None
       THEN Continue(Replace([Top EXCEPT !.stage = "before"]))
       ELSE Continue(Push(Choosing(Macro(Top.id).check, Top.arg, "run")))
    /\ UNCHANGED <<Driver, context, pending, Stream, positions, guessed, Errors>>

Bound ==
    /\ InStage("deliver", {"bind"})
    /\ IF Truthy(answer)
       THEN Continue(Replace([Top EXCEPT !.stage = "before"])) /\ UNCHANGED origin
       ELSE Raise(control)
    /\ UNCHANGED <<Driver, context, pending, Stream, positions, guessed, blame, swallowed>>

RunHook ==
    /\ InStage("run", {"before", "after"}) /\ Top.hook < Len(Hooks)
    /\ Continue(Append(Replace([Top EXCEPT !.hook = @ + 1]), Choosing(Hooks[Top.hook + 1], Top.arg, "run")))
    /\ UNCHANGED <<Driver, context, pending, Stream, positions, guessed, Errors>>

HookDone ==
    /\ InStage("deliver", {"before", "after"})
    /\ Continue(Replace([Top EXCEPT !.out = @ \o answer.out]))
    /\ UNCHANGED <<Driver, context, pending, Stream, positions, guessed, Errors>>

RunBody ==
    /\ InStage("run", {"before"}) /\ Top.hook = Len(Hooks)
    /\ Continue(Append(Replace([Top EXCEPT !.stage = "body"]), Walking(Macro(Top.id).body, Params(Top.arg))))
    /\ UNCHANGED <<Driver, context, pending, Stream, positions, guessed, Errors>>

GoRoundAgain ==
    /\ InStage("deliver", {"body"}) /\ pending.tail # None
    /\ IF Top.tails < MaxTail
       THEN /\ Continue(Replace([Top EXCEPT !.arg = pending.tail, !.stage = "bind", !.hook = 0,
                                            !.tails = @ + 1, !.out = @ \o answer.out]))
            /\ UNCHANGED origin
       ELSE Raise(control)
    /\ pending' = [pending EXCEPT !.tail = None]
    /\ UNCHANGED <<Driver, context, Stream, positions, guessed, blame, swallowed>>

\* The body has ended; a declared return type asks for a value.
BodyDone ==
    /\ InStage("deliver", {"body"}) /\ pending.tail = None
    /\ IF Macro(Top.id).returns /\ answer.returned = None
       THEN Raise(control)
       ELSE /\ Continue(Replace([Top EXCEPT !.returned = answer.returned, !.stage = "after", !.hook = 0,
                                            !.out = @ \o answer.out]))
            /\ UNCHANGED origin
    /\ UNCHANGED <<Driver, context, pending, Stream, positions, guessed, blame, swallowed>>

RestoredAll(call) == call.saved

Restored(call) ==
    IF Macro(call.id).leaks THEN [call.saved EXCEPT !.section = context.section] ELSE call.saved

ReturnFromCall ==
    /\ InStage("run", {"after"}) /\ Top.hook = Len(Hooks)
    /\ Deliver(Below, Top.out, Top.returned, FALSE)
    /\ context' = Restored(Top)
    /\ blame' = {}
    /\ UNCHANGED <<Driver, pending, Stream, positions, guessed, origin, swallowed>>

BlameOutermost == {context.module}

BlameInnermost == IF blame = {} THEN {context.module} ELSE blame

UnwindCall ==
    /\ At("unwind", {"call"})
    /\ control' = Below
    /\ context' = Restored(Top)
    /\ blame' = BlameInnermost
    /\ UNCHANGED <<Driver, doing, answer, pending, Stream, positions, guessed, origin, swallowed>>

---------------------------------------------------------------------------
(* `walk_macro_body`.                                                      *)

Here        == Top.stmts[Top.at]
Doing(op)   == At("run", {"body"}) /\ Top.at <= Len(Top.stmts) /\ Here.op = op
Value(e)    == Eval(e, Top.env)
Advanced(f) == [f EXCEPT !.at = @ + 1]

Emit ==
    /\ Doing("emit")
    /\ Continue(Replace(Advanced([Top EXCEPT !.out = Append(@, Value(Here.value))])))
    /\ count' = count + 1
    /\ sections' = Append(sections, context.section)
    /\ Guess(Here.value)
    /\ UNCHANGED <<Driver, context, pending, positions, Errors>>

SetSection ==
    /\ Doing("section")
    /\ Continue(Replace(Advanced(Top)))
    /\ context' = [context EXCEPT !.section = Here.name]
    /\ UNCHANGED <<Driver, pending, Stream, positions, guessed, Errors>>

CheckAssertion ==
    /\ Doing("assert")
    /\ IF Value(Here.value) = 0 THEN Raise(control) ELSE Continue(Replace(Advanced(Top))) /\ UNCHANGED origin
    /\ Guess(Here.value)
    /\ UNCHANGED <<Driver, context, pending, Stream, positions, blame, swallowed>>

Branch ==
    /\ Doing("if")
    /\ Continue(Push(Walking(IF Value(Here.value) # 0 THEN Here.body ELSE Here.other, Top.env)))
    /\ Guess(Here.value)
    /\ UNCHANGED <<Driver, context, pending, Stream, positions, Errors>>

StartLoop ==
    /\ Doing("for") \/ Doing("fold")
    /\ IF Here.op = "for"
       THEN Continue(Push(Looping("for", Here, Top.env))) /\ UNCHANGED guessed
       ELSE /\ Continue(Push(Looping("fold", Here, [Top.env EXCEPT !.acc = Value(Here.init)])))
            /\ Guess(Here.init)
    /\ UNCHANGED <<Driver, context, pending, Stream, positions, Errors>>

\* `eval_direct_self_tail_call`, or an ordinary call.
MaybeTail == Here.use = "return" /\ Here.name = Running[1] /\ Macro(Running).after = <<>>

StartCall ==
    /\ Doing("call")
    /\ Continue(Push(Choosing(Here.name, Value(Here.arg), IF MaybeTail THEN "tail" ELSE "run")))
    /\ Guess(Here.arg)
    /\ UNCHANGED <<Driver, context, pending, Stream, positions, Errors>>

\* `record_next`.
NextRound ==
    /\ Doing("next")
    /\ IF context.target = "fold"
       THEN /\ pending' = [pending EXCEPT !.next = Value(Here.value)]
            /\ Deliver(Below, Top.out, None, FALSE)
            /\ Guess(Here.value)
            /\ UNCHANGED origin
       ELSE Raise(control) /\ UNCHANGED <<pending, guessed>>
    /\ UNCHANGED <<Driver, context, Stream, positions, blame, swallowed>>

ReturnValue ==
    /\ Doing("return")
    /\ Deliver(Below, Top.out, Value(Here.value), FALSE)
    /\ Guess(Here.value)
    /\ UNCHANGED <<Driver, context, pending, Stream, positions, Errors>>

ReturnNothing ==
    /\ Doing("stop") \/ (At("run", {"body"}) /\ Top.at > Len(Top.stmts))
    /\ Deliver(Below, Top.out, None, FALSE)
    /\ UNCHANGED <<Driver, context, pending, Stream, positions, guessed, Errors>>

\* A nested body asked to leave this one too.

Leaving == answer.returned # None \/ pending # NoPending

AfterNested ==
    /\ At("deliver", {"body"}) /\ Here.op \in {"if", "for"}
    /\ LET out == Top.out \o answer.out IN
       IF Leaving THEN Deliver(Below, out, answer.returned, FALSE)
       ELSE Continue(Replace(Advanced([Top EXCEPT !.out = out])))
    /\ UNCHANGED <<Driver, context, pending, Stream, positions, guessed, Errors>>

\* In a larger expression nothing may be emitted, and nothing returned from.
StrayReturn == Here.use = "expr" /\ answer.exited

Stray   == Here.use = "expr" /\ (answer.out # <<>> \/ answer.exited)
Missing == Here.use # "statement" /\ ~answer.exited /\ answer.returned = None

\* A call or a fold is over: `eval_value_keeping_emits`, `run_fold` as a
\* statement, or an expression's `reject_expression_emits`.
AfterValue ==
    /\ At("deliver", {"body"}) /\ Here.op \in {"call", "fold"}
    /\ LET out == IF Here.use = "expr" THEN Top.out ELSE Top.out \o answer.out IN
       IF Stray \/ Missing THEN Raise(control)
       ELSE /\ IF answer.exited \/ Here.use = "return"
               THEN Deliver(Below, out, answer.returned, FALSE)
               ELSE Continue(Replace(Advanced([Top EXCEPT
                        !.out = out, !.env.x = IF Here.use = "statement" THEN @ ELSE answer.returned])))
            /\ UNCHANGED origin
    /\ UNCHANGED <<Driver, context, pending, Stream, positions, guessed, blame, swallowed>>

UnwindBody ==
    /\ At("unwind", {"body"})
    /\ control' = Below
    /\ UNCHANGED <<Driver, doing, answer, context, pending, Stream, positions, guessed, Errors>>

---------------------------------------------------------------------------
(* `@for` and `run_fold`.                                                  *)

RoundTarget == IF Top.kind = "fold" THEN "fold" ELSE IF context.target = "none" THEN "none" ELSE "blocked"
SameRound(f) == f

FollowingRound(f) == [f EXCEPT !.round = @ + 1]

StartRound ==
    /\ At("run", {"for", "fold"}) /\ Top.round < Top.times
    /\ Continue(Append(Replace(FollowingRound(Top)), Walking(Top.stmts, [Top.env EXCEPT !.i = Top.round])))
    /\ context' = [context EXCEPT !.target = RoundTarget]
    /\ UNCHANGED <<Driver, pending, Stream, positions, guessed, Errors>>

ForRoundDone ==
    /\ At("deliver", {"for"})
    /\ LET out == Top.out \o answer.out IN
       IF Leaving THEN Deliver(Below, out, answer.returned, FALSE)
       ELSE Continue(Replace([Top EXCEPT !.out = out]))
    /\ context' = [context EXCEPT !.target = Top.outer]
    /\ UNCHANGED <<Driver, pending, Stream, positions, guessed, Errors>>

Applied(f) == IF pending.next = None THEN f ELSE [f EXCEPT !.env.acc = pending.next]

FoldRoundDone ==
    /\ At("deliver", {"fold"})
    /\ LET out == Top.out \o answer.out IN
       IF answer.returned # None \/ pending.tail # None
       THEN Deliver(Below, out, answer.returned, TRUE) /\ UNCHANGED pending
       ELSE /\ Continue(Replace(Applied([Top EXCEPT !.out = out])))
            /\ pending' = [pending EXCEPT !.next = None]
    /\ context' = [context EXCEPT !.target = Top.outer]
    /\ UNCHANGED <<Driver, Stream, positions, guessed, Errors>>

LoopDone ==
    /\ At("run", {"for", "fold"}) /\ Top.round = Top.times
    /\ Deliver(Below, Top.out, IF Top.kind = "fold" THEN Top.env.acc ELSE None, FALSE)
    /\ UNCHANGED <<Driver, context, pending, Stream, positions, guessed, Errors>>

UnwindRoundKeepingTarget ==
    /\ At("unwind", {"for", "fold"})
    /\ control' = Below
    /\ UNCHANGED <<Driver, doing, answer, context, pending, Stream, positions, guessed, Errors>>

UnwindRound ==
    /\ At("unwind", {"for", "fold"})
    /\ control' = Below
    /\ context' = [context EXCEPT !.target = Top.outer]
    /\ UNCHANGED <<Driver, doing, answer, pending, Stream, positions, guessed, Errors>>

---------------------------------------------------------------------------
Stopped == phase \in {"done", "failed"} /\ UNCHANGED vars

Driving  == WalkLabel \/ WalkSection \/ WalkInvocation \/ Collect \/ ReportError \/ SecondPass \/ Finish
Resolving ==
    \/ FitByType \/ Probe \/ JudgeProbe \/ SwallowError \/ ChooseNone
    \/ TailCall \/ NotTailCall \/ EnterCall
InCall    == Bind \/ Bound \/ RunHook \/ HookDone \/ RunBody \/ GoRoundAgain \/ BodyDone \/ ReturnFromCall \/ UnwindCall
InBody    ==
    \/ Emit \/ SetSection \/ CheckAssertion \/ Branch \/ StartLoop \/ StartCall \/ NextRound
    \/ ReturnValue \/ ReturnNothing \/ AfterNested \/ AfterValue \/ UnwindBody
InLoop    == StartRound \/ ForRoundDone \/ FoldRoundDone \/ LoopDone \/ UnwindRound

Next == Driving \/ Resolving \/ InCall \/ InBody \/ InLoop \/ Stopped

Spec     == Init /\ [][Next]_vars
FairSpec == Spec /\ WF_vars(Next)

---------------------------------------------------------------------------
(* Properties.  What a program means as a whole is in MacroMeaning.        *)

\* The frames nest as the code's functions call one another, no deeper than
\* the limit, and a frame that waits is of a kind that can.
TypeOK ==
    /\ pass \in {"tolerant", "strict"} /\ phase \in {"walking", "done", "failed"}
    /\ at \in 1..(Len(program.top) + 1)
    /\ doing \in {"run", "deliver", "unwind"}
    /\ context.target \in {"none", "fold", "blocked"}
    /\ Cardinality(Calls) <= MaxDepth
    /\ \A k \in DOMAIN control : control[k].kind \in {"for", "fold", "body"} =>
           k > 1 /\ control[k - 1].kind \in (IF control[k].kind = "body" THEN {"call", "body", "for", "fold"} ELSE {"body"})
    /\ count \in Nat /\ DOMAIN positions \subseteq Labels
    /\ pass = "strict" => DOMAIN positions = {s.name : s \in {s \in ToSet(program.top) : s.op = "label"}}

\* The loops of the running macro whose body is being walked, or was left.
Rounds ==
    {k \in DOMAIN control : /\ control[k].kind \in {"for", "fold"}
                            /\ \A j \in Calls : j < k
                            /\ k < Len(control) \/ doing # "run"}

\* Whatever was returned from, left or unwound, the module is that of the
\* innermost call, and a `@next` would go to the innermost fold of that
\* call unless a `@for` is in between.
ContextFitsStack ==
    phase = "walking" =>
        /\ context.module = IF Calls = {} THEN MainModule ELSE Macro(Running).module
        /\ context.target = IF \A k \in Rounds : control[k].kind = "for" THEN "none"
                            ELSE IF \E k \in Rounds : control[k].kind = "fold" /\ \A j \in Rounds : j <= k
                            THEN "fold" ELSE "blocked"

\* A pending `@next` or tail call is on its way out of the bodies that lead
\* to its fold or call: nothing else runs before it is acted on, none
\* outlives its macro, and never are there two.
PendingSettled ==
    /\ pending # NoPending => doing \in {"deliver", "unwind"}
    /\ pending.next # None /\ phase = "walking" => control # <<>> /\ context.target = "fold"
    /\ pending.tail = None \/ pending.next = None
    /\ control = <<>> /\ doing # "unwind" => pending = NoPending

\* The state kept beside the stack fits it at every moment, on every way in
\* and out of a call, a loop and a fold.  A probe's error, though, may leave
\* a tail call pending (fold.rs:113), so there is no more to say of those
\* once an error was recovered from.
Consistent == TypeOK /\ ContextFitsStack /\ (swallowed \/ PendingSettled)

\* Between top-level statements the count labels are placed by, and the
\* list of sections, agree with the values the driver has collected: none is
\* lost on the way down the stack, but for those of a probe whose error was
\* recovered from, which count all the same (macro_body.rs:187).
Aligned ==
    phase = "walking" /\ control = <<>> /\ doing = "run" /\ ~swallowed =>
        count = Len(emitted) /\ Len(sections) = Len(emitted)

\* An error is reported against the module it arose in, if no earlier one
\* was recovered from.
BlamesInnermost == phase = "failed" /\ ~swallowed => blame = {origin}

\* Every program's expansion ends.
Terminates == <>(phase \in {"done", "failed"})

===========================================================================
