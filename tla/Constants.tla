------------------------------ MODULE Constants ---------------------------
(* Evaluating the constants a program declares, twice: first those that    *)
(* look like integers, to integers (ConstEvaluator of                      *)
(* src/src/resolver/consts.rs), for use as generic arguments; then, when   *)
(* the types are resolved, all of them, to values of any kind, converted   *)
(* to their declared types (`resolve_all_const_values` and                 *)
(* `resolve_const_value` of src/src/resolver/values.rs).                   *)
(*                                                                         *)
(* Both evaluate a constant when it is first read, mark those under way    *)
(* and remember what they came to.  `evaluations` is the recursion,        *)
(* innermost first; `reading` says whether the innermost goes on, wants a  *)
(* constant, is given one, or is left by an error.                         *)
(*                                                                         *)
(* An operand is an integer, a constant, or a constant's field.  A value   *)
(* is an integer, or a struct or a variant that holds one.                 *)
EXTENDS Integers, Sequences, FiniteSets, SequencesExt

CONSTANTS
    ConstNames,
    ConstPrograms,  \* [order : the names, decl : name -> [is, operands, type, home]]
    NoModule

VARIABLES
    constants,      \* fixed
    stage,          \* "folding", "folded", "valuing", "valued" or "refused"
    queue,          \* the names the stage has yet to come to, in order
    evaluations,    \* the constants being evaluated, innermost first
    reading,        \* [how : "on", "want", "have" or "error", what]
    constMarks,     \* states, const_value_states
    constMemo,      \* what the resolved ones came to
    folded,         \* consts: what the first evaluator came to
    constModule,    \* current_module
    constBlame,     \* error_module
    arose           \* history: the module in force where the error arose

constVars == <<constants, stage, queue, evaluations, reading, constMarks, constMemo, folded,
               constModule, constBlame, arose>>

---------------------------------------------------------------------------
Operands == [of : {"int", "name", "field"}, int : Int, name : STRING]

ASSUME ConstProgramAssumption ==
    \A p \in ConstPrograms :
        /\ p.order \in Seq(DOMAIN p.decl) /\ DOMAIN p.decl = {p.order[k] : k \in DOMAIN p.order}
        /\ \A name \in DOMAIN p.decl : p.decl[name].operands \in Seq(Operands)

---------------------------------------------------------------------------
(* Declarations.  `is` says how the constant is computed: "itself" (its    *)
(* one operand), "sum", "quotient", "and", "struct" (a call, construction  *)
(* or conversion) or "variant" (a variant of a generic enum).  `type` is   *)
(* what the declared type does to a value: "none" is declared, "checked"   *)
(* keeps an integer, "wrapped" puts it in a struct, "computed" makes       *)
(* another of it, "refused" is met by nothing.                             *)

Const(name)   == constants.decl[name]
IsConst(name) == name \in DOMAIN constants.decl
Entry         == constants.decl[constants.order[Len(constants.order)]].home

Lit(n)        == [of |-> "int", int |-> n, name |-> ""]
Read(name)    == [of |-> "name", int |-> 0, name |-> name]
Field(name)   == [of |-> "field", int |-> 0, name |-> name]

IntValue(n)     == [is |-> "int", int |-> n]
StructValue(n)  == [is |-> "struct", int |-> n]
VariantValue(n) == [is |-> "variant", int |-> n]
NoValue         == [is |-> "none", int |-> 0]

\* `is_int_shaped`: a chain of names has the shape of its end, unless it
\* leads round in a circle or out of the program.
Aliases(name) == IsConst(name) /\ Const(name).is = "itself" /\ Const(name).operands[1].of = "name"

Link(name)    == IF Aliases(name) THEN Const(name).operands[1].name ELSE name
LinkAfter(name) ==
    LET after[k \in Nat] == IF k = 0 THEN name ELSE Link(after[k - 1])
    IN  after[Cardinality(ConstNames)]

LooksLikeInt(name) ==
    IsConst(name) /\ Const(name).is # "struct" /\ (Const(name).is = "itself" => Const(name).operands[1].of # "field")

IntShaped(name) == LET end == LinkAfter(name) IN LooksLikeInt(end) /\ ~Aliases(end)

\* What an evaluation reads, in order: `referenced_identifiers` takes an
\* operator's right side first, and all it finds; `eval_value` goes from the
\* left, and no further than it must.
Reversed(s) == [k \in 1..Len(s) |-> s[Len(s) + 1 - k]]
Foldable(o) == o.of # "int" /\ IsConst(o.name) /\ IntShaped(o.name)
Reads(name) ==
    LET operands  == Const(name).operands
        rightward == Reversed(operands)
        due       == {o \in {operands[k] : k \in DOMAIN operands} : Foldable(o)}
    IN  IF stage = "folding"
        THEN FlattenSeq([k \in 1..Len(operands) |-> IF rightward[k] \in due THEN <<rightward[k]>> ELSE <<>>])
        ELSE operands

Evaluation(name) ==
    [name |-> name, reads |-> Reads(name), got |-> <<>>, outer |-> constModule]

On            == [how |-> "on", what |-> NoValue]
Want(name)    == [how |-> "want", what |-> name]
Have(v)       == [how |-> "have", what |-> v]
Error(names)  == [how |-> "error", what |-> names]

Current       == Head(evaluations)
Others        == Tail(evaluations)
Busy(how)     == reading.how = how /\ evaluations # <<>> /\ stage \in {"folding", "valuing"}
InOrder       == stage \in {"folding", "valuing"} /\ evaluations = <<>>

---------------------------------------------------------------------------
(* What a constant comes to.                                               *)

\* `eval::eval`, with what the operands folded to, for those that did.
GotFor(name, got) == {k \in DOMAIN got : got[k].name = name}

ReadFor(name, got) ==
    IF GotFor(name, got) = {} THEN NoValue ELSE got[CHOOSE k \in GotFor(name, got) : TRUE].value

Operand(o, got) ==
    CASE o.of = "int"   -> IntValue(o.int)
      [] o.of = "name"  -> ReadFor(o.name, got)
      [] o.of = "field" -> NoValue

Truth(b) == IntValue(IF b THEN 1 ELSE 0)

\* An operator applied to integers; `and` looks at its right side last.
Apply(is, l, r) ==
    IF l.is # "int" THEN NoValue
    ELSE CASE is = "itself"                                 -> l
           [] is = "and" /\ l.int = 0                       -> Truth(FALSE)
           [] is = "and" /\ l.int # 0 /\ r.is = "int"       -> Truth(r.int # 0)
           [] is = "sum" /\ r.is = "int"                    -> IntValue(l.int + r.int)
           [] is = "quotient" /\ r.is = "int" /\ r.int # 0  -> IntValue(l.int \div r.int)
           [] OTHER                                         -> NoValue

ApplyTo(is, v) == Apply(is, v[1], IF Len(v) = 1 THEN NoValue ELSE v[2])

FoldOf(name, got) == ApplyTo(Const(name).is, [k \in DOMAIN Const(name).operands |-> Operand(Const(name).operands[k], got)])

\* `eval_value` and `convert_to`.
ValueOf(is, v) ==
    CASE is = "itself" -> v[1]
      [] is = "struct" -> IF v[1].is = "int" THEN StructValue(v[1].int) ELSE NoValue
      [] is = "variant" -> IF v[1].is = "int" THEN VariantValue(v[1].int) ELSE NoValue
      [] OTHER         -> ApplyTo(is, v)

Converted(v, type) ==
    CASE type = "none"                                -> v
      [] type = "checked" /\ v.is = "int"             -> v
      [] type = "wrapped" /\ v.is \in {"int", "struct"} -> StructValue(v.int)
      [] type = "computed" /\ v.is = "int"            -> IntValue(2 * v.int)
      [] OTHER                                        -> NoValue

Result(name, got) ==
    IF stage = "folding" THEN FoldOf(name, got)
    ELSE Converted(ValueOf(Const(name).is, [k \in DOMAIN got |-> got[k].value]), Const(name).type)

---------------------------------------------------------------------------
ConstInitFor(p) ==
    /\ constants = p
    /\ stage = "folding" /\ queue = p.order
    /\ evaluations = <<>> /\ reading = On
    /\ constMarks = [name \in DOMAIN p.decl |-> "unvisited"]
    /\ constMemo = [name \in {} |-> NoValue] /\ folded = constMemo
    /\ constModule = NoModule /\ constBlame = NoModule /\ arose = NoModule

Positions == <<constants, stage, queue>>
Modules   == <<constModule, constBlame, arose>>
Results   == <<constMarks, constMemo, folded>>

(* `evaluate_all`, `resolve_all_const_values`.  The second evaluator is a  *)
(* new one, and knows modules.                                             *)

Due(name) == stage = "valuing" \/ IntShaped(name)

EvaluateNext ==
    /\ InOrder /\ reading.how = "on" /\ queue # <<>> /\ Due(Head(queue))
    /\ reading' = Want(Head(queue))
    /\ UNCHANGED <<Positions, evaluations, Results, Modules>>

PassOver ==
    /\ InOrder /\ reading.how = "on" /\ queue # <<>> /\ ~Due(Head(queue))
    /\ queue' = Tail(queue)
    /\ UNCHANGED <<constants, stage, evaluations, reading, Results, Modules>>

EvaluatedAgain ==
    /\ InOrder /\ reading.how = "have"
    /\ reading' = On
    /\ UNCHANGED <<Positions, evaluations, Results, Modules>>

Evaluated ==
    /\ InOrder /\ reading.how = "have"
    /\ reading' = On
    /\ queue' = Tail(queue)
    /\ UNCHANGED <<constants, stage, evaluations, Results, Modules>>

AllFolded ==
    /\ stage = "folding" /\ InOrder /\ reading.how = "on" /\ queue = <<>>
    /\ stage' = "folded"
    /\ folded' = constMemo
    /\ UNCHANGED <<constants, queue, evaluations, reading, constMarks, constMemo, Modules>>

\* Here and below, a definition with a slip (StartValuesFromLast, ...)
\* stands before the one it is a slip of, for testing the properties; no
\* specification here uses it.
StartValuesIn(order, memo) ==
    /\ stage = "folded"
    /\ stage' = "valuing" /\ queue' = order
    /\ constMemo' = memo
    /\ constMarks' = [name \in DOMAIN constMarks |-> IF name \in DOMAIN memo THEN "resolved" ELSE "unvisited"]
    /\ constModule' = Entry
    /\ UNCHANGED <<constants, evaluations, reading, folded, constBlame, arose>>

StartValuesFromLast   == StartValuesIn(Reversed(constants.order), [name \in {} |-> NoValue])
StartValuesFromFolded == StartValuesIn(constants.order, folded)

StartValues == StartValuesIn(constants.order, [name \in {} |-> NoValue])

AllValued ==
    /\ stage = "valuing" /\ InOrder /\ reading.how = "on" /\ queue = <<>>
    /\ stage' = "valued"
    /\ UNCHANGED <<constants, queue, evaluations, reading, Results, Modules>>

\* Of the first evaluator's errors the driver does not know the file.
ConstError ==
    /\ InOrder /\ reading.how = "error"
    /\ stage' = "refused"
    /\ constBlame' = IF stage = "valuing" /\ constBlame = NoModule THEN Const(Head(queue)).home ELSE constBlame
    /\ UNCHANGED <<constants, queue, evaluations, reading, Results, constModule, arose>>

---------------------------------------------------------------------------
(* `evaluate`, `resolve_const_value`.                                      *)

Wanted    == reading.what
Wanting   == reading.how = "want" /\ stage \in {"folding", "valuing"}
MarkedAs(mark) == Wanting /\ IsConst(Wanted) /\ constMarks[Wanted] = mark

\* The constants from the one met again to where it is.
CircleTo(name) ==
    LET k == CHOOSE k \in DOMAIN evaluations : evaluations[k].name = name
    IN  <<name>> \o [j \in 1..k |-> evaluations[j].name]

ReadUnknown ==
    /\ Wanting /\ ~IsConst(Wanted)
    /\ reading' = Error(<<>>) /\ arose' = constModule
    /\ UNCHANGED <<Positions, evaluations, Results, constModule, constBlame>>

ReadResolved ==
    /\ MarkedAs("resolved")
    /\ reading' = Have(constMemo[Wanted])
    /\ UNCHANGED <<Positions, evaluations, Results, Modules>>

ReadVisiting ==
    /\ MarkedAs("visiting")
    /\ reading' = Error(CircleTo(Wanted)) /\ arose' = constModule
    /\ UNCHANGED <<Positions, evaluations, Results, constModule, constBlame>>

Visit ==
    /\ MarkedAs("unvisited")
    /\ evaluations' = <<Evaluation(Wanted)>> \o evaluations
    /\ constMarks' = [constMarks EXCEPT ![Wanted] = "visiting"]
    /\ constModule' = IF stage = "valuing" THEN Const(Wanted).home ELSE constModule
    /\ reading' = On
    /\ UNCHANGED <<Positions, constMemo, folded, constBlame, arose>>

\* A read that needs no other constant.
TakeLiteral ==
    /\ Busy("on") /\ Current.reads # <<>> /\ Head(Current.reads).of = "int"
    /\ evaluations' = <<[Current EXCEPT
            !.reads = Tail(@), !.got = Append(@, [name |-> "", value |-> IntValue(Head(Current.reads).int)])]>> \o Others
    /\ UNCHANGED <<Positions, reading, Results, Modules>>

\* The left side of an `and` is false: the right one is not read.
ShortCircuit ==
    /\ stage = "valuing" /\ Const(Current.name).is = "and" /\ Len(Current.got) = 1
    /\ Current.got[1].value = IntValue(0)

ReadOperand ==
    /\ Busy("on") /\ Current.reads # <<>> /\ Head(Current.reads).of # "int" /\ ~ShortCircuit
    /\ reading' = Want(Head(Current.reads).name)
    /\ UNCHANGED <<Positions, evaluations, Results, Modules>>

\* Only a struct has fields, and only integers are operated on.
Arithmetic == {"sum", "quotient", "and"}
Taken(o, v) ==
    IF stage = "folding" \/ o.of # "field" THEN v
    ELSE IF v.is = "struct" THEN IntValue(v.int) ELSE NoValue
Fits(v) ==
    /\ v.is # "none"
    /\ stage = "valuing" /\ Const(Current.name).is \in Arithmetic => v.is = "int"

TakeOperand ==
    /\ Busy("have")
    /\ LET o == Head(Current.reads)
           v == Taken(o, reading.what) IN
       IF Fits(v)
       THEN /\ evaluations' = <<[Current EXCEPT
                    !.reads = Tail(@), !.got = Append(@, [name |-> o.name, value |-> v])]>> \o Others
            /\ reading' = On
            /\ UNCHANGED arose
       ELSE reading' = Error(<<>>) /\ arose' = constModule /\ UNCHANGED evaluations
    /\ UNCHANGED <<Positions, Results, constModule, constBlame>>

Leave ==
    /\ Busy("on") /\ (Current.reads = <<>> \/ ShortCircuit)
    /\ LET name == Current.name
           v    == Result(name, Current.got) IN
       IF v.is = "none"
       THEN reading' = Error(<<>>) /\ arose' = constModule /\ UNCHANGED <<evaluations, constMarks, constMemo, constModule>>
       ELSE /\ constMarks' = [constMarks EXCEPT ![name] = "resolved"]
            /\ constMemo' = [n \in DOMAIN constMemo \cup {name} |-> IF n = name THEN v ELSE constMemo[n]]
            /\ reading' = Have(v)
            /\ evaluations' = Others
            /\ constModule' = Current.outer
            /\ UNCHANGED arose
    /\ UNCHANGED <<Positions, folded, constBlame>>

LeaveByError ==
    /\ Busy("error")
    /\ constMarks' = [constMarks EXCEPT ![Current.name] = "unvisited"]
    /\ constModule' = Current.outer
    /\ evaluations' = Others
    /\ UNCHANGED <<Positions, reading, constMemo, folded, constBlame, arose>>

---------------------------------------------------------------------------
ConstStep ==
    \/ EvaluateNext \/ PassOver \/ Evaluated \/ AllFolded \/ AllValued \/ ConstError
    \/ ReadUnknown \/ ReadResolved \/ ReadVisiting \/ Visit
    \/ TakeLiteral \/ ReadOperand \/ TakeOperand \/ Leave \/ LeaveByError

---------------------------------------------------------------------------
(* Properties.  What the constants' values are is in ConstantMeaning.      *)

\* The variables are of their kinds; the constants marked as being visited
\* are those whose evaluation goes on, each once, and those with a value
\* those marked resolved: an evaluation left by an error leaves no mark.
ConstTypeOK ==
    /\ stage \in {"folding", "folded", "valuing", "valued", "refused"}
    /\ reading.how \in {"on", "want", "have", "error"}
    /\ constMarks \in [DOMAIN constants.decl -> {"unvisited", "visiting", "resolved"}]
    /\ DOMAIN constMemo = {name \in DOMAIN constMarks : constMarks[name] = "resolved"}
    /\ {name \in DOMAIN constMarks : constMarks[name] = "visiting"} =
           {evaluations[k].name : k \in DOMAIN evaluations}
    /\ \A j, k \in DOMAIN evaluations : evaluations[j].name = evaluations[k].name => j = k

\* What is reported as a circle is one: it ends where it began, and every
\* constant in it reads the next.
CirclesAreReal ==
    reading.how = "error" /\ reading.what # <<>> =>
        LET names == reading.what IN
        /\ names[1] = names[Len(names)]
        /\ \A k \in 2..Len(names) :
               \E j \in DOMAIN Const(names[k]).operands : Const(names[k]).operands[j].name = names[k - 1]

\* What is spliced before a file's constants (`collect_declarations` of
\* src/src/loader.rs), if all its imports are written before them: the
\* constants of other files that they read.
ImportedFirst ==
    \A j, k \in DOMAIN constants.order :
        LET read == Const(constants.order[j])
            by   == Const(constants.order[k]) IN
        (\E i \in DOMAIN by.operands : by.operands[i].name = constants.order[j]) /\ read.home # by.home =>
            \A l \in DOMAIN constants.order : Const(constants.order[l]).home = by.home => j < l

\* An error while a constant is valued is reported in the file it is in,
\* though only the constant come to in order is known when it is: if files
\* import before they declare, the constants of other files that it reads
\* have had their turn.
BlameIsHome == stage = "refused" /\ constBlame # NoModule => constBlame = arose

===========================================================================
