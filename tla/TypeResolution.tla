--------------------------- MODULE TypeResolution -------------------------
(* Resolving the types a program declares (src/src/resolver/aliases.rs and *)
(* structs.rs, driven by `resolve_structs_and_aliases` of src/src/main.rs): *)
(* the fields of every struct, then every alias, then the fields of every   *)
(* struct an alias stands for.                                              *)
(*                                                                         *)
(* The functions call one another: `frames` is that recursion, innermost   *)
(* first, and `doing` says whether the innermost goes on, asks for a type, *)
(* is given one, or is left by an error.  What the resolver keeps while    *)
(* they run are the mark of each alias, the path of aliases being resolved *)
(* and the types the generic parameters in scope stand for.                *)
(*                                                                         *)
(* A type expression is a name applied to arguments, none for a bare name. *)
(* The code substitutes the arguments of a generic alias into its target;  *)
(* here the target goes with the arguments to substitute, `env`, and one   *)
(* is put in the place of its parameter when that is come to.  Parameters  *)
(* are types, and are not themselves applied to arguments.                 *)
EXTENDS Naturals, Sequences, FiniteSets

CONSTANTS
    Names,      \* declared names
    Programs    \* [order : the declared names, decl : name -> declaration]

ASSUME ProgramAssumption ==
    \A p \in Programs : /\ p.order \in Seq(Names)
                        /\ \A k \in DOMAIN p.order : p.order[k] \in DOMAIN p.decl
                        /\ DOMAIN p.decl \subseteq Names

VARIABLES
    program,    \* fixed
    phase,      \* "structs", "aliases", "instances", "done" or "failed"
    todo,       \* the names the phase has yet to come to, in order
    frames,     \* the active functions, innermost first
    doing,      \* [how : "on", "ask", "answer" or "fail", what]
    generics,   \* generic_scope: parameter -> type
    marks,      \* states: alias -> "unvisited", "visiting" or "resolved"
    memo,       \* what the resolved ones resolved to
    path,       \* stack: the aliases being resolved, innermost first
    checked     \* history: the structs whose fields resolved, and to what

vars == <<program, phase, todo, frames, doing, generics, marks, memo, path, checked>>

---------------------------------------------------------------------------
(* Types.                                                                  *)

IntType            == [type |-> "int", name |-> "int", args |-> <<>>, under |-> <<>>]
ParamType(name)    == [type |-> "param", name |-> name, args |-> <<>>, under |-> <<>>]
StructType(name, args) == [type |-> "struct", name |-> name, args |-> args, under |-> <<>>]

\* An alias is a type of its own if it has invariants or conversions; it
\* remembers what is under it, and under all its layers.
Strip(t)           == IF t.type = "alias" THEN t.under[2] ELSE t
AliasType(name, args, t) == [type |-> "alias", name |-> name, args |-> args, under |-> <<t, Strip(t)>>]

---------------------------------------------------------------------------
(* Declarations: [kind : "struct" or "alias", params, fields (an alias has *)
(* one, its target), nominal].                                             *)

Decl(name)      == program.decl[name]
Declared(name)  == name \in DOMAIN program.decl
IsAlias(name)   == Declared(name) /\ Decl(name).kind = "alias"
IsGeneric(name) == Decl(name).params # <<>>

OfKind(kind)    == SelectSeq(program.order, LAMBDA name : Decl(name).kind = kind)
PlainAliases    == SelectSeq(program.order, LAMBDA name : IsAlias(name) /\ ~IsGeneric(name))

\* `wrap_if_invariant`.
Wrapped(name, args, t) == IF Decl(name).nominal THEN AliasType(name, args, t) ELSE t

\* A type expression e of a place where env is to be substituted.
NoEnv       == [p \in {} |-> <<>>]
Close(e, env) ==
    IF e.args = <<>> /\ e.name \in DOMAIN env THEN env[e.name] ELSE [name |-> e.name, args |-> e.args, env |-> env]
CloseAll(es, env) == [k \in DOMAIN es |-> Close(es[k], env)]

\* Arguments by the parameters they are for, as far as both go.
Bind(params, args) ==
    LET bound == {k \in DOMAIN params : k <= Len(args)}
    IN  [p \in {params[k] : k \in bound} |-> args[CHOOSE k \in bound : params[k] = p]]

---------------------------------------------------------------------------
(* Frames.                                                                 *)

FieldsFrame(name, scope) ==
    [of |-> "fields", name |-> name, todo |-> CloseAll(Decl(name).fields, NoEnv), done |-> <<>>, outer |-> scope]
AliasFrame(name)        == [of |-> "alias", name |-> name]
ExpandFrame(name, args) == [of |-> "expand", name |-> name, todo |-> args]
BaseFrame(args)         == [of |-> "base", todo |-> args]
StructArgs(name, args)  == [of |-> "struct args", name |-> name, todo |-> args, done |-> <<>>]
AliasArgs(name, args, body) ==
    [of |-> "alias args", name |-> name, todo |-> args, done |-> <<>>, body |-> body]

GoOn       == [how |-> "on", what |-> <<>>]
Ask(c)     == [how |-> "ask", what |-> c]
Answer(t)  == [how |-> "answer", what |-> t]
Fail(why, names) == [how |-> "fail", what |-> [why |-> why, names |-> names]]

Innermost     == Head(frames)
Rest          == Tail(frames)
Under(f)      == <<f>> \o Rest
At(how, kinds) == doing.how = how /\ frames # <<>> /\ Innermost.of \in kinds

Fixed     == <<program, phase, todo, checked>>
Guards    == <<generics, marks, memo, path>>

---------------------------------------------------------------------------
InitFor(p) ==
    /\ program = p
    /\ phase = "structs" /\ todo = OfKind("struct")
    /\ frames = <<>> /\ doing = GoOn
    /\ generics = NoEnv /\ path = <<>> /\ memo = NoEnv
    /\ marks = [name \in {name \in DOMAIN program.decl : IsAlias(name)} |-> "unvisited"]
    /\ checked = {}

Init == \E p \in Programs : InitFor(p)

(* `resolve_structs_and_aliases`.                                          *)
(* Here and below, a definition with a slip (ResolveAliasAgain, ...) stands *)
(* before the one it is a slip of, for testing the properties; no          *)
(* specification here uses it.                                             *)

Idle == frames = <<>> /\ doing.how = "on"

\* `resolve_struct_fields`: a parameter stands for itself.
ResolveStruct ==
    /\ phase = "structs" /\ Idle /\ todo # <<>>
    /\ frames' = <<FieldsFrame(Head(todo), generics)>>
    /\ generics' = [p \in {Decl(Head(todo)).params[k] : k \in DOMAIN Decl(Head(todo)).params} |-> ParamType(p)]
    /\ todo' = Tail(todo)
    /\ UNCHANGED <<program, phase, doing, marks, memo, path, checked>>

StructsResolved ==
    /\ phase = "structs" /\ Idle /\ todo = <<>>
    /\ phase' = "aliases" /\ todo' = PlainAliases
    /\ UNCHANGED <<program, frames, doing, Guards, checked>>

\* `resolve_all`.
ResolveAliasAgain ==
    /\ phase = "aliases" /\ Idle /\ todo # <<>>
    /\ doing' = Ask([name |-> Head(todo), args |-> <<>>, env |-> NoEnv])
    /\ UNCHANGED <<program, phase, todo, frames, Guards, checked>>

ResolveAlias ==
    /\ phase = "aliases" /\ Idle /\ todo # <<>>
    /\ doing' = Ask([name |-> Head(todo), args |-> <<>>, env |-> NoEnv])
    /\ todo' = Tail(todo)
    /\ UNCHANGED <<program, phase, frames, Guards, checked>>

AliasResolved ==
    /\ phase = "aliases" /\ frames = <<>> /\ doing.how = "answer"
    /\ doing' = GoOn
    /\ UNCHANGED <<Fixed, frames, Guards>>

\* The map `resolve_all` returns has no order.
AliasesResolved ==
    /\ phase = "aliases" /\ Idle /\ todo = <<>>
    /\ phase' = "instances"
    /\ \E order \in [1..Len(PlainAliases) -> {PlainAliases[k] : k \in DOMAIN PlainAliases}] :
           /\ \A j, k \in DOMAIN order : order[j] = order[k] => j = k
           /\ todo' = order
    /\ UNCHANGED <<program, frames, doing, Guards, checked>>

\* `instantiate_struct_fields` of what an alias stands for.
ResolveInstance ==
    /\ phase = "instances" /\ Idle /\ todo # <<>>
    /\ LET t == Strip(memo[Head(todo)]) IN
       IF t.type = "struct"
       THEN /\ frames' = <<FieldsFrame(t.name, generics)>>
            /\ generics' = Bind(Decl(t.name).params, t.args)
       ELSE UNCHANGED <<frames, generics>>
    /\ todo' = Tail(todo)
    /\ UNCHANGED <<program, phase, doing, marks, memo, path, checked>>

Finish ==
    /\ phase = "instances" /\ Idle /\ todo = <<>>
    /\ phase' = "done"
    /\ UNCHANGED <<program, todo, frames, doing, Guards, checked>>

ReportError ==
    /\ phase \in {"structs", "aliases", "instances"} /\ frames = <<>> /\ doing.how = "fail"
    /\ phase' = "failed"
    /\ UNCHANGED <<program, todo, frames, doing, Guards, checked>>

---------------------------------------------------------------------------
(* `resolve_named_type`: what is in the generic scope hides `int`, which   *)
(* hides what is declared.                                                 *)

Asked          == doing.what
Named          == doing.how = "ask" /\ Asked.args = <<>> /\ phase # "failed"
Hides(name)    == name \in DOMAIN generics \/ name = "int"

NameParameter ==
    /\ Named /\ Asked.name \in DOMAIN generics
    /\ doing' = Answer(generics[Asked.name])
    /\ UNCHANGED <<Fixed, frames, Guards>>

NameBuiltin ==
    /\ Named /\ Asked.name = "int" /\ Asked.name \notin DOMAIN generics
    /\ doing' = Answer(IntType)
    /\ UNCHANGED <<Fixed, frames, Guards>>

NameStruct ==
    /\ Named /\ ~Hides(Asked.name) /\ Declared(Asked.name) /\ ~IsAlias(Asked.name)
    /\ doing' = Answer(StructType(Asked.name, <<>>))
    /\ UNCHANGED <<Fixed, frames, Guards>>

NameUnknown ==
    /\ Named /\ ~Hides(Asked.name) /\ ~Declared(Asked.name)
    /\ doing' = Fail("unknown", <<>>)
    /\ UNCHANGED <<Fixed, frames, Guards>>

---------------------------------------------------------------------------
(* `resolve_alias`.                                                        *)

NamesAlias == Named /\ ~Hides(Asked.name) /\ IsAlias(Asked.name)

\* The names from the alias on the path to where it is met again.
CycleFromStart(name) == Fail("cycle", <<name>> \o path)

CycleTo(name) ==
    LET k == CHOOSE k \in DOMAIN path : path[k] = name
    IN  Fail("cycle", <<name>> \o SubSeq(path, 1, k))

NameResolved ==
    /\ NamesAlias /\ marks[Asked.name] = "resolved"
    /\ doing' = Answer(memo[Asked.name])
    /\ UNCHANGED <<Fixed, frames, Guards>>

NameVisiting ==
    /\ NamesAlias /\ marks[Asked.name] = "visiting"
    /\ doing' = CycleTo(Asked.name)
    /\ UNCHANGED <<Fixed, frames, Guards>>

NameBareGeneric ==
    /\ NamesAlias /\ marks[Asked.name] = "unvisited" /\ IsGeneric(Asked.name)
    /\ doing' = Fail("arity", <<>>)
    /\ UNCHANGED <<Fixed, frames, Guards>>

VisitAlias ==
    /\ NamesAlias /\ marks[Asked.name] = "unvisited" /\ ~IsGeneric(Asked.name)
    /\ marks' = [marks EXCEPT ![Asked.name] = "visiting"]
    /\ path' = <<Asked.name>> \o path
    /\ frames' = <<AliasFrame(Asked.name)>> \o frames
    /\ doing' = Ask(Close(Decl(Asked.name).fields[1], NoEnv))
    /\ UNCHANGED <<Fixed, generics, memo>>

LeaveAliasAs(t) ==
    /\ At("answer", {"alias"})
    /\ marks' = [marks EXCEPT ![Innermost.name] = "resolved"]
    /\ memo' = [m \in DOMAIN memo \cup {Innermost.name} |-> IF m = Innermost.name THEN t ELSE memo[m]]
    /\ doing' = Answer(Wrapped(Innermost.name, <<>>, doing.what))
    /\ path' = Tail(path)
    /\ frames' = Rest
    /\ UNCHANGED <<Fixed, generics>>

LeaveAliasBare     == LeaveAliasAs(doing.what)

LeaveAlias == LeaveAliasAs(Wrapped(Innermost.name, <<>>, doing.what))

FailAliasVisiting ==
    /\ At("fail", {"alias"})
    /\ path' = Tail(path)
    /\ frames' = Rest
    /\ UNCHANGED <<Fixed, doing, generics, marks, memo>>

FailAlias ==
    /\ At("fail", {"alias"})
    /\ marks' = [marks EXCEPT ![Innermost.name] = "unvisited"]
    /\ path' = Tail(path)
    /\ frames' = Rest
    /\ UNCHANGED <<Fixed, doing, generics, memo>>

---------------------------------------------------------------------------
(* `resolve_applied_type`, `expand_generic_alias`, `resolve_generic_alias`. *)

Applied       == doing.how = "ask" /\ Asked.args # <<>> /\ phase # "failed"
Arguments     == CloseAll(Asked.args, Asked.env)
AppliesAlias  ==
    Applied /\ Asked.name \notin DOMAIN generics /\ IsAlias(Asked.name) /\ IsGeneric(Asked.name)

RightNumber   == Len(Asked.args) = Len(Decl(Asked.name).params)
OnPath(name)  == \E k \in DOMAIN path : path[k] = name

ExpandWrongNumber ==
    /\ AppliesAlias /\ ~RightNumber
    /\ doing' = Fail("arity", <<>>)
    /\ UNCHANGED <<Fixed, frames, Guards>>

ExpandOnPath ==
    /\ AppliesAlias /\ RightNumber /\ OnPath(Asked.name)
    /\ doing' = CycleTo(Asked.name)
    /\ UNCHANGED <<Fixed, frames, Guards>>

Expand ==
    /\ AppliesAlias /\ RightNumber /\ ~OnPath(Asked.name)
    /\ path' = <<Asked.name>> \o path
    /\ frames' = <<ExpandFrame(Asked.name, Arguments)>> \o frames
    /\ doing' = Ask(Close(Decl(Asked.name).fields[1], Bind(Decl(Asked.name).params, Arguments)))
    /\ UNCHANGED <<Fixed, generics, marks, memo>>

\* The body's type, or its error, waits until the arguments are resolved.
Expanded ==
    /\ At("answer", {"expand"}) \/ At("fail", {"expand"})
    /\ path' = Tail(path)
    /\ frames' = Under(AliasArgs(Innermost.name, Innermost.todo, doing))
    /\ doing' = GoOn
    /\ UNCHANGED <<Fixed, generics, marks, memo>>

ApplyBase ==
    /\ Applied /\ ~AppliesAlias
    /\ frames' = <<BaseFrame(Arguments)>> \o frames
    /\ doing' = Ask([Asked EXCEPT !.args = <<>>])
    /\ UNCHANGED <<Fixed, Guards>>

ApplyStruct ==
    /\ At("answer", {"base"}) /\ doing.what.type = "struct"
    /\ IF Len(Innermost.todo) = Len(Decl(doing.what.name).params)
       THEN frames' = Under(StructArgs(doing.what.name, Innermost.todo)) /\ doing' = GoOn
       ELSE frames' = Rest /\ doing' = Fail("arity", <<>>)
    /\ UNCHANGED <<Fixed, Guards>>

ApplyOther ==
    /\ At("answer", {"base"}) /\ doing.what.type # "struct"
    /\ frames' = Rest
    /\ doing' = Fail("kind", <<>>)
    /\ UNCHANGED <<Fixed, Guards>>

---------------------------------------------------------------------------
(* Lists of types: fields and arguments, up to the first error.            *)

Lists == {"fields", "struct args", "alias args"}

AskNext ==
    /\ At("on", Lists) /\ Innermost.todo # <<>>
    /\ doing' = Ask(Head(Innermost.todo))
    /\ frames' = Under([Innermost EXCEPT !.todo = Tail(@)])
    /\ UNCHANGED <<Fixed, Guards>>

TakeNext ==
    /\ At("answer", Lists)
    /\ frames' = Under([Innermost EXCEPT !.done = Append(@, doing.what)])
    /\ doing' = GoOn
    /\ UNCHANGED <<Fixed, Guards>>

FieldsDone ==
    /\ At("on", {"fields"}) /\ Innermost.todo = <<>>
    /\ checked' = checked \cup {[name |-> Innermost.name, scope |-> generics, fields |-> Innermost.done]}
    /\ generics' = Innermost.outer
    /\ frames' = Rest
    /\ UNCHANGED <<program, phase, todo, doing, marks, memo, path>>

FailFields ==
    /\ At("fail", {"fields"})
    /\ generics' = Innermost.outer
    /\ frames' = Rest
    /\ UNCHANGED <<Fixed, doing, marks, memo, path>>

StructArgsDone ==
    /\ At("on", {"struct args"}) /\ Innermost.todo = <<>>
    /\ doing' = Answer(StructType(Innermost.name, Innermost.done))
    /\ frames' = Rest
    /\ UNCHANGED <<Fixed, Guards>>

AliasArgsDone ==
    /\ At("on", {"alias args"}) /\ Innermost.todo = <<>>
    /\ doing' = IF Innermost.body.how = "fail" THEN Innermost.body
                ELSE Answer(Wrapped(Innermost.name, Innermost.done, Innermost.body.what))
    /\ frames' = Rest
    /\ UNCHANGED <<Fixed, Guards>>

FailCaller ==
    /\ At("fail", {"base", "struct args", "alias args"})
    /\ frames' = Rest
    /\ UNCHANGED <<Fixed, doing, Guards>>

---------------------------------------------------------------------------
Stopped == phase \in {"done", "failed"} /\ UNCHANGED vars

Driving    ==
    \/ ResolveStruct \/ StructsResolved \/ ResolveAlias \/ AliasResolved \/ AliasesResolved
    \/ ResolveInstance \/ Finish \/ ReportError
Naming     == NameParameter \/ NameBuiltin \/ NameStruct \/ NameUnknown
Aliasing   == NameResolved \/ NameVisiting \/ NameBareGeneric \/ VisitAlias \/ LeaveAlias \/ FailAlias
Applying   == ExpandWrongNumber \/ ExpandOnPath \/ Expand \/ Expanded \/ ApplyBase \/ ApplyStruct \/ ApplyOther
Listing    == AskNext \/ TakeNext \/ FieldsDone \/ FailFields \/ StructArgsDone \/ AliasArgsDone \/ FailCaller

Resolving == Driving \/ Naming \/ Aliasing \/ Applying \/ Listing
Next      == Resolving \/ Stopped

Spec == Init /\ [][Next]_vars

---------------------------------------------------------------------------
(* Properties.  What a program's types are is in TypeMeaning.              *)

FrameNames(kinds) == {frames[k].name : k \in {k \in DOMAIN frames : frames[k].of \in kinds}}

\* The variables are of their kinds, and the alias a list of arguments waits
\* for has ended.
TypeOK ==
    /\ phase \in {"structs", "aliases", "instances", "done", "failed"}
    /\ doing.how \in {"on", "ask", "answer", "fail"}
    /\ marks \in [{name \in DOMAIN program.decl : IsAlias(name)} -> {"unvisited", "visiting", "resolved"}]
    /\ DOMAIN memo = {name \in DOMAIN marks : marks[name] = "resolved"}
    /\ path \in Seq(DOMAIN marks)
    /\ \A k \in DOMAIN frames :
           /\ frames[k].of \in {"alias", "expand", "base"} \cup Lists
           /\ frames[k].of \in {"alias", "expand"} => frames[k].name \in DOMAIN marks

\* The path p names the aliases resolved by the frames fs, each once and in
\* their order.
ActiveIn(fs) == {k \in DOMAIN fs : fs[k].of \in {"alias", "expand"}}
PathNames(p) == {p[a] : a \in DOMAIN p}

Follows(p, fs) ==
    /\ PathNames(p) = {fs[k].name : k \in ActiveIn(fs)}
    /\ \A a, b \in DOMAIN p, j, k \in ActiveIn(fs) :
           p[a] = fs[j].name /\ p[b] = fs[k].name => (a < b <=> j < k)

\* The aliases the path names are those being resolved, each once, and the
\* ones with a mark to show it are the plain ones among them: an alias that
\* was left, by an error or not, is in nobody's way.
PathIsActive ==
    /\ Follows(path, frames)
    /\ {name \in DOMAIN marks : marks[name] = "visiting"} = FrameNames({"alias"})

\* What is reported as a cycle is one: it ends where it began, and every
\* alias in it mentions the next.
Mentions(name) ==
    LET e      == Decl(name).fields[1]
        inner  == {e.args[k] : k \in DOMAIN e.args}
    IN  {e.name} \cup {a.name : a \in inner} \cup UNION {{a.args[k].name : k \in DOMAIN a.args} : a \in inner}

CyclesAreReal ==
    doing.how = "fail" /\ doing.what.why = "cycle" =>
        LET names == doing.what.names IN
        /\ names[1] = names[Len(names)]
        /\ \A k \in 2..Len(names) : names[k - 1] \in Mentions(names[k])

===========================================================================
