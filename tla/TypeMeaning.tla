---------------------------- MODULE TypeMeaning ---------------------------
(* What the declared types of a program are, as the book tells it          *)
(* (docs/book/src/types/aliases.md, generics): an alias is another name    *)
(* for its target, where a parameter is the argument it was given.  A      *)
(* recursive definition without marks, path or memory, for TypeResolution  *)
(* to be compared with.                                                    *)
EXTENDS TypeResolution

Meaningless == [type |-> "none", name |-> "none", args |-> <<>>, under |-> <<>>]
Means(t)    == t # Meaningless
WrapMeant(name, args, t) == IF Means(t) THEN Wrapped(name, args, t) ELSE Meaningless

\* The type of e, if the parameters are those of scope; `inside` are the
\* aliases whose targets e is part of.
RECURSIVE Meant(_, _, _)

Plain(name, scope, inside) ==
    IF name \in DOMAIN scope THEN scope[name]
    ELSE IF name = "int" THEN IntType
    ELSE IF ~Declared(name) THEN Meaningless
    ELSE IF ~IsAlias(name) THEN StructType(name, <<>>)
    ELSE IF IsGeneric(name) \/ name \in inside THEN Meaningless
    ELSE WrapMeant(name, <<>>, Meant(Decl(name).fields[1], NoEnv, inside \cup {name}))

Meant(e, scope, inside) ==
    LET args == [k \in DOMAIN e.args |-> Meant(e.args[k], scope, inside)] IN
    IF e.args = <<>> THEN Plain(e.name, scope, inside)
    ELSE IF \E k \in DOMAIN args : ~Means(args[k]) THEN Meaningless
    ELSE IF e.name \notin DOMAIN scope /\ IsAlias(e.name) /\ IsGeneric(e.name)
    THEN IF Len(args) # Len(Decl(e.name).params) \/ e.name \in inside THEN Meaningless
         ELSE WrapMeant(e.name, args,
                        Meant(Decl(e.name).fields[1], Bind(Decl(e.name).params, args), inside \cup {e.name}))
    ELSE LET base == Plain(e.name, scope, inside) IN
         IF base.type = "struct" /\ Len(Decl(base.name).params) = Len(args)
         THEN StructType(base.name, args) ELSE Meaningless

FieldsMeant(name, scope) == [k \in DOMAIN Decl(name).fields |-> Meant(Decl(name).fields[k], scope, {})]
AllMean(ts)              == \A k \in DOMAIN ts : Means(ts[k])

\* A struct on its own, its parameters standing for themselves.
Abstract(name) ==
    LET params == {Decl(name).params[k] : k \in DOMAIN Decl(name).params} IN [p \in params |-> ParamType(p)]

AliasMeant(name) == Plain(name, NoEnv, {})
InstanceMeans(t) == t.type = "struct" => AllMean(FieldsMeant(t.name, Bind(Decl(t.name).params, t.args)))

WellTyped ==
    /\ \A name \in DOMAIN program.decl :
           Decl(name).kind = "struct" => AllMean(FieldsMeant(name, Abstract(name)))
    /\ \A k \in DOMAIN PlainAliases :
           LET t == AliasMeant(PlainAliases[k]) IN Means(t) /\ InstanceMeans(Strip(t))

\* Whatever order aliases were come to in, and from where, one that is
\* resolved is remembered as what it means by itself, and the fields of a
\* struct resolved to what they mean for its arguments.
ResolvedAsMeant ==
    /\ \A name \in DOMAIN memo : memo[name] = AliasMeant(name)
    /\ \A c \in checked : c.fields = FieldsMeant(c.name, c.scope)

\* The program is refused if, and only if, a declaration has no meaning.
RefusedIfIllTyped ==
    /\ phase = "done" => WellTyped
    /\ phase = "failed" => ~WellTyped

\* Types are what they mean, whatever was resolved before them, and those
\* without a meaning are what a program is refused for.
TypesAsMeant == ResolvedAsMeant /\ RefusedIfIllTyped

===========================================================================
