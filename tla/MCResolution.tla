---------------------------- MODULE MCResolution --------------------------
(* Resolution for TLC: every program of types below with two constants,    *)
(* and every program of four constants, two of them in an imported file,   *)
(* with no types declared.                                                 *)
EXTENDS Resolution, ConstantMeaning, TypeMeaning

CONSTANTS Imported, Importing

---------------------------------------------------------------------------
(* Types: a struct S<T>, plain aliases A and B, a generic alias G<T> and,  *)
(* in some programs, one more alias or struct; in several orders.  U is    *)
(* declared nowhere.                                                       *)

N(name)      == [name |-> name, args |-> <<>>]
Ap(name, e)  == [name |-> name, args |-> <<e>>]
Ap2(name, e, f) == [name |-> name, args |-> <<e, f>>]

Struct(params, fields)  == [kind |-> "struct", params |-> params, fields |-> fields, nominal |-> FALSE]
Alias(target)           == [kind |-> "alias", params |-> <<>>, fields |-> <<target>>, nominal |-> FALSE]
Generic(params, target) == [Alias(target) EXCEPT !.params = params]
Nominal(d)              == [d EXCEPT !.nominal = TRUE]

MCNames == {"S", "A", "B", "G", "P"}
Orders  == {<<"S", "A", "B", "G", "P">>, <<"G", "P", "B", "A", "S">>}

Program(s, a, b, g, p, order) ==
    [order |-> order, decl |-> [name \in MCNames |-> CASE name = "S" -> s [] name = "A" -> a [] name = "B" -> b
                                                        [] name = "G" -> g [] name = "P" -> p]]

Structs  == {Struct(<<"T">>, <<N("T"), e>>) : e \in {N("A"), Ap("G", N("T")), Ap("S", Ap("S", N("T")))}}
Targets  == {N("int"), N("B"), N("S"), N("U"), Ap("S", N("B")), Ap("G", N("B")), Ap("S", Ap("G", N("int"))), Ap("B", N("int"))}
ATargets == {Alias(t) : t \in Targets \cup {N("G"), Ap2("S", N("B"), N("int"))}} \cup {Nominal(Alias(t)) : t \in {N("B"), Ap("G", N("B"))}}
BTargets == {N("A"), N("S"), Ap("G", N("int")), Ap("G", N("A")), Ap("S", N("A")), Ap2("G", N("int"), N("A"))}
GTargets == {N("T"), N("A"), Ap("S", N("T")), Ap("S", N("U")), Ap("G", N("T"))}
Generics == {Generic(<<"T">>, t) : t \in GTargets} \cup {Nominal(Generic(<<"T">>, N("T")))}
PDecls   == {Struct(<<>>, <<Ap("G", N("A")), N("B")>>), Nominal(Generic(<<"X", "T">>, Ap("S", Ap("G", N("X"))))),
             Alias(Ap("P", N("int"))), Nominal(Alias(N("B")))}

AllPrograms ==
    {Program(s, a, Alias(b), g, p, o) :
        s \in Structs, a \in ATargets, b \in BTargets, g \in Generics, p \in PDecls, o \in Orders}

\* A generic alias may be reached from the arguments it is applied to.
SubExprs(e) ==
    {e} \cup {e.args[k] : k \in DOMAIN e.args} \cup UNION {{e.args[k].args[j] : j \in DOMAIN e.args[k].args} : k \in DOMAIN e.args}
ExprsOf(d)  == UNION {SubExprs(d.fields[k]) : k \in DOMAIN d.fields}
NamesIn(S)  == {e.name : e \in UNION {SubExprs(e) : e \in S}}
Step(p, S)  == S \cup UNION {NamesIn(ExprsOf(p.decl[n])) : n \in {n \in S \cap DOMAIN p.decl : p.decl[n].kind = "alias"}}
Reached(p, S) == Step(p, Step(p, Step(p, Step(p, S))))
SelfApplied(p) ==
    \E n \in DOMAIN p.decl : \E e \in ExprsOf(p.decl[n]) :
        /\ e.args # <<>> /\ e.name \in DOMAIN p.decl /\ p.decl[e.name].kind = "alias"
        /\ p.decl[e.name].params # <<>> /\ e.name \in Reached(p, NamesIn({e.args[k] : k \in DOMAIN e.args}))

MCPrograms == {p \in AllPrograms : ~SelfApplied(p)}

\* For the disagreement with the book: G applied to what it is applied in,
\* as written and by way of B.  As Programs, these break CyclesAreReal.
MCSelfApplied ==
    {Program(Struct(<<"T">>, <<N("T")>>), Alias(Ap("G", e)), Alias(Ap("G", N("int"))),
             Generic(<<"T">>, Ap("S", N("T"))), Alias(N("int")), o) : e \in {N("B"), Ap("G", N("int"))}, o \in Orders}

---------------------------------------------------------------------------
(* Constants.                                                              *)

Is(how, operands)  == [is |-> how, operands |-> operands, type |-> "none", home |-> Importing]
Same(o)            == Is("itself", <<o>>)
Typed(d, type)     == [d EXCEPT !.type = type]

MCConstNames == {"a", "b", "c", "d"}
ConstProgram(order, a, b, c, d) ==
    [order |-> order,
     decl |-> [name \in {order[k] : k \in DOMAIN order} |->
                  CASE name = "a" -> [a EXCEPT !.home = Imported]
                    [] name = "b" -> [b EXCEPT !.home = Imported]
                    [] name = "c" -> c
                    [] name = "d" -> d]]

As == {Typed(c, t) : c \in {Same(Lit(1)), Same(Lit(0)), Is("struct", <<Lit(1)>>)},
                     t \in {"none", "checked", "wrapped", "computed", "refused"}}
      \cup {Is("variant", <<Lit(1)>>), Same(Read("b")), Same(Read("S"))}
Bs == {Same(Read("a")), Same(Field("a")), Typed(Same(Read("a")), "wrapped"),
       Is("sum", <<Read("a"), Lit(1)>>), Is("sum", <<Field("a"), Lit(1)>>), Is("sum", <<Read("b"), Lit(1)>>), Is("quotient", <<Lit(1), Read("a")>>)}
Cs == {Same(Read("b")), Same(Read("d")), Typed(Same(Read("d")), "computed"),
       Is("struct", <<Read("d")>>), Is("and", <<Lit(0), Read("d")>>), Is("quotient", <<Read("b"), Read("d")>>)}
Ds == {Same(Read("c")), Same(Field("c")), Is("sum", <<Read("b"), Read("a")>>), Is("and", <<Read("c"), Read("b")>>),
       Is("struct", <<Field("b")>>), Typed(Same(Lit(2)), "checked")}

FourConstants == {ConstProgram(<<"a", "b", "c", "d">>, a, b, c, d) : a \in As, b \in Bs, c \in Cs, d \in Ds}
TwoConstants  == ConstProgram(<<"a", "c">>, Same(Lit(1)), Same(Lit(0)), Same(Read("a")), Same(Lit(0)))
NoTypes       == [order |-> <<>>, decl |-> [name \in {} |-> Alias(N("int"))]]

MCTypePrograms  == MCPrograms \cup {NoTypes}
MCConstPrograms == FourConstants \cup {TwoConstants}
MCDeclarations  ==
    {[types |-> p, consts |-> TwoConstants] : p \in MCPrograms} \cup {[types |-> NoTypes, consts |-> c] : c \in FourConstants}

MCSelfAppliedDeclarations == {[types |-> p, consts |-> TwoConstants] : p \in MCSelfApplied}

\* RefusedWithCause without its exception, which does not hold: a constant
\* that is a variant of a generic enum is refused for not being an integer.
RefusedWithCauseAlways == stage = "refused" => ~AllHaveValues \/ Circular

\* A file with a constant written before its import, and one after.
MCLateConstPrograms ==
    {ConstProgram(<<"d", "a", "b", "c">>, Typed(Same(Lit(1)), t), Same(Read("a")), Same(Lit(2)), d) :
        t \in {"none", "wrapped", "refused"}, d \in {Same(Read("b")), Same(Read("c")), Is("sum", <<Read("a"), Read("c")>>)}}
MCLateDeclarations == {[types |-> NoTypes, consts |-> c] : c \in MCLateConstPrograms}

===========================================================================
