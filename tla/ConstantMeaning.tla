-------------------------- MODULE ConstantMeaning -------------------------
(* What the constants of a program are, without marks, order or memory,    *)
(* for Constants to be compared with: the integer one folds to, and the    *)
(* value it has.                                                           *)
EXTENDS Constants

\* What a constant comes to, inside the evaluation of some others: whether
\* it is of the shape of an integer ("shape"), what it folds to ("fold") or
\* its value ("value").
RECURSIVE Comes(_, _, _)

Comes(how, name, inside) ==
    IF ~IsConst(name) \/ name \in inside THEN NoValue
    ELSE LET d        == Const(name)
             Inner(o) == Comes(how, o.name, inside \cup {name})
             Shaped(o) == o.of # "int" /\ Comes("shape", o.name, {}) # NoValue
             Folded(o) == IF o.of = "name" /\ Shaped(o) THEN Inner(o) ELSE NoValue
             Held(o)   == IF Inner(o).is = "struct" THEN IntValue(Inner(o).int) ELSE NoValue
             Side(o) == CASE o.of = "int"                      -> IntValue(o.int)
                          [] o.of # "int" /\ how = "fold"      -> Folded(o)
                          [] o.of = "name" /\ how = "value"    -> Inner(o)
                          [] o.of = "field" /\ how = "value"   -> Held(o)
             sides   == [k \in DOMAIN d.operands |-> Side(d.operands[k])]
             NoneFolds(o) == Shaped(o) /\ Inner(o) = NoValue
             first   == d.operands[1]
         IN CASE how = "shape" /\ d.is = "itself" /\ first.of = "name"    -> Inner(first)
              [] how = "shape" /\ ~(d.is = "itself" /\ first.of = "name") ->
                     IF d.is = "struct" \/ (d.is = "itself" /\ first.of = "field") THEN NoValue ELSE Truth(TRUE)
              [] how = "fold" ->
                     IF \E k \in DOMAIN d.operands : NoneFolds(d.operands[k]) THEN NoValue ELSE ApplyTo(d.is, sides)
              [] how = "value" ->
                     IF d.is # "and" /\ \E k \in DOMAIN sides : sides[k] = NoValue THEN NoValue
                     ELSE Converted(ValueOf(d.is, sides), d.type)

FoldMeant(name)  == Comes("fold", name, {})
ValueMeant(name) == Comes("value", name, {})

\* The second evaluation runs in a module, the first in none.
Valuing == constModule # NoModule

\* Whatever order the constants were come to in, and from where, each comes
\* to what it is by itself.
EvaluatedAsMeant ==
    \A name \in DOMAIN constMemo : constMemo[name] = IF Valuing THEN ValueMeant(name) ELSE FoldMeant(name)

AllHaveValues == \A name \in DOMAIN constants.decl : ValueMeant(name) # NoValue

\* Some constant mentions itself, by way of others or not.
Mentioned(name) == {o.name : o \in {x \in Range(Const(name).operands) : x.of # "int"}} \cap DOMAIN constants.decl
Circular ==
    LET within[k \in Nat] ==     \* who mentions whom, by way of k others at most
            IF k = 0 THEN [name \in DOMAIN constants.decl |-> Mentioned(name)]
            ELSE [name \in DOMAIN constants.decl |->
                     Mentioned(name) \cup UNION {within[k - 1][n] : n \in Mentioned(name)}]
    IN  \E name \in DOMAIN constants.decl : name \in within[Cardinality(ConstNames)][name]

\* A field, or a constant that stands for one.
OfField(o) ==
    \/ o.of = "field"
    \/ o.of = "name" /\ IsConst(LinkAfter(o.name)) /\ Const(LinkAfter(o.name)).operands[1].of = "field"

\* No constant is a variant of a generic enum, or operates on a field: the
\* folder takes both for integers, and can fold neither.
NoneMistaken ==
    \A name \in DOMAIN constants.decl :
        /\ Const(name).is # "variant"
        /\ Const(name).is \in Arithmetic => \A o \in Range(Const(name).operands) : ~OfField(o)

\* Constants are accepted only if each has a value; and unless the folder
\* mistakes one for an integer they are refused only if one has none, or
\* they lead round in a circle.
RefusedWithCause ==
    /\ stage = "valued" => AllHaveValues
    /\ stage = "refused" /\ NoneMistaken => ~AllHaveValues \/ Circular

\* The integer a generic argument sees is the one in the constant's value,
\* unless a conversion to its declared type makes another.
FoldsAreValues ==
    Valuing /\ (\A name \in DOMAIN constants.decl : Const(name).type # "computed") =>
        \A name \in DOMAIN folded \cap DOMAIN constMemo : folded[name].int = constMemo[name].int

\* Constants are what they mean to both evaluators, in any order, the marks
\* show which are known, and one without a value or a circle is what they are
\* refused for, unless the folder mistakes one for an integer.
ConstantsAsMeant == ConstTypeOK /\ EvaluatedAsMeant /\ RefusedWithCause /\ FoldsAreValues

===========================================================================
