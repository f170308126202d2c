-------------------------------- MODULE Tree ------------------------------
(* Statements and expressions as trees, the substitution of expressions    *)
(* for names in them (src/src/expander.rs), and the integer evaluator      *)
(* (src/src/eval.rs).                                                      *)
(*                                                                         *)
(* Every node has one shape: `parts` is a declared name, texts and         *)
(* splices; `args` are expressions in the scope of the node itself;        *)
(* `scopes` are the nodes inside it, each list with the names it binds.    *)
(* A name is the sequence of the texts it was built from.                  *)
EXTENDS Integers, Sequences, TLC

Node(is) == [is |-> is, name |-> <<>>, int |-> 0, parts |-> <<>>, args |-> <<>>, names |-> <<>>, scopes |-> <<>>]
Over(binds, nodes) == [binds |-> binds, nodes |-> nodes]

---------------------------------------------------------------------------
(* Expressions.                                                            *)

IntOf(v)        == [Node("int") EXCEPT !.int = v]
Name(n)        == [Node("name") EXCEPT !.name = n]
Op(op, args)   == [Node("op") EXCEPT !.name = <<op>>, !.args = args]
Range(a, b)    == [Node("range") EXCEPT !.args = <<a, b>>]
RangeTo(a, b)  == [Node("range to") EXCEPT !.args = <<a, b>>]
Call(f, args)  == [Node("call") EXCEPT !.args = <<f>> \o args]
Text(t)        == [Node("text") EXCEPT !.name = <<t>>]
Spliced(parts) == [Node("spliced") EXCEPT !.parts = parts]

\* An integer as source: a negative one has no literal of its own.
IntLiteral(v) == IF v < 0 THEN Op("negate", <<IntOf(-v)>>) ELSE IntOf(v)

---------------------------------------------------------------------------
(* Statements.  What a declaration's own parameters bind is bound in its   *)
(* scopes, not in its name.                                                *)

Const(parts, value)  == [Node("const") EXCEPT !.parts = parts, !.args = <<value>>]
Invoke(f, args)      == [Node("invoke") EXCEPT !.name = f, !.args = args]
Label(n)             == [Node("label") EXCEPT !.name = n]
Enum(parts)          == [Node("enum") EXCEPT !.parts = parts]

Struct(parts, generics, items) ==
    [Node("struct") EXCEPT !.parts = parts, !.scopes = <<Over(generics, items)>>]

Field(parts, args) == [Node("field") EXCEPT !.parts = parts, !.args = args]

\* @for among a struct's fields: its variable is not an expression.
FieldsFor(var, range, items) ==
    [Node("fields for") EXCEPT !.name = var, !.args = <<range>>, !.scopes = <<Over({var}, items)>>]

TypeAlias(parts, generics, target) ==
    [Node("type") EXCEPT !.parts = parts, !.scopes = <<Over(generics, <<target>>)>>]

\* A macro's generics are bound in its parameters' defaults and its body,
\* its parameters in the body only.
Macro(parts, generics, params, defaults, body) ==
    [Node("macro") EXCEPT !.parts = parts, !.names = params,
        !.scopes = <<Over(generics, defaults), Over(generics \cup {params[k] : k \in DOMAIN params}, body)>>]

For(var, range, body) == [Node("for") EXCEPT !.args = <<Name(var), range>>, !.scopes = <<Over({var}, body)>>]
If(cond, then, else)  == [Node("if") EXCEPT !.args = <<cond>>, !.scopes = <<Over({}, then), Over({}, else)>>]

\* patterns[k] is the pattern of the k-th arm; a last body without one is `_`.
Match(value, patterns, bodies) ==
    [Node("match") EXCEPT !.args = <<value>> \o patterns, !.scopes = [k \in DOMAIN bodies |-> Over({}, bodies[k])]]

Fold(var, range, accumulators, initial, body) ==
    [Node("fold") EXCEPT !.args = <<Name(var), range>> \o initial, !.names = accumulators,
        !.scopes = <<Over({var} \cup {accumulators[k] : k \in DOMAIN accumulators}, body)>>]

\* `@next value` when `updated` is empty, `@next a = ..., b = ...` otherwise.
NextOf(updated, values) == [Node("next") EXCEPT !.args = values, !.names = updated]
Emit(value)             == [Node("emit") EXCEPT !.args = <<value>>]

---------------------------------------------------------------------------
(* Substitution.                                                           *)

\* Kinds `substitute_statement` copies as they are, and the leaves.
Untouched == {"enum", "label", "section", "import", "int", "text"}

\* `without_shadowed`: what is bound inside is not substituted there.
WithAll(s, bound) == s
Without(s, bound) == [n \in DOMAIN s \ bound |-> s[n]]

RECURSIVE Substitute(_, _)
Substitute(n, s) ==
    IF n.is = "name" THEN IF n.name \in DOMAIN s THEN s[n.name] ELSE n
    ELSE IF n.is \in Untouched THEN n
    ELSE [n EXCEPT
            !.parts  = [k \in DOMAIN @ |-> Substitute(@[k], s)],
            !.args   = [k \in DOMAIN @ |-> Substitute(@[k], s)],
            !.scopes = [k \in DOMAIN @ |-> LET inner == Without(s, @[k].binds) IN
                           [@[k] EXCEPT !.nodes = [j \in DOMAIN @ |-> Substitute(@[j], inner)]]]]

SubstituteAll(nodes, s) == [k \in DOMAIN nodes |-> Substitute(nodes[k], s)]

---------------------------------------------------------------------------
(* Evaluation over integers: a value, or why there is none.                *)

Value(v)      == [why |-> "none", int |-> v]
NoValue(why)  == [why |-> why, int |-> 0]
Truth(b)      == Value(IF b THEN 1 ELSE 0)

\* Division drops the fraction, towards zero.
Size(v)        == IF v < 0 THEN -v ELSE v
Quotient(l, r) == LET q == Size(l) \div Size(r) IN IF (l < 0) = (r < 0) THEN q ELSE -q

\* A negative shift is none.
Shift(v) == IF v < 0 THEN 0 ELSE v

\* The operators of two values, but the bitwise ones.
Binary(op, l, r) ==
    CASE op = "sum"        -> Value(l + r)
      [] op = "difference" -> Value(l - r)
      [] op = "product"    -> Value(l * r)
      [] op = "quotient"   -> IF r = 0 THEN NoValue("division by zero") ELSE Value(Quotient(l, r))
      [] op = "remainder"  -> IF r = 0 THEN NoValue("division by zero") ELSE Value(l - r * Quotient(l, r))
      [] op = "left"       -> Value(l * 2^Shift(r))
      [] op = "right"      -> Value(l \div 2^Shift(r))
      [] op = "less"       -> Truth(l < r)
      [] op = "up to"      -> Truth(l <= r)
      [] op = "greater"    -> Truth(l > r)
      [] op = "at least"   -> Truth(l >= r)
      [] op = "equal"      -> Truth(l = r)
      [] op = "different"  -> Truth(l # r)
      [] op = "and"        -> Truth(l # 0 /\ r # 0)
      [] op = "or"         -> Truth(l # 0 \/ r # 0)

RECURSIVE Eval(_, _)
Eval(n, consts) ==
    LET Looked(name) == IF name \in DOMAIN consts THEN Value(consts[name]) ELSE NoValue("unknown constant")
        at(k) == Eval(n.args[k], consts)
        part(k) == IF n.parts[k].is = "text" THEN Value(0) ELSE Eval(n.parts[k], consts)
    IN CASE n.is = "int"  -> Value(n.int)
         [] n.is = "name" -> Looked(n.name)
         [] n.is = "spliced" ->
                IF \E k \in DOMAIN n.parts : part(k).why # "none"
                THEN part(CHOOSE k \in DOMAIN n.parts :
                             part(k).why # "none" /\ \A j \in 1..(k - 1) : part(j).why = "none")
                ELSE Looked([k \in DOMAIN n.parts |-> IF n.parts[k].is = "text" THEN n.parts[k].name[1]
                                                      ELSE ToString(part(k).int)])
         [] n.is = "op" /\ Len(n.args) = 1 ->
                IF at(1).why # "none" THEN at(1)
                ELSE (CASE n.name = <<"negate">> -> Value(-at(1).int)
                        [] n.name = <<"not">>    -> Truth(at(1).int = 0)
                        [] n.name = <<"flip">>   -> Value(-(at(1).int + 1)))
         [] n.is = "op" /\ Len(n.args) = 2 ->
                IF at(1).why # "none" THEN at(1)
                ELSE IF n.name = <<"and">> /\ at(1).int = 0 THEN Value(0)
                ELSE IF n.name = <<"or">> /\ at(1).int # 0 THEN Value(1)
                ELSE IF at(2).why # "none" THEN at(2)
                ELSE Binary(n.name[1], at(1).int, at(2).int)
         [] OTHER -> NoValue("not constant")

\* The texts of a declared name, its splices evaluated.
Folded(parts, consts) ==
    LET value(k) == IF parts[k].is = "text" THEN Value(0) ELSE Eval(parts[k], consts)
        bad      == {k \in DOMAIN parts : value(k).why # "none"}
    IN [why  |-> IF bad = {} THEN "none" ELSE value(CHOOSE k \in bad : \A j \in bad : k <= j).why,
        name |-> [k \in DOMAIN parts |-> IF parts[k].is = "text" THEN parts[k].name[1] ELSE ToString(value(k).int)]]

\* A name written out: its parts are all texts.
Literal(name) == [k \in DOMAIN name |-> Text(name[k])]
IsLiteral(parts) == \A k \in DOMAIN parts : parts[k].is = "text"
NameOf(parts) == [k \in DOMAIN parts |-> parts[k].name[1]]

===========================================================================
