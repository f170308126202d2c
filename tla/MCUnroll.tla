------------------------------ MODULE MCUnroll -----------------------------
(* Programs of two modules: every body below inside every pair of          *)
(* wrappers, over a constant that the first module exports.                *)
EXTENDS UnrollMeaning

i == <<"i">>
j == <<"j">>
s == <<"s">>
t == <<"t">>
n == <<"n">>
I == Name(i)
J == Name(j)
S == Name(s)
N == Name(n)

---------------------------------------------------------------------------
\* Declarations whose names need their loops, and what they bind themselves.
MCBodies ==
    { <<Const(<<Text("r"), I, J>>, Op("sum", <<I, N>>)), Invoke(<<"use">>, <<Spliced(<<Text("r"), I, J>>), J>>)>>,
      <<Const(<<Text("r"), J>>, Op("quotient", <<IntOf(4), I>>)), Label(<<"l">>)>>,
      <<Macro(<<Text("m"), I, J>>, {}, <<j>>, <<I>>, <<Emit(Op("sum", <<I, J>>)), For(<<"k">>, Range(IntOf(0), J), <<Emit(I)>>)>>)>>,
      <<Macro(<<Text("g"), J>>, {i}, <<s>>, <<I, J>>, <<Emit(Op("sum", <<I, S>>))>>)>>,
      <<Struct(<<Text("S"), I, J>>, {}, <<Field(<<Text("f"), J>>, <<I>>), FieldsFor(i, Range(IntOf(0), I), <<Field(<<Text("g"), I>>, <<I, J>>)>>)>>)>>,
      <<Struct(<<Text("G"), J>>, {i}, <<Field(<<Text("f")>>, <<I, J>>)>>), Enum(<<Text("E")>>)>>,
      <<TypeAlias(<<Text("T"), I, J>>, {j}, Op("sum", <<I, J>>))>>,
      <<If(Op("less", <<J, IntOf(1)>>), <<NextOf(<<>>, <<Op("sum", <<S, I>>)>>)>>, <<>>),
        Const(<<Text("r"), I, J, S>>, Op("difference", <<S, IntOf(5)>>))>>,
      <<Const(<<Text("r"), I, J, S>>, S), NextOf(<<t, s>>, <<S, Op("sum", <<S, Name(t)>>)>>)>>,
      <<Const(<<Text("n")>>, Op("sum", <<N, IntOf(1)>>)), Invoke(<<"use">>, <<N>>)>>,
      <<NextOf(<<s, s>>, <<I, J>>)>> }

\* Around them, over a variable: loops, folds of one and two accumulators,
\* for a constant and alone, and choices.
Upto  == Range(IntOf(0), IntOf(2))
MCWrappers(x, k, body) ==
    { <<For(x, Upto, body)>>,
      <<For(x, RangeTo(Op("negate", <<N>>), IntOf(0)), body)>>,
      <<Const(<<Text(k)>>, Fold(x, Upto, <<s>>, <<N>>, body)), Invoke(<<"use">>, <<Name(<<k>>)>>)>>,
      <<Const(<<Text(k)>>, Fold(x, Range(IntOf(1), IntOf(3)), <<s, t>>, <<IntOf(1), N>>, body))>>,
      <<If(Op("equal", <<N, IntOf(1)>>), body, <<Const(<<Text("x")>>, IntOf(3))>> \o body)>>,
      <<Match(N, <<IntOf(1), Op("quotient", <<IntOf(2), Op("difference", <<N, IntOf(3)>>)>>)>>,
              <<<<Const(Literal(x), IntOf(0))>> \o body, body, <<>>>>)>> }

MCImporting ==
    UNION {UNION {MCWrappers(i, "o", inner) : inner \in MCWrappers(j, "p", body)} : body \in MCBodies}

MCImported ==
    { <<Const(Literal(n), IntOf(1))>>,
      <<For(i, RangeTo(IntOf(1), IntOf(2)), <<Const(<<Text("n"), I>>, I)>>),
        Const(Literal(n), Op("product", <<Spliced(<<Text("n"), IntOf(2)>>), Spliced(<<Text("n"), IntOf(1)>>)>>))>> }

\* Programs about one thing each: the limit, what may not be there, what is
\* not constant, and an imported constant that the module has itself.
MCPlain ==
    { <<For(i, Range(IntOf(0), IntOf(9)), <<Invoke(<<"use">>, <<I>>)>>)>>,
      <<Fold(i, Range(IntOf(0), IntOf(9)), <<s>>, <<IntOf(0)>>, <<NextOf(<<>>, <<Op("sum", <<S, I>>)>>)>>)>>,
      <<For(i, Upto, <<Emit(I)>>)>>, <<NextOf(<<>>, <<N>>)>>,
      <<For(i, N, <<>>)>>, <<Fold(i, N, <<s>>, <<N>>, <<>>)>>, <<Fold(i, Upto, <<s, s>>, <<N, N>>, <<>>)>>,
      <<Fold(i, Upto, <<s>>, <<Call(Name(<<"f">>), <<>>)>>, <<>>)>>,
      <<If(Call(Name(<<"f">>), <<>>), <<>>, <<>>)>>,
      <<If(Op("or", <<N, Op("quotient", <<N, IntOf(0)>>)>>), <<Invoke(<<"use">>, <<>>)>>, <<>>),
        If(Op("and", <<Op("less", <<N, IntOf(0)>>), Op("quotient", <<N, IntOf(0)>>)>>), <<>>, <<Label(n)>>)>>,
      <<For(i, Upto, <<Label(<<"l">>)>>)>>,
      <<Const(Literal(n), Call(Name(<<"f">>), <<>>)), If(N, <<>>, <<>>)>>,
      <<Const(Literal(n), IntOf(0)), If(N, <<>>, <<Invoke(<<"use">>, <<>>)>>)>>,
      <<For(i, Range(Op("right", <<Op("negate", <<IntOf(3)>>), N>>), Op("remainder", <<IntOf(5), IntOf(3)>>)),
            <<If(Op("not", <<I>>), <<>>, <<Invoke(<<"use">>, <<Op("left", <<I, N>>), Op("flip", <<I>>)>>)>>)>>)>>,
      <<Fold(i, Upto, <<s>>, <<N>>, <<For(j, Range(IntOf(0), I), <<NextOf(<<>>, <<S>>)>>)>>)>>,
      <<Fold(i, Upto, <<s>>, <<N>>, <<Fold(j, Upto, <<t>>, <<S>>, <<NextOf(<<>>, <<J>>)>>), NextOf(<<>>, <<I>>),
        Invoke(<<"never">>, <<>>)>>)>> }

MCPrograms == [imported : MCImported, importing : MCImporting \cup MCPlain, sees : {{n}}]

\* A loop over a variable inside a loop over the same one.
MCNested ==
    [imported : {<<For(x, RangeTo(IntOf(0), IntOf(3)), <<For(i, Range(IntOf(0), Name(x)), <<Invoke(<<"use">>, <<I>>)>>)>>)>> : x \in {i, j, s}},
     importing : {<<>>}, sees : {{}}]

MCUnrollSpec == UnrollInit /\ [][Unrolling]_unrollVars

===========================================================================
