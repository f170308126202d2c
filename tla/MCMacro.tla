------------------------------ MODULE MCMacro -----------------------------
(* Programs of macros for TLC: a main macro m over a helper h, in every    *)
(* pairing of a way to use h with a kind of helper; loops around jumps;    *)
(* recursion to the limits; overloads with probes; hooks; labels read      *)
(* before and after they are reached.                                      *)
EXTENDS MacroMeaning

MCLabels == {"here", "end"}

V(of)     == [of |-> of, plus |-> 0]
N         == V("n")
Less      == [of |-> "n", plus |-> -1]
More      == [of |-> "acc", plus |-> 1]
Lit(k)    == [of |-> "0", plus |-> k]

EmitS(e)         == [op |-> "emit", value |-> e]
InSection(s)     == [op |-> "section", name |-> s]
AssertS(e)       == [op |-> "assert", value |-> e]
If(e, body, els) == [op |-> "if", value |-> e, body |-> body, other |-> els]
For(k, body)     == [op |-> "for", times |-> k, body |-> body]
Fold(use, k, b)  == [op |-> "fold", use |-> use, init |-> Lit(1), times |-> k, body |-> b]
Do(use, name, e) == [op |-> "call", use |-> use, name |-> name, arg |-> e]
NextS(e)         == [op |-> "next", value |-> e]
Return(e)        == [op |-> "return", value |-> e]
Stop             == [op |-> "stop"]

Uses == {"statement", "value", "return", "expr"}

Plain(body) == [module |-> "lib", leaks |-> FALSE, check |-> None, before |-> <<>>, after |-> <<>>,
                returns |-> FALSE, body |-> body]
Leaky(body) == [Plain(body) EXCEPT !.leaks = TRUE]
Main(body)  == [Plain(body) EXCEPT !.module = "main"]

Label(l) == [op |-> "label", name |-> l]
Sec(s)   == [op |-> "section", name |-> s]
Run(name, e) == [op |-> "call", name |-> name, arg |-> e]

Prog(m, h, c, top) ==
    [macros |-> [name \in {"m", "h", "c"} |-> CASE name = "m" -> m [] name = "h" -> h [] name = "c" -> c],
     top |-> top]

Once     == <<Run("m", Lit(1)), Label("end")>>
Twice    == <<Label("here"), Run("m", Lit(1)), Sec("data"), Run("h", V("end")), Label("end"), Run("m", Lit(0))>>

\* What a helper may do, and how it may be used.
HelperBodies ==
    {<<>>, <<Return(N)>>, <<EmitS(N), Return(V("end"))>>, <<InSection("text"), EmitS(V("here"))>>,
     <<AssertS(Lit(0))>>, <<NextS(N)>>, <<InSection("text"), Return(N)>>, <<EmitS(N), Stop, EmitS(N)>>}
Helpers      == {<<d>> : d \in {Plain(b) : b \in HelperBodies} \cup {Leaky(b) : b \in HelperBodies}}
                \cup {<<[Plain(b) EXCEPT !.returns = TRUE]>> : b \in HelperBodies}
CallBodies   == {<<Do(u, "h", N), EmitS(V("x"))>> : u \in Uses} \cup {<<EmitS(N), Fold(u, 2, <<Do(w, "h", V("acc")), NextS(More)>>), EmitS(V("x"))>> : u, w \in Uses}
CallPrograms == {Prog(<<Main(b)>>, h, <<>>, t) : b \in CallBodies, h \in Helpers, t \in {Once, Twice}}

\* Jumps out of nested loops and branches.
Jumps     == {<<NextS(More)>>, <<Return(V("acc"))>>, <<If(N, <<Do("return", "m", Less)>>, <<>>)>>, <<EmitS(V("i"))>>,
              <<If(V("i"), <<NextS(More)>>, <<EmitS(V("acc"))>>), EmitS(V("i"))>>}
Inner     == Jumps \cup {<<For(1, j), EmitS(V("i"))>> : j \in Jumps} \cup {<<Fold("statement", 2, j), EmitS(V("acc"))>> : j \in Jumps}
             \cup {<<Fold("value", 1, j), NextS(V("x"))>> : j \in Jumps}
LoopBodies == {<<For(2, j), EmitS(N)>> : j \in Inner} \cup {<<Fold(u, 2, j), EmitS(V("x"))>> : u \in Uses, j \in Inner}
LoopPrograms == {Prog(<<Main(b)>>, <<Plain(<<EmitS(N)>>)>>, <<>>, t) : b \in LoopBodies, t \in {Once, Twice}}

\* Recursion, in the tail and not, one deeper than the limits allow, or not.
Recursing(use) == {<<If(N, <<Do(use, "m", Less)>>, <<Return(V("end"))>>), EmitS(V("x"))>>,
                   <<EmitS(N), If(N, <<InSection("text"), EmitS(N), Do(use, "m", Less)>>, <<EmitS(N), Return(Lit(7))>>)>>}
Recursive    == UNION {Recursing(u) : u \in Uses}
DepthTop(k)  == <<Run("m", Lit(k)), Sec("data"), Run("m", Lit(0)), Label("end")>>
Rec          == {[Main(b) EXCEPT !.leaks = l, !.before = bf, !.after = af] :
                     b \in Recursive, l \in BOOLEAN, bf, af \in {<<>>, <<"h">>}}
RecPrograms  == {Prog(<<m>>, <<Leaky(<<EmitS(N), InSection("code")>>)>>, <<>>, DepthTop(k)) : m \in Rec, k \in 1..3}

\* Overloads, and parameters that are aliases with an invariant.
Checked(d)   == [d EXCEPT !.check = "c"]
ProbeBodies  == {<<Return(N)>>, <<AssertS(N), Return(Lit(1))>>, <<Do("return", "h", N)>>,
                 <<If(N, <<Do("value", "c", Less)>>, <<>>), Return(Lit(1))>>, <<If(N, <<Return(Lit(0))>>, <<Return(Lit(1))>>)>>}
Overloads    == {<<Main(<<EmitS(Lit(1))>>), Checked(Plain(<<EmitS(Lit(2))>>))>>,
                 <<Checked(Plain(<<EmitS(Lit(2)), Do("return", "m", Less)>>)), Checked(Main(<<EmitS(Lit(3))>>))>>,
                 <<Checked(Plain(<<EmitS(Lit(4)), If(N, <<Do("return", "m", Less)>>, <<Return(N)>>)>>))>>,
                 <<[Plain(<<EmitS(N), Do("return", "m", Less)>>) EXCEPT !.check = "h"], Checked(Main(<<EmitS(Lit(6))>>))>>,
                 <<Main(<<EmitS(Lit(5)), If(N, <<Do("return", "m", Less)>>, <<AssertS(N)>>)>>), Checked(Plain(<<>>))>>}
OverPrograms == {Prog(m, <<Plain(h)>>, <<Plain(c)>>, <<Run("m", Lit(k)), Label("end")>>) :
                     m \in Overloads, h \in {<<Return(N)>>, <<AssertS(Lit(0))>>, <<>>}, c \in ProbeBodies, k \in 0..3}

MCPrograms == CallPrograms \cup LoopPrograms \cup RecPrograms \cup OverPrograms

\* For the disagreements with the book and with the code's own comments:
\* as Programs, the first breaks Conforms and the second Aligned.
MCBareReturns == {Prog(<<Main(<<b, EmitS(N)>>)>>, <<>>, <<>>, Once) :
                      b \in {If(N, <<Stop>>, <<>>), For(2, <<Stop>>), Fold("statement", 2, <<Stop>>)}}
MCNoisyProbes == {Prog(m, <<>>, <<Plain(<<EmitS(N), Return(Lit(1))>>)>>, <<Run("m", Lit(1)), Label("end")>>) : m \in Overloads}

===========================================================================
