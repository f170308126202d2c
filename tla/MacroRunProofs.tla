-------------------------- MODULE MacroRunProofs --------------------------
(* MacroRun for every program: what the resolver keeps beside the stack    *)
(* fits it, whatever was entered, left, jumped out of or unwound.          *)
EXTENDS MacroRun, DataInduction, FiniteSetTheorems

\* What follows is about stacks of frames c, their first k frames, and the
\* overloads ms of a program's macros.

Loops      == {"for", "fold"}
Contexts   == {"target", "section", "module"}
OpOf(f)    == f.stmts[f.at].op
NoCall(c, i, k) == \A h \in i..k : c[h].kind # "call"
NoLoop(c, i, k) == \A h \in i..k : c[h].kind \notin Loops

\* The module of the innermost call.
ModuleFits(ms, m, c, k) ==
    \/ m = MainModule /\ NoCall(c, 1, k)
    \/ \E i \in 1..k : c[i].kind = "call" /\ m = ms[c[i].id[1]][c[i].id[2]].module /\ NoCall(c, i + 1, k)

\* Where a `@next` would go, when all the loops have a round going on.
TargetFits(t, c, k) ==
    \/ t = "none" /\ \A i \in 1..k : c[i].kind = "fold" => ~NoCall(c, i + 1, k)
    \/ t = "fold" /\ \E i \in 1..k : c[i].kind = "fold" /\ NoCall(c, i + 1, k) /\ NoLoop(c, i + 1, k)
    \/ t = "blocked" /\ \E i, j \in 1..k :
           /\ i < j /\ c[i].kind = "fold" /\ c[j].kind = "for"
           /\ NoCall(c, i + 1, k) /\ NoLoop(c, j + 1, k)

\* A frame's fields.
Shape(f) ==
    \/ f.kind = "choose" /\ DOMAIN f = {"kind", "name", "arg", "why", "tried", "fit"}
    \/ /\ f.kind = "call"
       /\ DOMAIN f = {"kind", "id", "arg", "stage", "hook", "tails", "out", "returned", "saved"}
       /\ f.stage \in {"bind", "before", "body", "after"} /\ DOMAIN f.saved = Contexts
    \/ f.kind = "body" /\ DOMAIN f = {"kind", "stmts", "at", "env", "out"}
    \/ f.kind \in Loops /\ DOMAIN f = {"kind", "times", "round", "stmts", "env", "out", "outer"}

\* Frame g runs for frame f.
Asking(g) == g.kind = "call" \/ (g.kind = "choose" /\ g.why = "run")
Carries(f, g) ==
    \/ f.kind = "choose" /\ Asking(g)
    \/ f.kind = "call" /\ (IF f.stage = "body" THEN g.kind = "body" ELSE Asking(g))
    \/ f.kind \in Loops /\ g.kind = "body"
    \/ /\ f.kind = "body"
       /\ CASE OpOf(f) = "if"              -> g.kind = "body"
            [] OpOf(f) \in Loops           -> g.kind = OpOf(f)
            [] OpOf(f) = "call"            -> g.kind \in {"choose", "call"}
            [] OTHER                       -> FALSE

\* What a frame restores fits the frames below it.
Saves(ms, c, k) ==
    /\ c[k].kind = "call" => /\ ModuleFits(ms, c[k].saved.module, c, k - 1)
                             /\ TargetFits(c[k].saved.target, c, k - 1)
    /\ c[k].kind \in Loops => TargetFits(c[k].outer, c, k - 1)

Placed(ms, c, k) ==
    /\ Shape(c[k]) /\ Saves(ms, c, k)
    /\ IF k = 1 THEN Asking(c[k]) ELSE Carries(c[k - 1], c[k])

Sound(ms, c) == IsSequence(c) /\ \A k \in 1..Len(c) : Placed(ms, c, k)

\* The frames whose loops have a round going on.
Active(c, mode) == IF c # <<>> /\ c[Len(c)].kind \in Loops /\ mode = "run" THEN Len(c) - 1 ELSE Len(c)

Situation(ms, c, mode, ctx) ==
    /\ Sound(ms, c) /\ mode \in {"run", "deliver", "unwind"}
    /\ DOMAIN ctx = Contexts
    /\ ModuleFits(ms, ctx.module, c, Len(c))
    /\ TargetFits(ctx.target, c, Active(c, mode))

CallsIn(c) == {k \in 1..Len(c) : c[k].kind = "call"}

\* A jump under way is met only by frames that let it through.
JumpsOut(c, p, ans, ctx) ==
    /\ p.next # None =>
           /\ ctx.target = "fold" /\ ans.returned = None
           /\ c[Len(c)].kind = "fold" \/ (c[Len(c)].kind = "body" /\ OpOf(c[Len(c)]) = "if")
    /\ p.tail # None =>
           \/ c[Len(c)].kind \in Loops
           \/ c[Len(c)].kind = "call" /\ c[Len(c)].stage = "body"
           \/ c[Len(c)].kind = "body" /\ (OpOf(c[Len(c)]) \in {"if", "for"} \/ (OpOf(c[Len(c)]) = "fold" /\ ans.exited))

Settled(c, mode, p, ans, ctx) ==
    /\ p = [tail |-> p.tail, next |-> p.next] /\ (p.tail = None \/ p.next = None)
    /\ mode = "run" => p = NoPending
    /\ mode = "unwind" => p.next = None
    /\ mode = "deliver" /\ p # NoPending => c # <<>> /\ JumpsOut(c, p, ans, ctx)

\* The labels met so far are those with a position.
LabelsUpTo(top, n) == {top[i].name : i \in {i \in 1..n : top[i].op = "label"}}
Position ==
    /\ program \in Programs
    /\ pass \in {"tolerant", "strict"} /\ phase \in {"walking", "done", "failed"}
    /\ at \in 1..(Len(program.top) + 1) /\ count \in Nat
    /\ phase = "walking" /\ (control # <<>> \/ doing # "run") => at <= Len(program.top) /\ program.top[at].op = "call"
    /\ DOMAIN positions = LabelsUpTo(program.top, IF pass = "strict" THEN Len(program.top) ELSE at - 1)

\* Until an error is recovered from, the only module blamed is the last
\* error's, on its way out.
Blamed ==
    \/ swallowed
    \/ /\ phase = "walking" /\ doing # "unwind" => blame = {}
       /\ phase = "walking" /\ doing = "unwind" =>
              blame = {origin} \/ (blame = {} /\ context.module = origin)
       /\ phase = "failed" => blame = {origin}

---------------------------------------------------------------------------
(* What fits a stack's first frames.                                       *)

\* Only the kinds of the frames and the macros of the calls matter.
SameUpTo(c, d, k) == \A h \in 1..k : d[h].kind = c[h].kind /\ (c[h].kind = "call" => d[h].id = c[h].id)

\* Stacks alike up to k have the same modules and targets there.
LEMMA FitsLocal ==
    ASSUME NEW ms, NEW c, NEW d, NEW k \in Nat, SameUpTo(c, d, k)
    PROVE  /\ \A m : ModuleFits(ms, m, c, k) => ModuleFits(ms, m, d, k)
           /\ \A t : TargetFits(t, c, k) => TargetFits(t, d, k)
<1>1. \A i \in 1..(k + 1) : NoCall(c, i, k) = NoCall(d, i, k) /\ NoLoop(c, i, k) = NoLoop(d, i, k)
  BY DEF SameUpTo, NoCall, NoLoop
<1>2. \A i \in 1..k : i + 1 \in 1..(k + 1)
  OBVIOUS
<1>3. 1 \in 1..(k + 1)
  OBVIOUS
<1>4. ASSUME NEW m, ModuleFits(ms, m, c, k) PROVE ModuleFits(ms, m, d, k)
  <2>1. CASE m = MainModule /\ NoCall(c, 1, k)
    BY <1>1, <1>3, <2>1 DEF ModuleFits
  <2>2. CASE \E i \in 1..k : c[i].kind = "call" /\ m = ms[c[i].id[1]][c[i].id[2]].module /\ NoCall(c, i + 1, k)
    <3>1. PICK i \in 1..k : c[i].kind = "call" /\ m = ms[c[i].id[1]][c[i].id[2]].module /\ NoCall(c, i + 1, k)
      BY <2>2
    <3>2. d[i].kind = "call" /\ d[i].id = c[i].id
      BY <3>1 DEF SameUpTo
    <3>3. NoCall(d, i + 1, k)
      BY <1>1, <1>2, <3>1
    <3> QED BY <3>1, <3>2, <3>3 DEF ModuleFits
  <2> QED BY <1>4, <2>1, <2>2 DEF ModuleFits
<1>5. ASSUME NEW t, TargetFits(t, c, k) PROVE TargetFits(t, d, k)
  BY <1>1, <1>2, <1>5 DEF TargetFits, SameUpTo
<1> QED BY <1>4, <1>5

\* One frame more, in a range without calls or loops.
LEMMA RangesExtended ==
    ASSUME NEW c, NEW k \in Nat, NEW i \in 1..(k + 1)
    PROVE  /\ NoCall(c, i, k + 1) <=> NoCall(c, i, k) /\ c[k + 1].kind # "call"
           /\ NoLoop(c, i, k + 1) <=> NoLoop(c, i, k) /\ c[k + 1].kind \notin Loops
<1>1. \A h : h \in i..(k + 1) <=> h \in i..k \/ h = k + 1
  OBVIOUS
<1> QED BY <1>1 DEF NoCall, NoLoop

\* A frame that is no call has the module of the one below.
LEMMA ModuleFitsNext ==
    ASSUME NEW ms, NEW c, NEW k \in Nat, c[k + 1].kind # "call", NEW m
    PROVE  ModuleFits(ms, m, c, k) <=> ModuleFits(ms, m, c, k + 1)
<1>1. \A i \in 1..(k + 1) : NoCall(c, i, k + 1) <=> NoCall(c, i, k)
  BY RangesExtended
<1>2. 1 \in 1..(k + 1) /\ \A i \in 1..k : i + 1 \in 1..(k + 1) /\ i \in 1..(k + 1)
  OBVIOUS
<1>3. \A i \in 1..(k + 1) : c[i].kind = "call" => i \in 1..k
  OBVIOUS
<1> QED BY <1>1, <1>2, <1>3 DEF ModuleFits

\* One that is no loop either leaves the target alone.
LEMMA TargetFitsNext ==
    ASSUME NEW c, NEW k \in Nat, c[k + 1].kind \in {"choose", "body"}, NEW t
    PROVE  TargetFits(t, c, k) <=> TargetFits(t, c, k + 1)
<1>1. \A i \in 1..(k + 1) : /\ NoCall(c, i, k + 1) <=> NoCall(c, i, k)
                            /\ NoLoop(c, i, k + 1) <=> NoLoop(c, i, k)
  BY RangesExtended DEF Loops
<1>2. \A i \in 1..k : i + 1 \in 1..(k + 1) /\ i \in 1..(k + 1)
  OBVIOUS
<1>3. \A i \in 1..(k + 1) : c[i].kind \in Loops => i \in 1..k
  BY DEF Loops
<1>4. "fold" \in Loops /\ "for" \in Loops
  BY DEF Loops
<1> QED BY <1>1, <1>2, <1>3, <1>4 DEF TargetFits

\* A call starts afresh.
LEMMA CallFits ==
    ASSUME NEW ms, NEW c, NEW k \in Nat, c[k + 1].kind = "call"
    PROVE  /\ ModuleFits(ms, ms[c[k + 1].id[1]][c[k + 1].id[2]].module, c, k + 1)
           /\ TargetFits("none", c, k + 1)
<1>1. k + 1 \in 1..(k + 1) /\ NoCall(c, k + 2, k + 1) /\ (k + 1) + 1 = k + 2
  BY DEF NoCall
<1>2. ASSUME NEW i \in 1..(k + 1), c[i].kind = "fold" PROVE ~NoCall(c, i + 1, k + 1)
  <2>1. k + 1 \in (i + 1)..(k + 1)
    BY <1>2
  <2> QED BY <2>1 DEF NoCall
<1> QED BY <1>1, <1>2 DEF ModuleFits, TargetFits

\* A loop's round: a `@fold` takes the `@next`s, a `@for` stops them.
LEMMA RoundFits ==
    ASSUME NEW c, NEW k \in Nat, c[k + 1].kind \in Loops, NEW t, TargetFits(t, c, k)
    PROVE  TargetFits(IF c[k + 1].kind = "fold" THEN "fold" ELSE IF t = "none" THEN "none" ELSE "blocked", c, k + 1)
<1>0. \A i \in 1..(k + 1) : NoCall(c, i, k + 1) <=> NoCall(c, i, k)
  BY RangesExtended DEF Loops
<1>1. k + 1 \in 1..(k + 1) /\ NoCall(c, (k + 1) + 1, k + 1) /\ NoLoop(c, (k + 1) + 1, k + 1)
  BY DEF NoCall, NoLoop
<1>2. \A i \in 1..k : i + 1 \in 1..(k + 1) /\ i \in 1..(k + 1) /\ i < k + 1
  OBVIOUS
<1>3. CASE c[k + 1].kind = "fold"
  BY <1>1, <1>3 DEF TargetFits
<1>4. CASE c[k + 1].kind # "fold"
  <2>1. c[k + 1].kind = "for"
    BY <1>4 DEF Loops
  <2>2. CASE t = "none"
    <3>1. \A i \in 1..k : c[i].kind = "fold" => ~NoCall(c, i + 1, k)
      BY <2>2 DEF TargetFits
    <3>2. \A i \in 1..(k + 1) : c[i].kind = "fold" => i \in 1..k
      BY <1>4
    <3> QED BY <1>0, <1>2, <1>4, <2>2, <3>1, <3>2 DEF TargetFits
  <2>3. CASE t # "none"
    <3>1. PICK i \in 1..k : c[i].kind = "fold" /\ NoCall(c, i + 1, k)
      BY <2>3 DEF TargetFits
    <3>2. NoCall(c, i + 1, k + 1)
      BY <1>0, <1>2, <3>1
    <3> QED BY <1>1, <1>2, <1>4, <2>1, <2>3, <3>1, <3>2 DEF TargetFits
  <2> QED BY <2>2, <2>3
<1> QED BY <1>3, <1>4

---------------------------------------------------------------------------
(* What pushing, popping and replacing a frame do.                         *)

\* Whether a frame is well placed depends on it and the frames below.
LEMMA PlacedLocal ==
    ASSUME NEW ms, NEW c, NEW d, NEW k \in Nat \ {0}, Placed(ms, c, k), \A h \in 1..k : d[h] = c[h]
    PROVE  Placed(ms, d, k)
<1>1. d[k] = c[k] /\ k - 1 \in Nat /\ (k # 1 => d[k - 1] = c[k - 1])
  OBVIOUS
<1>2. SameUpTo(c, d, k - 1)
  BY DEF SameUpTo
<1>3. Saves(ms, d, k)
  BY <1>1, <1>2, FitsLocal DEF Placed, Saves
<1> QED BY <1>1, <1>3 DEF Placed

\* A frame that can stand on the stack c.
Fitting(ms, c, f) ==
    /\ Shape(f)
    /\ f.kind = "call" => ModuleFits(ms, f.saved.module, c, Len(c)) /\ TargetFits(f.saved.target, c, Len(c))
    /\ f.kind \in Loops => TargetFits(f.outer, c, Len(c))
    /\ IF c = <<>> THEN Asking(f) ELSE Carries(c[Len(c)], f)

\* A stack and its first k frames, as far as what fits them goes.
Keeps(ms, c, d, k) ==
    \A j \in 0..k : /\ \A m : ModuleFits(ms, m, c, j) => ModuleFits(ms, m, d, j)
                    /\ \A t : TargetFits(t, c, j) => TargetFits(t, d, j)

\* Frames alike keep what fits them.
LEMMA SameKeeps ==
    ASSUME NEW ms, NEW c, NEW d, NEW k \in Nat, SameUpTo(c, d, k) PROVE Keeps(ms, c, d, k)
<1>1. \A j \in 0..k : j \in Nat /\ SameUpTo(c, d, j)
  BY DEF SameUpTo
<1> QED BY <1>1, FitsLocal DEF Keeps

\* The length of a stack.
LEMMA EmptyOrNot ==
    ASSUME NEW c, IsSequence(c)
    PROVE  Len(c) \in Nat /\ (c = <<>> <=> Len(c) = 0) /\ (c # <<>> => Len(c) \in Nat \ {0} /\ Len(c) \in 1..Len(c))
BY DEF IsSequence

\* A frame that runs for the top one may be pushed.
LEMMA Pushed ==
    ASSUME NEW ms, NEW c, Sound(ms, c), NEW f, Fitting(ms, c, f)
    PROVE  LET d == Append(c, f) IN
           /\ Sound(ms, d) /\ Len(d) = Len(c) + 1 /\ d # <<>> /\ d[Len(c) + 1] = f /\ Last(d) = f
           /\ \A k \in 1..Len(c) : d[k] = c[k]
           /\ Keeps(ms, c, d, Len(c))
<1> DEFINE d == Append(c, f)
           n == Len(c)
<1>1. /\ n \in Nat /\ IsSequence(d) /\ Len(d) = n + 1 /\ d[n + 1] = f
      /\ \A k \in 1..n : d[k] = c[k]
  BY SequenceAppended, EmptyOrNot DEF Sound
<1> HIDE DEF d, n
<1>2. SameUpTo(c, d, n)
  BY <1>1 DEF SameUpTo
<1>3. Keeps(ms, c, d, n)
  BY <1>1, <1>2, SameKeeps
<1>4. ASSUME NEW k \in 1..n PROVE Placed(ms, d, k)
  <2>1. Placed(ms, c, k) /\ k \in Nat \ {0} /\ \A h \in 1..k : d[h] = c[h]
    BY <1>1 DEF Sound, n
  <2> QED BY <2>1, PlacedLocal
<1>5. Placed(ms, d, n + 1)
  <2>1. Saves(ms, d, n + 1)
    <3>1. (n + 1) - 1 = n
      BY <1>1
    <3> QED BY <1>1, <1>2, <3>1, FitsLocal DEF Saves, Fitting, n
  <2>2. IF n + 1 = 1 THEN Asking(d[n + 1]) ELSE Carries(d[(n + 1) - 1], d[n + 1])
    <3>1. (n + 1) - 1 = n /\ (n + 1 = 1 <=> n = 0) /\ (n # 0 => d[n] = c[n]) /\ (c = <<>> <=> n = 0)
      BY <1>1, EmptyOrNot DEF Sound, n
    <3> QED BY <1>1, <3>1 DEF Fitting, n
  <2> QED BY <1>1, <2>1, <2>2 DEF Placed, Fitting
<1>6. \A k \in 1..Len(d) : k = n + 1 \/ k \in 1..n
  BY <1>1
<1>7. Sound(ms, d)
  BY <1>1, <1>4, <1>5, <1>6 DEF Sound
<1>8. d # <<>> /\ Last(d) = f
  BY <1>1 DEF Last
<1> QED BY <1>1, <1>3, <1>7, <1>8 DEF d, n

\* The top frame may be popped.
LEMMA Popped ==
    ASSUME NEW ms, NEW c, Sound(ms, c), c # <<>>
    PROVE  LET d == Front(c)
               n == Len(c) IN
           /\ Sound(ms, d) /\ Len(d) = n - 1 /\ (d = <<>> <=> n = 1)
           /\ n \in Nat \ {0} /\ n - 1 \in Nat
           /\ \A k \in 1..(n - 1) : d[k] = c[k]
           /\ Keeps(ms, c, d, n - 1)
           /\ Last(c) = c[n] /\ Placed(ms, c, n)
           /\ d # <<>> => n - 1 \in 1..n /\ Last(d) = c[n - 1] /\ Carries(c[n - 1], c[n])
           /\ d = <<>> => Asking(c[n])
<1> DEFINE d == Front(c)
           n == Len(c)
<1>1. /\ n \in Nat \ {0} /\ n \in 1..n /\ IsSequence(d) /\ Len(d) = n - 1 /\ \A k \in 1..(n - 1) : d[k] = c[k]
  BY SequencePopped, EmptyOrNot DEF Sound, Front
<1> HIDE DEF d, n
<1>2. n - 1 \in Nat /\ SameUpTo(c, d, n - 1)
  BY <1>1 DEF SameUpTo
<1>3. Keeps(ms, c, d, n - 1)
  BY <1>2, SameKeeps
<1>4. ASSUME NEW k \in 1..(n - 1) PROVE Placed(ms, d, k)
  <2>1. k \in 1..n /\ k \in Nat \ {0} /\ \A h \in 1..k : d[h] = c[h]
    BY <1>1
  <2>2. Placed(ms, c, k)
    BY <2>1 DEF Sound, n
  <2> QED BY <2>1, <2>2, PlacedLocal
<1>5. Sound(ms, d)
  BY <1>1, <1>4 DEF Sound
<1>6. d = <<>> <=> n = 1
  <2>1. d = <<>> <=> Len(d) = 0
    BY <1>1, EmptyOrNot
  <2> QED BY <1>1, <2>1
<1>7. Last(c) = c[n] /\ Placed(ms, c, n)
  BY <1>1 DEF Last, Sound, n
<1>8. d # <<>> => n - 1 \in 1..n /\ Last(d) = c[n - 1]
  <2>1. n # 1 => n - 1 \in 1..n /\ d[n - 1] = c[n - 1]
    BY <1>1
  <2> QED BY <1>1, <1>6, <2>1 DEF Last
<1>9. (d # <<>> => Carries(c[n - 1], c[n])) /\ (d = <<>> => Asking(c[n]))
  BY <1>6, <1>7 DEF Placed
<1> QED BY <1>1, <1>2, <1>3, <1>5, <1>6, <1>7, <1>8, <1>9 DEF d, n

\* The same function's frame, further on.
Alike(f, g) ==
    /\ Shape(g) /\ g.kind = f.kind
    /\ f.kind = "choose" => g.why \in {f.why, "run"}
    /\ f.kind = "call" => g.id = f.id /\ g.saved = f.saved
    /\ f.kind \in Loops => g.outer = f.outer

\* The top frame may be replaced by one of its kind.
LEMMA Replaced ==
    ASSUME NEW ms, NEW c, Sound(ms, c), c # <<>>, NEW g, Alike(Last(c), g)
    PROVE  LET d == Append(Front(c), g)
               n == Len(c) IN
           /\ Sound(ms, d) /\ Len(d) = n /\ d # <<>> /\ d[n] = g /\ Last(d) = g
           /\ \A k \in 1..(n - 1) : d[k] = c[k]
           /\ Keeps(ms, c, d, n)
<1> DEFINE b == Front(c)
           d == Append(b, g)
           n == Len(c)
           f == Last(c)
<1>1. /\ Sound(ms, b) /\ Len(b) = n - 1 /\ n \in Nat \ {0} /\ n - 1 \in Nat /\ f = c[n] /\ Placed(ms, c, n)
      /\ \A k \in 1..(n - 1) : b[k] = c[k]
      /\ Keeps(ms, c, b, n - 1) /\ (b = <<>> <=> n = 1)
      /\ b # <<>> => b[n - 1] = c[n - 1] /\ Carries(c[n - 1], f)
      /\ b = <<>> => Asking(f)
  BY Popped DEF Last
<1>2. Alike(f, g)
  OBVIOUS
<1> HIDE DEF b, n, f
<1>3. Fitting(ms, b, g)
  <2>1. Asking(f) => Asking(g)
    BY <1>2 DEF Alike, Asking
  <2>2. b # <<>> => Carries(b[Len(b)], g)
    <3>1. ASSUME b # <<>> PROVE Carries(c[n - 1], g)
      <4>1. Carries(c[n - 1], f)
        BY <1>1, <3>1
      <4> QED BY <1>2, <2>1, <4>1 DEF Carries, Alike
    <3> QED BY <1>1, <3>1
  <2>3. n - 1 \in 0..(n - 1)
    BY <1>1
  <2>4. /\ g.kind = "call" => ModuleFits(ms, g.saved.module, b, n - 1) /\ TargetFits(g.saved.target, b, n - 1)
        /\ g.kind \in Loops => TargetFits(g.outer, b, n - 1)
    BY <1>1, <1>2, <2>3 DEF Placed, Saves, Alike, Keeps
  <2> QED BY <1>1, <1>2, <2>1, <2>2, <2>4 DEF Fitting, Alike
<1>4. /\ Sound(ms, d) /\ Len(d) = (n - 1) + 1 /\ d # <<>> /\ d[(n - 1) + 1] = g /\ Last(d) = g
      /\ \A k \in 1..(n - 1) : d[k] = b[k]
  BY <1>1, <1>3, Pushed
<1>5. (n - 1) + 1 = n
  BY <1>1
<1> HIDE DEF d
<1>6. SameUpTo(c, d, n)
  <2>1. \A h \in 1..n : h = n \/ h \in 1..(n - 1)
    BY <1>1
  <2> QED BY <1>1, <1>2, <1>4, <1>5, <2>1 DEF SameUpTo, Alike
<1>7. Keeps(ms, c, d, n)
  BY <1>1, <1>6, SameKeeps
<1> QED BY <1>1, <1>4, <1>5, <1>7 DEF d, b, n

---------------------------------------------------------------------------
(* The situation after each move of the stack, with the bound on calls.    *)

Nested(ms, c, mode, ctx) == Situation(ms, c, mode, ctx) /\ Cardinality(CallsIn(c)) <= MaxDepth

\* A context with the same module and target, as far as they matter.
SameContext(a, b) == DOMAIN b = Contexts /\ b.module = a.module /\ b.target = a.target

\* Calls are counted.
LEMMA CallsFinite ==
    ASSUME NEW c, IsSequence(c) PROVE IsFiniteSet(CallsIn(c)) /\ Cardinality(CallsIn(c)) \in Nat
<1>1. IsFiniteSet(1..Len(c))
  BY FS_Interval, EmptyOrNot
<1>2. CallsIn(c) \subseteq 1..Len(c)
  BY DEF CallsIn
<1>3. IsFiniteSet(CallsIn(c))
  BY <1>1, <1>2, FS_Subset
<1> QED BY <1>3, FS_CardinalityType

\* Fewer calls stay within the limit.
LEMMA FewerCalls ==
    ASSUME NEW c, IsSequence(c), NEW d, IsSequence(d), CallsIn(d) \subseteq CallsIn(c),
           Cardinality(CallsIn(c)) <= MaxDepth
    PROVE  Cardinality(CallsIn(d)) <= MaxDepth
<1>1. IsFiniteSet(CallsIn(c)) /\ Cardinality(CallsIn(c)) \in Nat /\ Cardinality(CallsIn(d)) \in Nat
  BY CallsFinite
<1>2. Cardinality(CallsIn(d)) <= Cardinality(CallsIn(c))
  BY <1>1, FS_Subset
<1>3. MaxDepth \in Nat
  BY LimitAssumption
<1> QED BY <1>1, <1>2, <1>3

\* The stack stays as it is.
LEMMA StaysPut ==
    ASSUME NEW ms, NEW c, NEW mode, NEW ctx, Nested(ms, c, mode, ctx),
           c # <<>> => Last(c).kind \notin Loops,
           NEW mode2 \in {"run", "deliver", "unwind"}, NEW ctx2, SameContext(ctx, ctx2)
    PROVE  Nested(ms, c, mode2, ctx2)
<1>1. Active(c, mode) = Len(c) /\ Active(c, mode2) = Len(c)
  BY DEF Active, Last
<1> QED BY <1>1 DEF Nested, Situation, SameContext

\* The top frame goes on.
LEMMA GoesOn ==
    ASSUME NEW ms, NEW c, NEW mode, NEW ctx, Nested(ms, c, mode, ctx), c # <<>>,
           NEW g, Alike(Last(c), g),
           NEW ctx2, DOMAIN ctx2 = Contexts, ctx2.module = ctx.module,
           TargetFits(ctx2.target, c, IF Last(c).kind \in Loops THEN Len(c) - 1 ELSE Len(c))
    PROVE  Nested(ms, Append(Front(c), g), "run", ctx2)
<1> DEFINE d == Append(Front(c), g)
           n == Len(c)
<1>0. Sound(ms, c) /\ ModuleFits(ms, ctx.module, c, n) /\ Cardinality(CallsIn(c)) <= MaxDepth
  BY DEF Nested, Situation
<1>1. /\ Sound(ms, d) /\ Len(d) = n /\ d # <<>> /\ d[n] = g
      /\ \A k \in 1..(n - 1) : d[k] = c[k]
      /\ Keeps(ms, c, d, n)
  BY <1>0, Replaced
<1>2. n \in Nat \ {0} /\ n \in 0..n /\ n - 1 \in 0..n /\ Last(c) = c[n]
  BY <1>0, EmptyOrNot DEF Sound, Last
<1> HIDE DEF d, n
<1>3. g.kind = Last(c).kind
  BY DEF Alike
<1>4. Active(d, "run") = IF Last(c).kind \in Loops THEN n - 1 ELSE n
  BY <1>1, <1>3 DEF Active
<1>5. TargetFits(ctx2.target, d, Active(d, "run"))
  BY <1>1, <1>2, <1>4 DEF Keeps, n
<1>6. ModuleFits(ms, ctx2.module, d, Len(d))
  BY <1>0, <1>1, <1>2 DEF Keeps
<1>7. CallsIn(d) \subseteq CallsIn(c)
  <2>1. \A k \in 1..n : k = n \/ k \in 1..(n - 1)
    BY <1>2
  <2>2. \A k \in 1..n : d[k].kind = c[k].kind
    BY <1>1, <1>2, <1>3, <2>1
  <2> QED BY <1>1, <2>2 DEF CallsIn, n
<1>8. Cardinality(CallsIn(d)) <= MaxDepth
  BY <1>0, <1>1, <1>7, FewerCalls DEF Sound
<1> QED BY <1>1, <1>5, <1>6, <1>8 DEF Nested, Situation, d

\* A frame that is no call is put on the stack.
LEMMA Adds ==
    ASSUME NEW ms, NEW c, Sound(ms, c), Cardinality(CallsIn(c)) <= MaxDepth,
           NEW f, Fitting(ms, c, f), f.kind # "call",
           NEW ctx, DOMAIN ctx = Contexts, ModuleFits(ms, ctx.module, c, Len(c)), TargetFits(ctx.target, c, Len(c))
    PROVE  Nested(ms, Append(c, f), "run", ctx)
<1> DEFINE d == Append(c, f)
           n == Len(c)
<1>1. /\ Sound(ms, d) /\ Len(d) = n + 1 /\ d # <<>> /\ d[n + 1] = f
      /\ \A k \in 1..n : d[k] = c[k]
      /\ Keeps(ms, c, d, n)
  BY Pushed
<1>2. n \in Nat /\ n \in 0..n /\ (n + 1) - 1 = n
  BY EmptyOrNot DEF Sound
<1> HIDE DEF d
<1>3. ModuleFits(ms, ctx.module, d, n) /\ TargetFits(ctx.target, d, n)
  BY <1>1, <1>2 DEF Keeps
<1>4. ModuleFits(ms, ctx.module, d, n + 1)
  BY <1>1, <1>2, <1>3, ModuleFitsNext
<1>5. TargetFits(ctx.target, d, Active(d, "run"))
  <2>1. CASE f.kind \in Loops
    BY <1>1, <1>2, <1>3, <2>1 DEF Active
  <2>2. CASE f.kind \notin Loops
    <3>1. f.kind \in {"choose", "body"}
      BY <2>2 DEF Fitting, Shape
    <3>2. TargetFits(ctx.target, d, n + 1)
      BY <1>1, <1>2, <1>3, <3>1, TargetFitsNext
    <3> QED BY <1>1, <2>2, <3>2 DEF Active
  <2> QED BY <2>1, <2>2
<1>6. CallsIn(d) \subseteq CallsIn(c)
  <2>1. \A k \in 1..(n + 1) : k = n + 1 \/ k \in 1..n
    BY <1>2
  <2> QED BY <1>1, <2>1 DEF CallsIn
<1>7. Cardinality(CallsIn(d)) <= MaxDepth
  BY <1>1, <1>6, FewerCalls DEF Sound
<1> QED BY <1>1, <1>4, <1>5, <1>7 DEF Nested, Situation, d

\* The top frame is left, for good or by an error.
LEMMA Leaves ==
    ASSUME NEW ms, NEW c, NEW mode, NEW ctx, Nested(ms, c, mode, ctx), c # <<>>,
           NEW mode2 \in {"deliver", "unwind"},
           NEW ctx2, DOMAIN ctx2 = Contexts,
           ModuleFits(ms, ctx2.module, c, Len(c) - 1), TargetFits(ctx2.target, c, Len(c) - 1)
    PROVE  Nested(ms, Front(c), mode2, ctx2)
<1> DEFINE d == Front(c)
           n == Len(c)
<1>0. Sound(ms, c) /\ Cardinality(CallsIn(c)) <= MaxDepth
  BY DEF Nested, Situation
<1>1. /\ Sound(ms, d) /\ Len(d) = n - 1 /\ n \in Nat \ {0}
      /\ \A k \in 1..(n - 1) : d[k] = c[k]
      /\ Keeps(ms, c, d, n - 1)
  BY <1>0, Popped
<1> HIDE DEF d
<1>2. Active(d, mode2) = n - 1
  BY <1>1 DEF Active
<1>3. ModuleFits(ms, ctx2.module, d, n - 1) /\ TargetFits(ctx2.target, d, n - 1)
  <2>1. n - 1 \in 0..(n - 1)
    BY <1>1
  <2> QED BY <1>1, <2>1 DEF Keeps
<1>4. CallsIn(d) \subseteq CallsIn(c)
  BY <1>1 DEF CallsIn
<1>5. Cardinality(CallsIn(d)) <= MaxDepth
  BY <1>0, <1>1, <1>4, FewerCalls DEF Sound
<1> QED BY <1>1, <1>2, <1>3, <1>5 DEF Nested, Situation, d

\* What fits the stack without a top frame that restores nothing.
LEMMA LeavesPlainly ==
    ASSUME NEW ms, NEW c, NEW mode, NEW ctx, Nested(ms, c, mode, ctx), c # <<>>,
           Last(c).kind \in {"choose", "body"} \/ (Last(c).kind \in Loops /\ mode = "run"),
           NEW mode2 \in {"deliver", "unwind"}
    PROVE  Nested(ms, Front(c), mode2, ctx)
<1>1. /\ Sound(ms, c) /\ DOMAIN ctx = Contexts /\ ModuleFits(ms, ctx.module, c, Len(c))
      /\ TargetFits(ctx.target, c, Active(c, mode))
  BY DEF Nested, Situation
<1>2. Len(c) - 1 \in Nat /\ Last(c) = c[Len(c)] /\ (Len(c) - 1) + 1 = Len(c)
  <2>1. Len(c) \in Nat \ {0} /\ Last(c) = c[Len(c)]
    BY <1>1, Popped
  <2> QED BY <2>1
<1>3. ModuleFits(ms, ctx.module, c, Len(c) - 1)
  BY <1>1, <1>2, ModuleFitsNext DEF Loops
<1>4. TargetFits(ctx.target, c, Len(c) - 1)
  <2>1. CASE Last(c).kind \in {"choose", "body"}
    <3>1. Active(c, mode) = Len(c)
      BY <1>2, <2>1 DEF Active, Loops
    <3> QED BY <1>1, <1>2, <2>1, <3>1, TargetFitsNext
  <2>2. CASE Last(c).kind \in Loops /\ mode = "run"
    BY <1>1, <1>2, <2>2 DEF Active
  <2> QED BY <2>1, <2>2
<1> QED BY <1>1, <1>3, <1>4, Leaves

\* What a top frame that saved something restores.
LEMMA LeavesRestoring ==
    ASSUME NEW ms, NEW c, NEW mode, NEW ctx, Nested(ms, c, mode, ctx), c # <<>>,
           NEW mode2 \in {"deliver", "unwind"}, NEW ctx2, DOMAIN ctx2 = Contexts,
           \/ Last(c).kind = "call" /\ SameContext(Last(c).saved, ctx2)
           \/ Last(c).kind \in Loops /\ ctx2.module = ctx.module /\ ctx2.target = Last(c).outer
    PROVE  Nested(ms, Front(c), mode2, ctx2)
<1>1. Sound(ms, c) /\ ModuleFits(ms, ctx.module, c, Len(c))
  BY DEF Nested, Situation
<1>2. Len(c) - 1 \in Nat /\ Last(c) = c[Len(c)] /\ (Len(c) - 1) + 1 = Len(c) /\ Saves(ms, c, Len(c))
  <2>1. Len(c) \in Nat \ {0} /\ Last(c) = c[Len(c)] /\ Placed(ms, c, Len(c))
    BY <1>1, Popped
  <2> QED BY <2>1 DEF Placed
<1>3. ModuleFits(ms, ctx2.module, c, Len(c) - 1) /\ TargetFits(ctx2.target, c, Len(c) - 1)
  <2>1. CASE Last(c).kind = "call" /\ SameContext(Last(c).saved, ctx2)
    BY <1>2, <2>1 DEF Saves, SameContext
  <2>2. CASE Last(c).kind \in Loops /\ ctx2.module = ctx.module /\ ctx2.target = Last(c).outer
    <3>1. c[(Len(c) - 1) + 1].kind # "call"
      BY <1>2, <2>2 DEF Loops
    <3> QED BY <1>1, <1>2, <2>2, <3>1, ModuleFitsNext DEF Saves
  <2> QED BY <2>1, <2>2
<1> QED BY <1>3, Leaves

---------------------------------------------------------------------------
(* The situation after each step.                                          *)

NestedIn == Nested(program.macros, control, doing, context)

NestedNext == Nested(program.macros, control', doing', context')

\* A program stays what it is, so the situation after a step is that of the new state.
LEMMA NestedPrimed ==
    ASSUME program' = program, NestedNext PROVE NestedIn'
BY DEF NestedNext, NestedIn

\* What is known of the state when a function is running.
LEMMA Standing ==
    ASSUME NestedIn, control # <<>>
    PROVE  /\ Top = control[Len(control)] /\ Shape(Top) /\ DOMAIN context = Contexts
           /\ Sound(program.macros, control) /\ Cardinality(CallsIn(control)) <= MaxDepth
           /\ ModuleFits(program.macros, context.module, control, Len(control))
           /\ TargetFits(context.target, control, Active(control, doing))
           /\ Top.kind \notin Loops \/ doing # "run" => Active(control, doing) = Len(control)
<1>1. Sound(program.macros, control)
  BY DEF NestedIn, Nested, Situation
<1>2. Placed(program.macros, control, Len(control)) /\ Last(control) = control[Len(control)]
  BY <1>1, Popped
<1> QED BY <1>1, <1>2 DEF NestedIn, Nested, Situation, Top, Placed, Active

\* A frame that is neither a call's nor a loop's goes on, in the same module
\* and with the same target.
LEMMA TopGoesOn ==
    ASSUME NestedIn, control # <<>>, NEW g, Alike(Top, g), Top.kind \notin Loops, Continue(Replace(g)),
           SameContext(context, context')
    PROVE  NestedNext
<1>1. TargetFits(context'.target, control, Len(control))
  BY Standing DEF SameContext
<1> QED BY <1>1, GoesOn DEF NestedNext, NestedIn, Continue, Replace, Below, Top, SameContext

\* An error leaves the stack and the context alone.
LEMMA TopRaises ==
    ASSUME NestedIn, control # <<>>, Top.kind \notin Loops, Raise(control), SameContext(context, context')
    PROVE  NestedNext
BY StaysPut DEF NestedNext, NestedIn, Raise, Top

\* A frame is put on one that is not a loop.
LEMMA TopAsks ==
    ASSUME NestedIn, control # <<>>, Top.kind \notin Loops, NEW f, Continue(Push(f)), f.kind # "call",
           Fitting(program.macros, control, f), context' = context
    PROVE  NestedNext
BY Standing, Adds DEF NestedNext, Continue, Push

\* A frame that restores nothing is left.
LEMMA TopLeft ==
    ASSUME NestedIn, control # <<>>, Top.kind \in {"choose", "body"} \/ (Top.kind \in Loops /\ doing = "run"),
           control' = Below, doing' \in {"deliver", "unwind"}, context' = context
    PROVE  NestedNext
BY LeavesPlainly DEF NestedNext, NestedIn, Below, Top

\* A name is resolved to an overload from a call, a body or a probe.
LEMMA ChoosingFits ==
    ASSUME NestedIn, control # <<>>, NEW name, NEW arg, NEW why,
           \/ Top.kind = "choose" /\ why = "run"
           \/ Top.kind = "call" /\ Top.stage # "body" /\ why = "run"
           \/ Top.kind = "body" /\ OpOf(Top) = "call"
    PROVE  Fitting(program.macros, control, Choosing(name, arg, why))
<1>1. Shape(Choosing(name, arg, why)) /\ Choosing(name, arg, why).kind = "choose" /\ Choosing(name, arg, why).why = why
  BY DEF Choosing, Shape
<1>2. Carries(Top, Choosing(name, arg, why))
  BY <1>1 DEF Carries, Asking, Loops
<1> QED BY <1>1, <1>2, Standing DEF Fitting, Loops

\* An overload tried leaves the search what it was.
LEMMA TriedAlike ==
    ASSUME NestedIn, control # <<>>, Top.kind = "choose", NEW fits PROVE Alike(Top, Tried(fits))
<1>1. DOMAIN Top = {"kind", "name", "arg", "why", "tried", "fit"}
  BY Standing DEF Shape, Loops
<1>2. DOMAIN Tried(fits) = DOMAIN Top /\ Tried(fits).kind = Top.kind /\ Tried(fits).why = Top.why
  BY <1>1 DEF Tried
<1> QED BY <1>1, <1>2 DEF Alike, Shape, Loops

\* A tail call is chosen for a body.
LEMMA TailBelow ==
    ASSUME NestedIn, control # <<>>, Top.kind = "choose", Top.why = "tail"
    PROVE  Below # <<>> /\ Last(Below).kind = "body" /\ Shape(Last(Below))
<1> DEFINE d == Front(control)
           n == Len(control)
<1>1. ~Asking(control[n]) /\ control[n].kind = "choose"
  BY Standing DEF Asking
<1>2. /\ d # <<>> => Last(d) = control[n - 1] /\ Carries(control[n - 1], control[n])
      /\ d = <<>> => Asking(control[n])
      /\ Sound(program.macros, d)
  BY Standing, Popped
<1> HIDE DEF d, n
<1>3. Shape(Last(d))
  BY <1>1, <1>2, Popped DEF Placed
<1>4. d # <<>> /\ Last(d).kind = "body"
  BY <1>1, <1>2, <1>3 DEF Carries, Shape
<1> QED BY <1>3, <1>4 DEF d, Below

\* The steps of overload resolution.
LEMMA ResolvingFits ==
    ASSUME NestedIn, Resolving PROVE NestedNext
<1> SUFFICES ASSUME control # <<>>, Top.kind = "choose"
             PROVE  NestedNext
  BY DEF Resolving, FitByType, Probe, JudgeProbe, SwallowError, ChooseNone, TailCall, NotTailCall, EnterCall,
         Decided, At
<1>0. Top.kind \notin Loops /\ (context' = context => SameContext(context, context'))
  BY Standing DEF Loops, SameContext
<1>1. CASE FitByType
  BY <1>0, <1>1, TriedAlike, TopGoesOn DEF FitByType
<1>2. CASE Probe
  BY <1>0, <1>2, ChoosingFits, TopAsks DEF Probe, Choosing
<1>3. CASE JudgeProbe
  BY <1>0, <1>3, TriedAlike, TopGoesOn DEF JudgeProbe
<1>4. CASE SwallowError
  BY <1>0, <1>4, TriedAlike, TopGoesOn DEF SwallowError
<1>5. CASE ChooseNone
  BY <1>5, TopLeft DEF ChooseNone, Raise
<1>6. CASE NotTailCall
  <2>1. Alike(Top, Choosing(Top.name, Top.arg, "run"))
    BY DEF Alike, Choosing, Shape, Loops
  <2> QED BY <1>0, <1>6, <2>1, TopGoesOn DEF NotTailCall
<1>7. CASE TailCall
  <2> DEFINE d == Front(control)
  <2>1. Nested(program.macros, d, "deliver", context)
    BY LeavesPlainly DEF NestedIn, Top
  <2>2. d # <<>> /\ Last(d).kind = "body"
    BY <1>7, TailBelow DEF TailCall, Below
  <2>3. Nested(program.macros, Front(d), "deliver", context)
    <3> HIDE DEF d
    <3> QED BY <2>1, <2>2, LeavesPlainly
  <2> QED BY <1>7, <2>3 DEF TailCall, Deliver, NestedNext, Below
<1>8. CASE EnterCall
  <2>1. CASE ~DepthLeft
    BY <1>8, <2>1, TopLeft DEF EnterCall, Raise
  <2>2. CASE DepthLeft
    <3> DEFINE b == Front(control)
               f == Calling(ChosenOne, Top.arg)
               n == Len(control)
               ms == program.macros
               d == Append(b, f)
    <3>1. /\ Nested(ms, b, "deliver", context)
      BY LeavesPlainly DEF NestedIn, Top
    <3>2. /\ Sound(ms, b) /\ ModuleFits(ms, context.module, b, Len(b)) /\ TargetFits(context.target, b, Len(b))
          /\ Len(b) \in Nat
      BY <3>1, EmptyOrNot DEF Nested, Situation, Active, Sound
    <3>3. /\ control' = d /\ doing' = "run"
          /\ context' = [context EXCEPT !.target = "none", !.module = Macro(ChosenOne).module]
      BY <1>8, <2>2 DEF EnterCall, Continue, Replace, Below
    <3>4. /\ f.kind = "call" /\ f.saved = context /\ f.id = ChosenOne
          /\ Shape(f) /\ Asking(f)
      BY Standing DEF Calling, Shape, Asking, Loops
    <3>5. Fitting(ms, b, f)
      <4>1. b # <<>> => Carries(b[Len(b)], control[n])
        BY Standing, Popped
      <4>2. b # <<>> => Shape(b[Len(b)])
        <5>1. b # <<>> => Last(b) = b[Len(b)] /\ Placed(ms, b, Len(b))
          <6> HIDE DEF b
          <6> QED BY <3>2, Popped
        <5> QED BY <5>1 DEF Placed
      <4>3. control[n].kind = "choose" /\ control[n].why = "run"
        BY <1>8, Standing DEF EnterCall
      <4>4. b # <<>> => Carries(b[Len(b)], f)
        <5> HIDE DEF b, f, n
        <5> QED BY <3>4, <4>1, <4>2, <4>3 DEF Carries, Asking, Loops
      <4> HIDE DEF b, f
      <4> QED BY <3>2, <3>4, <4>4 DEF Fitting, Loops
    <3>6. /\ Sound(ms, d) /\ Len(d) = Len(b) + 1 /\ d # <<>> /\ d[Len(b) + 1] = f
          /\ \A k \in 1..Len(b) : d[k] = b[k]
      <4> HIDE DEF b, f
      <4> QED BY <3>2, <3>5, Pushed
    <3>7. DOMAIN context' = Contexts /\ context'.target = "none" /\ context'.module = ms[f.id[1]][f.id[2]].module
      <4>1. DOMAIN context = {"target", "section", "module"}
        BY Standing DEF Contexts
      <4> QED BY <3>3, <3>4, <4>1 DEF Contexts, Macro
    <3>8. ModuleFits(ms, context'.module, d, Len(d)) /\ TargetFits(context'.target, d, Len(d))
      <4> HIDE DEF b, f, d, ms
      <4> QED BY <3>2, <3>4, <3>6, <3>7, CallFits
    <3>9. Active(d, "run") = Len(d)
      <4> HIDE DEF b, f, d
      <4> QED BY <3>4, <3>6 DEF Active, Loops
    <3>10. Cardinality(CallsIn(d)) <= MaxDepth
      <4>1. CallsIn(control) = Calls
        BY Standing DEF Sound, IsSequence, CallsIn, Calls
      <4>2. IsFiniteSet(CallsIn(control)) /\ Cardinality(CallsIn(control)) \in Nat
        BY Standing, CallsFinite DEF Sound
      <4>3. Cardinality(CallsIn(control)) < MaxDepth
        BY <2>2, <4>1 DEF DepthLeft
      <4>4. Len(b) = n - 1 /\ n \in Nat \ {0} /\ \A k \in 1..(n - 1) : b[k] = control[k]
        BY Standing, Popped
      <4>5. CallsIn(d) \subseteq CallsIn(control) \cup {n}
        <5>1. Len(d) = n
          BY <3>6, <4>4
        <5>2. \A k \in 1..n : k = n \/ k \in 1..(n - 1)
          BY <4>4
        <5>3. \A k \in 1..(n - 1) : d[k] = control[k]
          <6> HIDE DEF b, d, n
          <6> QED BY <3>6, <4>4
        <5> HIDE DEF d
        <5> QED BY <5>1, <5>2, <5>3 DEF CallsIn
      <4>6. /\ IsFiniteSet(CallsIn(control) \cup {n})
            /\ Cardinality(CallsIn(control) \cup {n}) \in {Cardinality(CallsIn(control)), Cardinality(CallsIn(control)) + 1}
        <5> HIDE DEF n
        <5> QED BY <4>2, FS_AddElement
      <4>7. Cardinality(CallsIn(d)) <= Cardinality(CallsIn(control) \cup {n})
        <5> HIDE DEF n, d
        <5> QED BY <4>5, <4>6, FS_Subset
      <4>8. Cardinality(CallsIn(d)) \in Nat
        <5> HIDE DEF d
        <5> QED BY <3>6, CallsFinite DEF Sound
      <4>9. MaxDepth \in Nat
        BY LimitAssumption
      <4> HIDE DEF n, d
      <4> QED BY <4>2, <4>3, <4>6, <4>7, <4>8, <4>9
    <3> HIDE DEF d, ms, b, f
    <3>11. Nested(ms, d, "run", context')
      BY <3>6, <3>7, <3>8, <3>9, <3>10 DEF Nested, Situation
    <3> QED BY <3>3, <3>11 DEF NestedNext, ms
  <2> QED BY <2>1, <2>2
<1> QED BY <1>1, <1>2, <1>3, <1>4, <1>5, <1>6, <1>7, <1>8 DEF Resolving

\* A frame goes on and asks another, which runs on top of it.
LEMMA GoesOnAsking ==
    ASSUME NestedIn, control # <<>>, NEW g, Alike(Top, g), NEW f, f.kind \in {"choose", "body"},
           Shape(f), Carries(g, f), Continue(Append(Replace(g), f)),
           DOMAIN context' = Contexts, context'.module = context.module,
           TargetFits(context'.target, control, Len(control))
    PROVE  NestedNext
<1> DEFINE d == Replace(g)
           n == Len(control)
           ms == program.macros
<1>1. /\ Sound(ms, d) /\ Len(d) = n /\ d # <<>> /\ d[n] = g
      /\ \A k \in 1..(n - 1) : d[k] = control[k]
      /\ Keeps(ms, control, d, n)
  BY Standing, Replaced DEF Replace, Below, Top
<1>2. n \in Nat \ {0} /\ n \in 0..n
  BY Standing, EmptyOrNot DEF Sound
<1>3. ModuleFits(ms, context'.module, d, n) /\ TargetFits(context'.target, d, n)
  BY <1>1, <1>2, Standing DEF Keeps
<1>4. Cardinality(CallsIn(d)) <= MaxDepth
  <2>1. \A k \in 1..n : k = n \/ k \in 1..(n - 1)
    BY <1>2
  <2>2. g.kind = control[n].kind
    BY Standing DEF Alike
  <2>3. CallsIn(d) \subseteq CallsIn(control)
    <3> HIDE DEF d
    <3> QED BY <1>1, <2>1, <2>2 DEF CallsIn
  <2> QED BY <1>1, <2>3, Standing, FewerCalls DEF Sound
<1>5. Fitting(ms, d, f) /\ f.kind # "call"
  BY <1>1 DEF Fitting, Loops
<1>6. Nested(ms, Append(d, f), "run", context')
  <2> HIDE DEF d, ms, n
  <2> QED BY <1>1, <1>3, <1>4, <1>5, Adds
<1> QED BY <1>6 DEF NestedNext, Continue

\* The fields of a call.
LEMMA CallShape ==
    ASSUME NestedIn, control # <<>>, Top.kind = "call"
    PROVE  /\ DOMAIN Top = {"kind", "id", "arg", "stage", "hook", "tails", "out", "returned", "saved"}
           /\ Top.stage \in {"bind", "before", "body", "after"} /\ DOMAIN Top.saved = Contexts
BY Standing DEF Shape, Loops

\* Leaving a call puts back what it saved.
LEMMA RestoredFits ==
    ASSUME NestedIn, control # <<>>, Top.kind = "call" PROVE SameContext(Top.saved, Restored(Top))
<1>1. DOMAIN Top.saved = {"target", "section", "module"}
  BY CallShape DEF Contexts
<1> QED BY <1>1 DEF Restored, SameContext, Contexts

\* The steps of a call.
LEMMA InCallFits ==
    ASSUME NestedIn, InCall PROVE NestedNext
<1> SUFFICES ASSUME control # <<>>, Top.kind = "call"
             PROVE  NestedNext
  BY DEF InCall, Bind, Bound, RunHook, HookDone, RunBody, GoRoundAgain, BodyDone, ReturnFromCall, UnwindCall,
         InStage, At
<1>0. Top.kind \notin Loops /\ (context' = context => SameContext(context, context'))
  BY Standing DEF Loops, SameContext
<1>1. DOMAIN Top = {"kind", "id", "arg", "stage", "hook", "tails", "out", "returned", "saved"}
  BY CallShape
<1>2. ASSUME NEW g, DOMAIN g = DOMAIN Top, g.kind = "call", g.id = Top.id, g.saved = Top.saved,
             g.stage \in {"bind", "before", "body", "after"}
      PROVE  Alike(Top, g)
  BY <1>1, <1>2, CallShape DEF Alike, Shape, Loops
<1>3. Alike(Top, [Top EXCEPT !.stage = "before"]) /\ Alike(Top, [Top EXCEPT !.stage = "body"])
  BY <1>1, <1>2
<1>4. ASSUME NEW out PROVE Alike(Top, [Top EXCEPT !.out = out])
  BY <1>1, <1>2, CallShape
<1>5. ASSUME NEW hook PROVE Alike(Top, [Top EXCEPT !.hook = hook])
  BY <1>1, <1>2, CallShape
<1>6. CASE Bind
  <2>1. CASE Macro(Top.id).check = None
    BY <1>0, <1>3, <1>6, <2>1, TopGoesOn DEF Bind
  <2>2. CASE Macro(Top.id).check # None
    <3>1. Fitting(program.macros, control, Choosing(Macro(Top.id).check, Top.arg, "run"))
      BY <1>6, ChoosingFits DEF Bind, InStage
    <3> QED BY <1>0, <1>6, <2>2, <3>1, TopAsks DEF Bind, Choosing
  <2> QED BY <2>1, <2>2
<1>7. CASE Bound
  <2>1. CASE Truthy(answer)
    BY <1>0, <1>3, <1>7, <2>1, TopGoesOn DEF Bound
  <2>2. CASE ~Truthy(answer)
    BY <1>0, <1>7, <2>2, TopRaises DEF Bound
  <2> QED BY <2>1, <2>2
<1>8. CASE RunHook
  <2> DEFINE g == [Top EXCEPT !.hook = @ + 1]
             f == Choosing(Hooks[Top.hook + 1], Top.arg, "run")
  <2>1. Alike(Top, g) /\ g.kind = "call" /\ g.stage = Top.stage
    BY <1>1, <1>5
  <2>2. Shape(f) /\ f.kind = "choose" /\ f.why = "run"
    BY DEF Choosing, Shape
  <2>3. Carries(g, f)
    BY <1>8, <2>1, <2>2 DEF Carries, Asking, RunHook, InStage
  <2>4. Continue(Append(Replace(g), f)) /\ context' = context
    BY <1>8 DEF RunHook
  <2>5. TargetFits(context'.target, control, Len(control)) /\ DOMAIN context' = Contexts
    BY <1>0, <2>4, Standing
  <2> HIDE DEF f, g
  <2> QED BY <2>1, <2>2, <2>3, <2>4, <2>5, GoesOnAsking
<1>9. CASE HookDone
  BY <1>0, <1>4, <1>9, TopGoesOn DEF HookDone
<1>10. CASE RunBody
  <2> DEFINE g == [Top EXCEPT !.stage = "body"]
             f == Walking(Macro(Top.id).body, Params(Top.arg))
  <2>1. Alike(Top, g) /\ g.kind = "call" /\ g.stage = "body"
    BY <1>1, <1>3
  <2>2. Shape(f) /\ f.kind = "body"
    BY DEF Walking, Shape, Loops
  <2>3. Carries(g, f)
    BY <2>1, <2>2 DEF Carries
  <2>4. Continue(Append(Replace(g), f)) /\ context' = context
    BY <1>10 DEF RunBody
  <2>5. TargetFits(context'.target, control, Len(control)) /\ DOMAIN context' = Contexts
    BY <1>0, <2>4, Standing
  <2> HIDE DEF f, g
  <2> QED BY <2>1, <2>2, <2>3, <2>4, <2>5, GoesOnAsking
<1>11. CASE GoRoundAgain
  <2> DEFINE g == [Top EXCEPT !.arg = pending.tail, !.stage = "bind", !.hook = 0,
                              !.tails = @ + 1, !.out = @ \o answer.out]
  <2>1. Alike(Top, g)
    <3>1. DOMAIN g = DOMAIN Top /\ g.kind = "call" /\ g.id = Top.id /\ g.saved = Top.saved /\ g.stage = "bind"
      BY <1>1
    <3> HIDE DEF g
    <3> QED BY <1>2, <3>1
  <2>2. CASE Top.tails < MaxTail
    BY <1>0, <1>11, <2>1, <2>2, TopGoesOn DEF GoRoundAgain
  <2>3. CASE ~(Top.tails < MaxTail)
    BY <1>0, <1>11, <2>3, TopRaises DEF GoRoundAgain
  <2> QED BY <2>2, <2>3
<1>12. CASE BodyDone
  <2> DEFINE g == [Top EXCEPT !.returned = answer.returned, !.stage = "after", !.hook = 0,
                              !.out = @ \o answer.out]
             ends == Macro(Top.id).returns /\ answer.returned = None
  <2>1. Alike(Top, g)
    <3>1. DOMAIN g = DOMAIN Top /\ g.kind = "call" /\ g.id = Top.id /\ g.saved = Top.saved /\ g.stage = "after"
      BY <1>1
    <3> HIDE DEF g
    <3> QED BY <1>2, <3>1
  <2>2. CASE ends
    BY <1>0, <1>12, <2>2, TopRaises DEF BodyDone
  <2>3. CASE ~ends
    BY <1>0, <1>12, <2>1, <2>3, TopGoesOn DEF BodyDone
  <2> QED BY <2>2, <2>3
<1>13. CASE ReturnFromCall
  <2>1. SameContext(Top.saved, context') /\ control' = Front(control) /\ doing' = "deliver"
    BY <1>13, RestoredFits DEF ReturnFromCall, Deliver, Below
  <2> QED BY <2>1, LeavesRestoring DEF NestedNext, NestedIn, SameContext, Top
<1>14. CASE UnwindCall
  <2>1. SameContext(Top.saved, context') /\ control' = Front(control) /\ doing' = "unwind"
    BY <1>14, RestoredFits DEF UnwindCall, Below, At
  <2> QED BY <2>1, LeavesRestoring DEF NestedNext, NestedIn, SameContext, Top
<1> QED BY <1>6, <1>7, <1>8, <1>9, <1>10, <1>11, <1>12, <1>13, <1>14 DEF InCall

\* The steps of a body.
LEMMA InBodyFits ==
    ASSUME NestedIn, InBody PROVE NestedNext
<1> SUFFICES ASSUME control # <<>>, Top.kind = "body"
             PROVE  NestedNext
  BY DEF InBody, Emit, SetSection, CheckAssertion, Branch, StartLoop, StartCall, NextRound,
         ReturnValue, ReturnNothing, AfterNested, AfterValue, UnwindBody, Doing, At
<1>0. Top.kind \notin Loops /\ (context' = context => SameContext(context, context'))
  BY Standing DEF Loops, SameContext
<1>1. DOMAIN Top = {"kind", "stmts", "at", "env", "out"}
  BY Standing DEF Shape, Loops
<1>2. ASSUME NEW g, DOMAIN g = DOMAIN Top, g.kind = "body" PROVE Alike(Top, g)
  BY <1>1, <1>2 DEF Alike, Shape, Loops
<1>3. Alike(Top, Advanced(Top))
  <2>1. DOMAIN Advanced(Top) = DOMAIN Top /\ Advanced(Top).kind = "body"
    BY <1>1 DEF Advanced
  <2> QED BY <1>2, <2>1
<1>4. ASSUME NEW out PROVE Alike(Top, Advanced([Top EXCEPT !.out = out]))
  <2> DEFINE g == Advanced([Top EXCEPT !.out = out])
  <2>1. DOMAIN g = DOMAIN Top /\ g.kind = "body"
    BY <1>1 DEF Advanced
  <2> HIDE DEF g
  <2>2. Alike(Top, g)
    BY <1>2, <2>1
  <2> QED BY <2>2 DEF g
<1>5. ASSUME NEW out, NEW x PROVE Alike(Top, Advanced([Top EXCEPT !.out = out, !.env.x = x]))
  <2> DEFINE g == Advanced([Top EXCEPT !.out = out, !.env.x = x])
  <2>1. DOMAIN g = DOMAIN Top /\ g.kind = "body"
    BY <1>1 DEF Advanced
  <2> HIDE DEF g
  <2>2. Alike(Top, g)
    BY <1>2, <2>1
  <2> QED BY <2>2 DEF g
<1>6. CASE Emit
  BY <1>0, <1>4, <1>6, TopGoesOn DEF Emit
<1>7. CASE SetSection
  <2>1. DOMAIN context = {"target", "section", "module"}
    BY Standing DEF Contexts
  <2>2. SameContext(context, context')
    BY <1>7, <2>1 DEF SetSection, SameContext, Contexts
  <2> QED BY <1>0, <1>3, <1>7, <2>2, TopGoesOn DEF SetSection
<1>8. CASE CheckAssertion
  <2>1. CASE Value(Here.value) = 0
    BY <1>0, <1>8, <2>1, TopRaises DEF CheckAssertion
  <2>2. CASE Value(Here.value) # 0
    BY <1>0, <1>3, <1>8, <2>2, TopGoesOn DEF CheckAssertion
  <2> QED BY <2>1, <2>2
<1>9. CASE Branch
  <2> DEFINE f == Walking(IF Value(Here.value) # 0 THEN Here.body ELSE Here.other, Top.env)
  <2>1. f.kind = "body" /\ Shape(f)
    BY DEF Walking, Shape, Loops
  <2>2. Carries(Top, f)
    BY <1>9, <2>1 DEF Carries, Branch, Doing, Here, OpOf, Loops
  <2>3. Fitting(program.macros, control, f)
    BY <2>1, <2>2, Standing DEF Fitting, Loops
  <2>4. Continue(Push(f)) /\ context' = context
    BY <1>9 DEF Branch
  <2> HIDE DEF f
  <2> QED BY <1>0, <2>1, <2>3, <2>4, TopAsks
<1>10. CASE StartLoop
  <2>1. ASSUME NEW env, NEW f, f = Looping(Here.op, Here, env), Continue(Push(f)) PROVE NestedNext
    <3>1. Here.op \in Loops /\ context' = context
      BY <1>10 DEF StartLoop, Doing, Loops
    <3>2. f.kind = Here.op /\ Shape(f) /\ f.outer = context.target /\ f.kind # "call"
      BY <2>1, <3>1 DEF Looping, Shape, Loops
    <3>3. Carries(Top, f)
      BY <3>1, <3>2 DEF Carries, Here, OpOf, Loops
    <3>4. TargetFits(context.target, control, Len(control))
      BY <1>0, Standing
    <3>5. Fitting(program.macros, control, f)
      BY <3>1, <3>2, <3>3, <3>4, Standing DEF Fitting, Loops
    <3> QED BY <1>0, <2>1, <3>1, <3>2, <3>5, TopAsks
  <2>2. CASE Here.op = "for"
    BY <1>10, <2>1, <2>2 DEF StartLoop
  <2>3. CASE Here.op # "for"
    <3>1. Here.op = "fold"
      BY <1>10, <2>3 DEF StartLoop, Doing
    <3> QED BY <1>10, <2>1, <3>1 DEF StartLoop
  <2> QED BY <2>2, <2>3
<1>11. CASE StartCall
  <2> DEFINE f == Choosing(Here.name, Value(Here.arg), IF MaybeTail THEN "tail" ELSE "run")
  <2>1. Fitting(program.macros, control, f)
    BY <1>11, ChoosingFits DEF StartCall, Doing, Here, OpOf
  <2>2. Continue(Push(f)) /\ context' = context
    BY <1>11 DEF StartCall
  <2>3. f.kind # "call"
    BY DEF Choosing
  <2> HIDE DEF f
  <2> QED BY <1>0, <2>1, <2>2, <2>3, TopAsks
<1>12. CASE NextRound
  <2>1. CASE context.target = "fold"
    BY <1>12, <2>1, TopLeft DEF NextRound, Deliver
  <2>2. CASE context.target # "fold"
    BY <1>0, <1>12, <2>2, TopRaises DEF NextRound
  <2> QED BY <2>1, <2>2
<1>13. CASE ReturnValue
  BY <1>13, TopLeft DEF ReturnValue, Deliver
<1>14. CASE ReturnNothing
  BY <1>14, TopLeft DEF ReturnNothing, Deliver
<1>15. CASE AfterNested
  <2>1. CASE Leaving
    BY <1>15, <2>1, TopLeft DEF AfterNested, Deliver
  <2>2. CASE ~Leaving
    BY <1>0, <1>4, <1>15, <2>2, TopGoesOn DEF AfterNested
  <2> QED BY <2>1, <2>2
<1>16. CASE AfterValue
  <2> DEFINE out == IF Here.use = "expr" THEN Top.out ELSE Top.out \o answer.out
             x == IF Here.use = "statement" THEN Top.env.x ELSE answer.returned
             goes == [Top EXCEPT !.out = out, !.env.x = IF Here.use = "statement" THEN @ ELSE answer.returned]
  <2>1. CASE Stray \/ Missing
    BY <1>0, <1>16, <2>1, TopRaises DEF AfterValue
  <2>2. CASE ~(Stray \/ Missing) /\ (answer.exited \/ Here.use = "return")
    BY <1>16, <2>2, TopLeft DEF AfterValue, Deliver
  <2>3. CASE ~(Stray \/ Missing) /\ ~(answer.exited \/ Here.use = "return")
    <3>1. Continue(Replace(Advanced(goes))) /\ context' = context
      BY <1>16, <2>3 DEF AfterValue
    <3>2. DOMAIN Advanced(goes) = DOMAIN Top /\ Advanced(goes).kind = "body"
      BY <1>1 DEF Advanced
    <3> HIDE DEF goes
    <3> QED BY <1>0, <1>2, <3>1, <3>2, TopGoesOn
  <2> QED BY <2>1, <2>2, <2>3
<1>17. CASE UnwindBody
  BY <1>17, TopLeft DEF UnwindBody, At
<1> QED BY <1>6, <1>7, <1>8, <1>9, <1>10, <1>11, <1>12, <1>13, <1>14, <1>15, <1>16, <1>17 DEF InBody

\* The steps of a loop or fold.
LEMMA InLoopFits ==
    ASSUME NestedIn, InLoop PROVE NestedNext
<1> SUFFICES ASSUME control # <<>>, Top.kind \in Loops
             PROVE  NestedNext
  BY DEF InLoop, StartRound, ForRoundDone, FoldRoundDone, LoopDone, UnwindRound, At, Loops
<1> DEFINE n == Len(control)
<1>1. DOMAIN Top = {"kind", "times", "round", "stmts", "env", "out", "outer"} /\ DOMAIN context = Contexts
  BY Standing DEF Shape, Loops
<1>2. ASSUME NEW g, DOMAIN g = DOMAIN Top, g.kind = Top.kind, g.outer = Top.outer PROVE Alike(Top, g)
  BY <1>1, <1>2 DEF Alike, Shape, Loops
<1>3. n \in Nat \ {0} /\ Top = control[n] /\ Saves(program.macros, control, n)
  BY Standing, Popped DEF Placed, Top
<1>4. TargetFits(Top.outer, control, n - 1)
  BY <1>3 DEF Saves
<1>5. ASSUME NEW t, context' = [context EXCEPT !.target = t]
      PROVE  DOMAIN context' = Contexts /\ context'.target = t /\ context'.module = context.module
  BY <1>1, <1>5 DEF Contexts
\* A loop goes on when a round is over.
<1>6. ASSUME NEW g, DOMAIN g = DOMAIN Top, g.kind = Top.kind, g.outer = Top.outer, Continue(Replace(g)),
             context' = [context EXCEPT !.target = Top.outer]
      PROVE  NestedNext
  <2>1. DOMAIN context' = Contexts /\ context'.target = Top.outer /\ context'.module = context.module
    BY <1>5, <1>6
  <2>2. Alike(Top, g)
    BY <1>2, <1>6
  <2>3. TargetFits(context'.target, control, IF Top.kind \in Loops THEN Len(control) - 1 ELSE Len(control))
    BY <1>4, <2>1
  <2>4. Nested(program.macros, Append(Front(control), g), "run", context')
    BY <2>1, <2>2, <2>3, GoesOn DEF NestedIn, Top
  <2> QED BY <1>6, <2>4 DEF NestedNext, Continue, Replace, Below
\* It is left after a round.
<1>7. ASSUME control' = Below, doing' \in {"deliver", "unwind"}, context' = [context EXCEPT !.target = Top.outer]
      PROVE  NestedNext
  <2>1. DOMAIN context' = Contexts /\ context'.target = Top.outer /\ context'.module = context.module
    BY <1>5, <1>7
  <2>2. Nested(program.macros, Front(control), doing', context')
    BY <1>7, <2>1, LeavesRestoring DEF NestedIn, Top
  <2> QED BY <1>7, <2>2 DEF NestedNext, Below
<1>8. CASE StartRound
  <2> DEFINE g == FollowingRound(Top)
             f == Walking(Top.stmts, [Top.env EXCEPT !.i = Top.round])
  <2>1. Alike(Top, g) /\ g.kind = Top.kind
    <3>1. DOMAIN g = DOMAIN Top /\ g.kind = Top.kind /\ g.outer = Top.outer
      BY <1>1 DEF FollowingRound
    <3> HIDE DEF g
    <3> QED BY <1>2, <3>1
  <2>2. Shape(f) /\ f.kind = "body"
    BY DEF Walking, Shape, Loops
  <2>3. Carries(g, f)
    BY <2>1, <2>2 DEF Carries
  <2>4. Continue(Append(Replace(g), f)) /\ context' = [context EXCEPT !.target = RoundTarget] /\ doing = "run"
    BY <1>8 DEF StartRound, At
  <2>5. TargetFits(context.target, control, n - 1)
    <3>1. Active(control, doing) = n - 1
      BY <1>3, <2>4 DEF Active
    <3> QED BY <3>1, Standing
  <2>6. TargetFits(RoundTarget, control, n)
    <3>1. n - 1 \in Nat /\ (n - 1) + 1 = n
      BY <1>3
    <3> HIDE DEF n
    <3> QED BY <1>3, <2>5, <3>1, RoundFits DEF RoundTarget
  <2> HIDE DEF f, g
  <2> QED BY <1>5, <2>1, <2>2, <2>3, <2>4, <2>6, GoesOnAsking
<1>9. CASE ForRoundDone
  <2> DEFINE g == [Top EXCEPT !.out = Top.out \o answer.out]
  <2>1. DOMAIN g = DOMAIN Top /\ g.kind = Top.kind /\ g.outer = Top.outer
    BY <1>1
  <2>2. CASE Leaving
    BY <1>7, <1>9, <2>2 DEF ForRoundDone, Deliver
  <2>3. CASE ~Leaving
    <3>1. Continue(Replace(g)) /\ context' = [context EXCEPT !.target = Top.outer]
      BY <1>9, <2>3 DEF ForRoundDone
    <3> HIDE DEF g
    <3> QED BY <1>6, <2>1, <3>1
  <2> QED BY <2>2, <2>3
<1>10. CASE FoldRoundDone
  <2> DEFINE g == Applied([Top EXCEPT !.out = Top.out \o answer.out])
             leaves == answer.returned # None \/ pending.tail # None
  <2>1. DOMAIN g = DOMAIN Top /\ g.kind = Top.kind /\ g.outer = Top.outer
    <3> DEFINE h == [Top EXCEPT !.out = Top.out \o answer.out]
    <3>1. DOMAIN h = DOMAIN Top /\ h.kind = Top.kind /\ h.outer = Top.outer
      BY <1>1
    <3> HIDE DEF h
    <3>2. DOMAIN Applied(h) = DOMAIN h /\ Applied(h).kind = h.kind /\ Applied(h).outer = h.outer
      BY <1>1, <3>1 DEF Applied
    <3> QED BY <3>1, <3>2 DEF h
  <2>2. CASE leaves
    BY <1>7, <1>10, <2>2 DEF FoldRoundDone, Deliver
  <2>3. CASE ~leaves
    <3>1. Continue(Replace(g)) /\ context' = [context EXCEPT !.target = Top.outer]
      BY <1>10, <2>3 DEF FoldRoundDone
    <3> HIDE DEF g
    <3> QED BY <1>6, <2>1, <3>1
  <2> QED BY <2>2, <2>3
<1>11. CASE LoopDone
  BY <1>11, TopLeft DEF LoopDone, Deliver, At
<1>12. CASE UnwindRound
  BY <1>7, <1>12 DEF UnwindRound, At
<1> QED BY <1>8, <1>9, <1>10, <1>11, <1>12 DEF InLoop

\* What fits the empty stack: the main module, and no fold to go on with.
LEMMA EmptyStack ==
    /\ Len(<<>>) = 0 /\ IsSequence(<<>>) /\ CallsIn(<<>>) = {}
    /\ \A ms, m : ModuleFits(ms, m, <<>>, 0) <=> m = MainModule
    /\ \A t : TargetFits(t, <<>>, 0) <=> t = "none"
    /\ \A mode : Active(<<>>, mode) = 0
<1>1. <<>> \in Seq({}) /\ Len(<<>>) = 0
  OBVIOUS
<1>2. IsSequence(<<>>)
  BY <1>1 DEF IsSequence, ToSet
<1>3. CallsIn(<<>>) = {} /\ \A mode : Active(<<>>, mode) = 0
  BY <1>1 DEF CallsIn, Active
<1>4. \A ms, m : ModuleFits(ms, m, <<>>, 0) <=> m = MainModule
  BY DEF ModuleFits, NoCall
<1>5. \A t : TargetFits(t, <<>>, 0) <=> t = "none"
  BY DEF TargetFits
<1> QED BY <1>1, <1>2, <1>3, <1>4, <1>5

\* A fresh context fits the driver's empty stack.
LEMMA FreshFits ==
    ASSUME NEW ms, NEW mode \in {"run", "deliver", "unwind"} PROVE Nested(ms, <<>>, mode, Fresh)
<1>1. Sound(ms, <<>>)
  BY EmptyStack DEF Sound
<1>2. Cardinality(CallsIn(<<>>)) <= MaxDepth
  BY EmptyStack, FS_EmptySet, LimitAssumption
<1>3. DOMAIN Fresh = Contexts /\ Fresh.module = MainModule /\ Fresh.target = "none"
  BY DEF Fresh, Contexts
<1> QED BY <1>1, <1>2, <1>3, EmptyStack DEF Nested, Situation

\* The steps of the driver.
LEMMA DrivingFits ==
    ASSUME NestedIn, Driving PROVE NestedNext
<1>1. ASSUME control = <<>>, control' = control, SameContext(context, context'), doing' \in {"run", "deliver", "unwind"}
      PROVE  NestedNext
  BY <1>1, StaysPut DEF NestedIn, NestedNext
<1>2. DOMAIN context = Contexts /\ doing \in {"run", "deliver", "unwind"}
  BY DEF NestedIn, Nested, Situation
<1>3. CASE WalkLabel
  BY <1>1, <1>2, <1>3 DEF WalkLabel, AtTop, SameContext
<1>4. CASE WalkSection
  BY <1>1, <1>2, <1>4 DEF WalkSection, AtTop, SameContext, Contexts
<1>5. CASE WalkInvocation
  <2> DEFINE f == Choosing(program.top[at].name, Eval(program.top[at].arg, NoEnv), "run")
  <2>1. Continue(Push(f)) /\ context' = context /\ control = <<>> /\ doing = "run"
    BY <1>5 DEF WalkInvocation, AtTop
  <2>2. f.kind = "choose" /\ f.why = "run" /\ Shape(f)
    BY DEF Choosing, Shape
  <2> HIDE DEF f
  <2>3. Fitting(program.macros, control, f)
    BY <2>1, <2>2 DEF Fitting, Asking, Loops
  <2>4. /\ Sound(program.macros, control) /\ Cardinality(CallsIn(control)) <= MaxDepth
        /\ ModuleFits(program.macros, context.module, control, Len(control))
        /\ TargetFits(context.target, control, Len(control))
    BY <2>1 DEF NestedIn, Nested, Situation, Active
  <2> QED BY <1>2, <2>1, <2>2, <2>3, <2>4, Adds DEF NestedNext, Continue, Push
<1>6. CASE Collect
  BY <1>1, <1>2, <1>6 DEF Collect, Continue, SameContext
<1>7. CASE ReportError
  BY <1>1, <1>2, <1>7 DEF ReportError, SameContext
<1>8. CASE SecondPass
  BY <1>2, <1>8, FreshFits DEF SecondPass, AtEnd, NestedNext
<1>9. CASE Finish
  BY <1>1, <1>2, <1>9 DEF Finish, AtEnd, SameContext
<1> QED BY <1>3, <1>4, <1>5, <1>6, <1>7, <1>8, <1>9 DEF Driving

\* At first nothing runs.
LEMMA InitFits == Init => NestedIn
BY FreshFits DEF Init, NestedIn

\* Every step keeps the situation.
LEMMA FitsStep ==
    ASSUME NestedIn, [Next]_vars PROVE NestedIn'
<1>1. CASE Next /\ ~Stopped
  <2>1. program' = program
    BY <1>1 DEF Next, Driving, Resolving, InCall, InBody, InLoop, Driver,
           WalkLabel, WalkSection, WalkInvocation, Collect, ReportError, SecondPass, Finish,
           FitByType, Probe, JudgeProbe, SwallowError, ChooseNone, TailCall, NotTailCall, EnterCall,
           Bind, Bound, RunHook, HookDone, RunBody, GoRoundAgain, BodyDone, ReturnFromCall, UnwindCall,
           Emit, SetSection, CheckAssertion, Branch, StartLoop, StartCall, NextRound,
           ReturnValue, ReturnNothing, AfterNested, AfterValue, UnwindBody,
           StartRound, ForRoundDone, FoldRoundDone, LoopDone, UnwindRound
  <2>2. NestedNext
    BY <1>1, DrivingFits, ResolvingFits, InCallFits, InBodyFits, InLoopFits DEF Next
  <2> QED BY <2>1, <2>2, NestedPrimed
<1>2. CASE UNCHANGED vars
  BY <1>2 DEF vars, NestedIn
<1> QED BY <1>1, <1>2 DEF Stopped

---------------------------------------------------------------------------
(* Where the driver is, and which labels have a position.                  *)

\* One statement more.
LEMMA LabelsExtended ==
    ASSUME NEW top, NEW n \in Nat \ {0}
    PROVE  LabelsUpTo(top, n) = LabelsUpTo(top, n - 1) \cup (IF top[n].op = "label" THEN {top[n].name} ELSE {})
<1>1. \A i : i \in 1..n <=> i \in 1..(n - 1) \/ i = n
  OBVIOUS
<1> QED BY <1>1 DEF LabelsUpTo

\* A step inside an invocation.
Inside ==
    /\ phase = "walking" /\ control # <<>> /\ UNCHANGED <<program, pass, phase, at, emitted, positions>>
    /\ count' \in {count, count + 1}

\* All steps but the driver's are inside a call.
LEMMA InsideSteps ==
    ASSUME Resolving \/ InCall \/ InBody \/ InLoop PROVE Inside
BY DEF Resolving, InCall, InBody, InLoop, Driver, Stream, Inside, Decided, InStage, Doing, At,
       FitByType, Probe, JudgeProbe, SwallowError, ChooseNone, TailCall, NotTailCall, EnterCall,
       Bind, Bound, RunHook, HookDone, RunBody, GoRoundAgain, BodyDone, ReturnFromCall, UnwindCall,
       Emit, SetSection, CheckAssertion, Branch, StartLoop, StartCall, NextRound,
       ReturnValue, ReturnNothing, AfterNested, AfterValue, UnwindBody,
       StartRound, ForRoundDone, FoldRoundDone, LoopDone, UnwindRound

\* The statements of a program.
LEMMA TopLength ==
    ASSUME program \in Programs
    PROVE  /\ Len(program.top) \in Nat
           /\ \A i \in 1..Len(program.top) : program.top[i].op = "label" => program.top[i].name \in Labels
           /\ ToSet(program.top) = {program.top[i] : i \in 1..Len(program.top)}
<1>1. program.top \in Seq(ToSet(program.top))
  BY ProgramAssumption
<1>2. \A i \in 1..Len(program.top) : program.top[i] \in ToSet(program.top)
  BY <1>1
<1>3. ToSet(program.top) = {program.top[i] : i \in 1..Len(program.top)}
  BY <1>1 DEF ToSet
<1> QED BY <1>1, <1>2, <1>3, ProgramAssumption

LEMMA PositionInit == Init => Position
<1> SUFFICES ASSUME Init PROVE Position
  OBVIOUS
<1>1. Len(program.top) \in Nat
  BY TopLength DEF Init
<1>2. LabelsUpTo(program.top, 0) = {}
  BY DEF LabelsUpTo
<1> QED BY <1>1, <1>2 DEF Init, Position

\* Every step keeps the driver's place and the labels it has met.
LEMMA PositionStep ==
    ASSUME Position, [Next]_vars PROVE Position'
<1>0. Len(program.top) \in Nat /\ at \in Nat \ {0} /\ at \in 1..(Len(program.top) + 1)
  BY TopLength DEF Position
<1>1. ASSUME Inside PROVE Position'
  BY <1>1 DEF Inside, Position
<1>2. CASE WalkLabel
  <2>1. at <= Len(program.top) /\ program.top[at].op = "label" /\ control = <<>> /\ doing = "run"
    BY <1>2 DEF WalkLabel, AtTop
  <2>2. at + 1 \in 1..(Len(program.top) + 1) /\ at' = at + 1 /\ (at + 1) - 1 = at
    BY <1>0, <1>2, <2>1 DEF WalkLabel
  <2>3. DOMAIN positions' = DOMAIN positions \cup {program.top[at].name}
    BY <1>2 DEF WalkLabel
  <2>4. program.top[at].name \in LabelsUpTo(program.top, Len(program.top))
    BY <1>0, <2>1 DEF LabelsUpTo
  <2>5. LabelsUpTo(program.top, at) = LabelsUpTo(program.top, at - 1) \cup {program.top[at].name}
    BY <1>0, <2>1, LabelsExtended
  <2>6. DOMAIN positions' = LabelsUpTo(program.top, IF pass = "strict" THEN Len(program.top) ELSE (at + 1) - 1)
    BY <2>2, <2>3, <2>4, <2>5 DEF Position
  <2>7. /\ UNCHANGED <<program, pass, phase, control, doing, count>>
    BY <1>2 DEF WalkLabel, Stream
  <2> QED BY <2>1, <2>2, <2>6, <2>7 DEF Position
<1>3. ASSUME at <= Len(program.top), program.top[at].op # "label", control' = <<>>, doing' = "run", at' = at + 1,
             UNCHANGED <<program, pass, phase, count, positions>>
      PROVE  Position'
  <2>1. at + 1 \in 1..(Len(program.top) + 1) /\ (at + 1) - 1 = at
    BY <1>0, <1>3
  <2>2. LabelsUpTo(program.top, at) = LabelsUpTo(program.top, at - 1)
    <3>1. LabelsUpTo(program.top, at) =
             LabelsUpTo(program.top, at - 1) \cup (IF program.top[at].op = "label" THEN {program.top[at].name} ELSE {})
      BY <1>0, LabelsExtended
    <3> QED BY <1>3, <3>1
  <2> QED BY <1>3, <2>1, <2>2 DEF Position
<1>4. CASE WalkSection
  BY <1>3, <1>4 DEF WalkSection, AtTop, Stream
<1>5. CASE WalkInvocation
  <2>1. at <= Len(program.top) /\ program.top[at].op = "call" /\ UNCHANGED <<program, pass, phase, at, count, positions>>
    BY <1>5 DEF WalkInvocation, AtTop, Driver, Stream
  <2> QED BY <2>1 DEF Position
<1>6. CASE Collect
  <2>1. at <= Len(program.top) /\ program.top[at].op = "call"
    BY <1>6 DEF Collect, Position
  <2> QED BY <1>3, <1>6, <2>1 DEF Collect, Continue, Stream
<1>7. CASE ReportError
  BY <1>7 DEF ReportError, Position, Stream
<1>8. CASE SecondPass
  <2>1. LabelsUpTo(program.top, Len(program.top)) = DOMAIN positions
    BY <1>0, <1>8 DEF SecondPass, AtEnd, Position
  <2>2. 1 \in 1..(Len(program.top) + 1)
    BY <1>0
  <2> QED BY <1>8, <2>1, <2>2 DEF SecondPass, AtEnd, Position
<1>9. CASE Finish
  BY <1>9 DEF Finish, Position, Stream
<1>10. CASE UNCHANGED vars
  BY <1>10 DEF vars, Position
<1> QED BY <1>1, <1>2, <1>4, <1>5, <1>6, <1>7, <1>8, <1>9, <1>10, InsideSteps DEF Next, Driving, Stopped

---------------------------------------------------------------------------
(* Jumps are settled before anything else runs.                            *)

SettledIn == Settled(control, doing, pending, answer, context)

\* The frame a body or a loop runs for.
LEMMA BelowTop ==
    ASSUME NestedIn, control # <<>>, Top.kind \in Loops \cup {"body"}
    PROVE  /\ Below # <<>> /\ Below[Len(Below)] = control[Len(control) - 1] /\ Len(control) - 1 \in 1..Len(control)
           /\ Shape(Below[Len(Below)]) /\ Carries(Below[Len(Below)], Top)
<1> DEFINE n == Len(control)
           ms == program.macros
<1>1. ~Asking(Top)
  BY DEF Asking, Loops
<1>2. /\ Sound(ms, Below) /\ (Below = <<>> => Asking(control[n])) /\ Top = control[n] /\ n \in Nat \ {0}
      /\ Len(Below) = n - 1
      /\ Below # <<>> => n - 1 \in 1..n /\ Last(Below) = control[n - 1] /\ Carries(control[n - 1], control[n])
  BY Standing, Popped DEF Below, Top
<1>3. Below # <<>> => Last(Below) = Below[Len(Below)] /\ Placed(ms, Below, Len(Below))
  BY <1>2, Popped
<1> QED BY <1>1, <1>2, <1>3 DEF Placed

\* What a jump out of a body meets.
LEMMA BelowBody ==
    ASSUME NestedIn, control # <<>>, Top.kind = "body"
    PROVE  LET g == Below[Len(Below)] IN
           /\ Below # <<>>
           /\ \/ g.kind \in Loops
              \/ g.kind = "call" /\ g.stage = "body"
              \/ g.kind = "body" /\ OpOf(g) = "if"
           /\ context.target = "fold" => g.kind = "fold" \/ (g.kind = "body" /\ OpOf(g) = "if")
<1> DEFINE g == Below[Len(Below)]
           n == Len(control)
<1>1. Below # <<>> /\ Shape(g) /\ Carries(g, Top) /\ g = control[n - 1] /\ n - 1 \in 1..n /\ n \in Nat
  BY BelowTop, Standing, EmptyOrNot DEF Sound
<1> HIDE DEF g
<1>2. \/ g.kind \in Loops
      \/ g.kind = "call" /\ g.stage = "body"
      \/ g.kind = "body" /\ OpOf(g) = "if"
  BY <1>1 DEF Carries, Asking, Shape, Loops
<1>3. ASSUME context.target = "fold", g.kind # "fold", ~(g.kind = "body" /\ OpOf(g) = "if") PROVE FALSE
  <2>1. Active(control, doing) = n
    BY Standing DEF Loops
  <2>2. PICK i \in 1..n : control[i].kind = "fold" /\ NoCall(control, i + 1, n) /\ NoLoop(control, i + 1, n)
    BY <1>3, <2>1, Standing DEF TargetFits
  <2>3. control[n].kind = "body"
    BY Standing
  <2>4. i # n /\ i # n - 1
    BY <1>1, <1>3, <2>2, <2>3
  <2>5. n - 1 \in (i + 1)..n
    BY <1>1, <2>4
  <2>6. g.kind # "call" /\ g.kind \notin Loops
    BY <1>1, <2>2, <2>5 DEF NoCall, NoLoop
  <2> QED BY <1>2, <1>3, <2>6
<1> QED BY <1>1, <1>2, <1>3 DEF g

\* When nothing is pending, nothing has to be settled.
LEMMA NothingPending ==
    ASSUME NEW c, NEW mode, NEW ans, NEW ctx PROVE Settled(c, mode, NoPending, ans, ctx)
BY DEF Settled, NoPending

\* Only these frames are delivered to while something is pending.
LEMMA PendingAt ==
    ASSUME SettledIn, doing = "deliver", pending # NoPending
    PROVE  /\ control # <<>> /\ JumpsOut(control, pending, answer, context)
           /\ pending.next # None => pending.tail = None
           /\ pending.next # None \/ pending.tail # None
BY DEF SettledIn, Settled, NoPending

\* A jump goes on out of a body.
LEMMA JumpsOn ==
    ASSUME NestedIn, control # <<>>, Top.kind = "body",
           NEW p, p = [tail |-> p.tail, next |-> p.next], p.tail = None \/ p.next = None,
           NEW ans, p.next # None => context.target = "fold" /\ ans.returned = None
    PROVE  Settled(Below, "deliver", p, ans, context)
<1>1. JumpsOut(Below, p, ans, context)
  BY BelowBody DEF JumpsOut
<1> QED BY <1>1, BelowBody DEF Settled

SettledNext == Settled(control', doing', pending', answer', context')

\* Steps with no jump under way.
LEMMA NoPendingKept ==
    ASSUME pending = NoPending, pending' = pending PROVE SettledNext
BY NothingPending DEF SettledNext

\* Steps of an error on its way out.
LEMMA UnwindingSettled ==
    ASSUME SettledIn, doing = "unwind", doing' = doing, pending' = pending PROVE SettledNext
BY DEF SettledNext, SettledIn, Settled

\* Raising an error abandons a pending tail call, never a pending `@next`.
LEMMA RaisingSettled ==
    ASSUME doing' = "unwind", pending' = [tail |-> pending'.tail, next |-> None] PROVE SettledNext
<1>1. pending'.next = None
  BY pending' = [tail |-> pending'.tail, next |-> None]
<1> QED BY <1>1 DEF SettledNext, Settled

\* The two ways to jump, of which one at most is under way.
LEMMA PendingRecord ==
    ASSUME SettledIn
    PROVE  /\ pending = [tail |-> pending.tail, next |-> pending.next] /\ (pending.tail = None \/ pending.next = None)
           /\ pending.tail = None /\ pending.next = None => pending = NoPending
           /\ \A x : [pending EXCEPT !.tail = x] = [tail |-> x, next |-> pending.next]
           /\ \A x : [pending EXCEPT !.next = x] = [tail |-> pending.tail, next |-> x]
           /\ doing = "run" => pending = NoPending
<1>1. pending = [tail |-> pending.tail, next |-> pending.next]
  BY DEF SettledIn, Settled
<1>2. DOMAIN pending = {"tail", "next"}
  BY <1>1
<1>3. \A x : [pending EXCEPT !.tail = x] = [tail |-> x, next |-> pending.next]
  BY <1>1
<1>4. \A x : [pending EXCEPT !.next = x] = [tail |-> pending.tail, next |-> x]
  BY <1>1
<1>5. pending.tail = None /\ pending.next = None => pending = NoPending
  BY <1>1 DEF NoPending
<1> QED BY <1>1, <1>3, <1>4, <1>5 DEF SettledIn, Settled

\* The steps of each kind of function settle the jumps they meet.
LEMMA DrivingSettled ==
    ASSUME NestedIn, SettledIn, Driving PROVE SettledNext
<1>1. CASE doing = "run"
  <2>1. pending = NoPending /\ pending' = NoPending
    BY <1>1, PendingRecord DEF Driving, WalkLabel, WalkSection, WalkInvocation, Collect, ReportError, SecondPass,
       Finish
  <2> QED BY <2>1, NoPendingKept
<1>2. CASE Collect
  <2>1. pending = NoPending /\ pending' = pending
    BY <1>2, PendingAt DEF Collect
  <2> QED BY <2>1, NoPendingKept
<1>3. CASE ReportError
  BY <1>3, UnwindingSettled DEF ReportError
<1> QED BY <1>1, <1>2, <1>3 DEF Driving, WalkLabel, WalkSection, WalkInvocation, SecondPass, Finish, AtTop, AtEnd

LEMMA ResolvingSettled ==
    ASSUME NestedIn, SettledIn, Resolving PROVE swallowed' \/ SettledNext
<1>1. CASE doing = "run" /\ ~TailCall
  <2>1. pending = NoPending /\ pending' = pending
    BY <1>1, PendingRecord DEF Resolving, FitByType, Probe, JudgeProbe, SwallowError, ChooseNone, NotTailCall,
       EnterCall
  <2> QED BY <2>1, NoPendingKept
<1>2. CASE JudgeProbe
  <2>1. control # <<>> /\ Top.kind = "choose" /\ doing = "deliver" /\ pending' = pending
    BY <1>2 DEF JudgeProbe, At
  <2>2. pending = NoPending
    BY <2>1, PendingAt, Standing DEF JumpsOut, Loops
  <2> QED BY <2>1, <2>2, NoPendingKept
<1>3. CASE SwallowError
  BY <1>3 DEF SwallowError
<1>4. CASE TailCall
  <2> DEFINE n == Len(control)
             b == Below[Len(Below)]
             c == Front(Below)
  <2>1. /\ control # <<>> /\ Top.kind = "choose" /\ Top.why = "tail" /\ doing = "run"
        /\ pending' = [pending EXCEPT !.tail = Top.arg] /\ context' = context
        /\ control' = c /\ doing' = "deliver"
    BY <1>4 DEF TailCall, Decided, At, Deliver
  <2>2. pending'.next = None /\ pending' = [tail |-> pending'.tail, next |-> pending'.next]
    BY <2>1, PendingRecord DEF NoPending
  <2>3. Sound(program.macros, Below) /\ Below # <<>> /\ Carries(Last(Below), Top)
    <3>1. ~Asking(Top)
      BY <2>1 DEF Asking
    <3> QED BY <2>1, <3>1, Standing, Popped DEF Below, Top
  <2>4. /\ Shape(Last(Below)) /\ (c = <<>> => Asking(Last(Below)))
        /\ c # <<>> => Last(c) = Below[Len(Below) - 1] /\ Carries(Below[Len(Below) - 1], Last(Below))
        /\ Sound(program.macros, c)
    BY <2>3, Popped DEF Placed
  <2> HIDE DEF c
  <2>5. Last(Below).kind = "body" /\ OpOf(Last(Below)) = "call"
    BY <2>1, <2>3, <2>4 DEF Carries, Shape, Asking, Loops
  <2>6. c # <<>>
    BY <2>4, <2>5 DEF Asking
  <2>7. Last(c) = c[Len(c)] /\ Shape(Last(c))
    BY <2>4, <2>6, Popped DEF Placed
  <2>8. \/ Last(c).kind \in Loops
        \/ Last(c).kind = "call" /\ Last(c).stage = "body"
        \/ Last(c).kind = "body" /\ OpOf(Last(c)) = "if"
    BY <2>4, <2>5, <2>6, <2>7 DEF Carries, Shape, Asking, Loops
  <2>9. Settled(c, "deliver", pending', answer', context)
    BY <2>2, <2>6, <2>7, <2>8 DEF Settled, JumpsOut
  <2> QED BY <2>1, <2>9 DEF SettledNext
<1> QED BY <1>1, <1>2, <1>3, <1>4 DEF Resolving, FitByType, Probe, ChooseNone, NotTailCall, EnterCall, Decided, At

LEMMA InCallSettled ==
    ASSUME NestedIn, SettledIn, InCall PROVE SettledNext
<1>1. CASE doing = "run"
  <2>1. pending = NoPending /\ pending' = pending
    BY <1>1, PendingRecord DEF InCall, Bind, Bound, RunHook, HookDone, RunBody, GoRoundAgain, BodyDone,
       ReturnFromCall, UnwindCall, InStage, At
  <2> QED BY <2>1, NoPendingKept
<1>2. CASE UnwindCall
  BY <1>2, UnwindingSettled DEF UnwindCall, At
<1>3. ASSUME control # <<>>, Top.kind = "call", doing = "deliver"
      PROVE  pending.next = None /\ (Top.stage # "body" => pending = NoPending)
  BY <1>3, PendingAt, Standing DEF JumpsOut, Loops, NoPending
<1>4. CASE Bound \/ HookDone
  <2>1. pending = NoPending /\ pending' = pending
    BY <1>3, <1>4 DEF Bound, HookDone, InStage, At
  <2> QED BY <2>1, NoPendingKept
<1>5. CASE GoRoundAgain
  <2>1. pending' = [pending EXCEPT !.tail = None] /\ pending.next = None
    BY <1>3, <1>5 DEF GoRoundAgain, InStage, At
  <2>2. pending' = NoPending
    BY <2>1, PendingRecord DEF NoPending
  <2> QED BY <2>2, NothingPending DEF SettledNext
<1>6. CASE BodyDone
  <2>1. pending = NoPending /\ pending' = pending
    BY <1>3, <1>6, PendingRecord DEF BodyDone, InStage, At
  <2> QED BY <2>1, NoPendingKept
<1> QED BY <1>1, <1>2, <1>4, <1>5, <1>6 DEF InCall, Bind, RunHook, RunBody, ReturnFromCall, InStage, At

LEMMA InBodySettled ==
    ASSUME NestedIn, SettledIn, InBody PROVE SettledNext
<1> SUFFICES ASSUME control # <<>>, Top.kind = "body"
             PROVE  SettledNext
  BY DEF InBody, Emit, SetSection, CheckAssertion, Branch, StartLoop, StartCall, NextRound,
         ReturnValue, ReturnNothing, AfterNested, AfterValue, UnwindBody, Doing, At
<1>0. Top.kind \notin Loops /\ Here = Top.stmts[Top.at] /\ Here.op = OpOf(Top) /\ Top = control[Len(control)]
  BY Standing DEF Loops, Here, OpOf
<1>1. CASE doing = "run" /\ ~NextRound
  <2>1. pending = NoPending /\ pending' = pending
    BY <1>1, PendingRecord DEF InBody, Emit, SetSection, CheckAssertion, Branch, StartLoop, StartCall,
       ReturnValue, ReturnNothing, AfterNested, AfterValue, UnwindBody, Doing, At
  <2> QED BY <2>1, NoPendingKept
<1>2. CASE UnwindBody
  BY <1>2, UnwindingSettled DEF UnwindBody, At
<1>3. CASE NextRound
  <2>1. doing = "run" /\ context' = context
    BY <1>3 DEF NextRound, Doing, At
  <2>2. pending = NoPending
    BY <2>1, PendingRecord
  <2>3. CASE context.target = "fold"
    <3>1. /\ control' = Below /\ doing' = "deliver" /\ answer'.returned = None
          /\ pending' = [pending EXCEPT !.next = Value(Here.value)]
      BY <1>3, <2>3 DEF NextRound, Deliver
    <3>2. pending' = [tail |-> pending'.tail, next |-> pending'.next] /\ pending'.tail = None
      BY <2>2, <3>1, PendingRecord DEF NoPending
    <3>3. Settled(Below, "deliver", pending', answer', context)
      BY <2>3, <3>1, <3>2, JumpsOn
    <3> QED BY <2>1, <3>1, <3>3 DEF SettledNext
  <2>4. CASE context.target # "fold"
    BY <1>3, <2>2, <2>4, NoPendingKept DEF NextRound
  <2> QED BY <2>3, <2>4
<1>4. CASE AfterNested
  <2>1. doing = "deliver" /\ pending' = pending /\ context' = context /\ OpOf(Top) \in {"if", "for"}
    BY <1>0, <1>4 DEF AfterNested, At
  <2>2. CASE Leaving
    <3>1. control' = Below /\ doing' = "deliver" /\ answer'.returned = answer.returned
      BY <1>4, <2>2 DEF AfterNested, Deliver
    <3>2. pending.next # None => context.target = "fold" /\ answer.returned = None
      <4>1. pending.next # None => pending # NoPending
        BY DEF NoPending
      <4> QED BY <2>1, <4>1, PendingAt DEF JumpsOut
    <3>3. Settled(Below, "deliver", pending, answer', context)
      BY <3>1, <3>2, PendingRecord, JumpsOn
    <3> QED BY <2>1, <3>1, <3>3 DEF SettledNext
  <2>3. CASE ~Leaving
    BY <2>1, <2>3, NoPendingKept DEF Leaving
  <2> QED BY <2>2, <2>3
<1>5. CASE AfterValue
  <2>1. doing = "deliver" /\ pending' = pending /\ context' = context /\ OpOf(Top) \in {"call", "fold"}
    BY <1>0, <1>5 DEF AfterValue, At
  <2>2. pending.next = None /\ (pending.tail # None => answer.exited)
    <3>1. CASE pending = NoPending
      BY <3>1 DEF NoPending
    <3>2. CASE pending # NoPending
      <4>1. JumpsOut(control, pending, answer, context)
        BY <2>1, <3>2, PendingAt
      <4> QED BY <1>0, <2>1, <4>1 DEF JumpsOut
    <3> QED BY <3>1, <3>2
  <2>3. CASE answer.exited
    <3>1. CASE Stray \/ Missing
      <4>1. doing' = "unwind"
        BY <1>5, <3>1 DEF AfterValue, Raise
      <4>2. pending = [tail |-> pending.tail, next |-> None]
        BY <2>2, PendingRecord
      <4> QED BY <2>1, <4>1, <4>2, RaisingSettled
    <3>2. CASE ~(Stray \/ Missing)
      <4>1. control' = Below /\ doing' = "deliver"
        BY <1>5, <2>3, <3>2 DEF AfterValue, Deliver
      <4>2. Settled(Below, "deliver", pending, answer', context)
        BY <2>2, PendingRecord, JumpsOn
      <4> QED BY <2>1, <4>1, <4>2 DEF SettledNext
    <3> QED BY <3>1, <3>2
  <2>4. CASE ~answer.exited
    <3>1. pending = NoPending
      BY <2>2, <2>4, PendingRecord
    <3> QED BY <2>1, <3>1, NoPendingKept
  <2> QED BY <2>3, <2>4
<1> QED BY <1>1, <1>2, <1>3, <1>4, <1>5 DEF InBody, Emit, SetSection, CheckAssertion, Branch, StartLoop, StartCall,
       ReturnValue, ReturnNothing, Doing, At

LEMMA InLoopSettled ==
    ASSUME NestedIn, SettledIn, InLoop PROVE SettledNext
<1> SUFFICES ASSUME control # <<>>, Top.kind \in Loops
             PROVE  SettledNext
  BY DEF InLoop, StartRound, ForRoundDone, FoldRoundDone, LoopDone, UnwindRound, At, Loops
<1> DEFINE b == Below[Len(Below)]
<1>0. Top = control[Len(control)]
  BY Standing
<1>1. CASE doing = "run"
  <2>1. pending = NoPending /\ pending' = pending
    BY <1>1, PendingRecord DEF InLoop, StartRound, ForRoundDone, FoldRoundDone, LoopDone, UnwindRound, At
  <2> QED BY <2>1, NoPendingKept
<1>2. CASE UnwindRound
  BY <1>2, UnwindingSettled DEF UnwindRound, At
<1>3. Below # <<>> /\ b.kind = "body" /\ OpOf(b) = Top.kind
  BY BelowTop DEF Carries, Asking, Shape, Loops
<1> HIDE DEF b
<1>4. ASSUME pending' = pending, pending.next = None, pending.tail # None => OpOf(b) = "for" \/ answer'.exited,
             control' = Below, doing' = "deliver"
      PROVE  SettledNext
  <2>1. OpOf(b) \in {"for", "fold"}
    BY <1>3 DEF Loops
  <2>2. JumpsOut(Below, pending, answer', context')
    BY <1>3, <1>4, <2>1 DEF JumpsOut, b
  <2> QED BY <1>3, <1>4, <2>2, PendingRecord DEF SettledNext, Settled
<1>5. CASE ForRoundDone
  <2>1. doing = "deliver" /\ pending' = pending /\ Top.kind = "for"
    BY <1>5 DEF ForRoundDone, At
  <2>2. pending.next = None
    <3>1. CASE pending = NoPending
      BY <3>1 DEF NoPending
    <3>2. CASE pending # NoPending
      BY <1>0, <2>1, <3>2, PendingAt DEF JumpsOut
    <3> QED BY <3>1, <3>2
  <2>3. CASE Leaving
    BY <1>3, <1>4, <1>5, <2>1, <2>2, <2>3 DEF ForRoundDone, Deliver
  <2>4. CASE ~Leaving
    BY <2>1, <2>4, NoPendingKept DEF Leaving
  <2> QED BY <2>3, <2>4
<1>6. CASE FoldRoundDone
  <2> DEFINE leaves == answer.returned # None \/ pending.tail # None
  <2>1. doing = "deliver" /\ Top.kind = "fold"
    BY <1>6 DEF FoldRoundDone, At
  <2>2. pending.next # None => answer.returned = None /\ pending.tail = None
    <3>1. CASE pending = NoPending
      BY <3>1 DEF NoPending
    <3>2. CASE pending # NoPending
      BY <2>1, <3>2, PendingAt DEF JumpsOut
    <3> QED BY <3>1, <3>2
  <2>3. CASE leaves
    <3>1. /\ pending' = pending /\ control' = Below /\ doing' = "deliver"
          /\ answer' = [out |-> Top.out \o answer.out, returned |-> answer.returned, exited |-> TRUE]
      BY <1>6, <2>3 DEF FoldRoundDone, Deliver
    <3>2. answer'.exited
      BY <3>1
    <3>3. pending.next = None
      BY <2>2, <2>3
    <3> QED BY <1>4, <3>1, <3>2, <3>3
  <2>4. CASE ~leaves
    <3>1. pending' = [pending EXCEPT !.next = None] /\ pending.tail = None
      BY <1>6, <2>4 DEF FoldRoundDone
    <3>2. pending' = NoPending
      BY <3>1, PendingRecord DEF NoPending
    <3> QED BY <3>2, NothingPending DEF SettledNext
  <2> QED BY <2>3, <2>4
<1> QED BY <1>1, <1>2, <1>5, <1>6 DEF InLoop, StartRound, LoopDone, At

---------------------------------------------------------------------------
(* What the invariant says of the properties the runs check.               *)

FitsStack == NestedIn /\ Position

\* An error once recovered from stays so, until the second pass.
LEMMA SwallowedStays ==
    ASSUME swallowed, [Next]_vars, ~SecondPass PROVE swallowed'
BY DEF Next, Driving, Resolving, InCall, InBody, InLoop, Errors, vars, Stopped,
       WalkLabel, WalkSection, WalkInvocation, Collect, ReportError, Finish,
       FitByType, Probe, JudgeProbe, SwallowError, ChooseNone, TailCall, NotTailCall, EnterCall,
       Bind, Bound, RunHook, HookDone, RunBody, GoRoundAgain, BodyDone, ReturnFromCall, UnwindCall,
       Emit, SetSection, CheckAssertion, Branch, StartLoop, StartCall, NextRound,
       ReturnValue, ReturnNothing, AfterNested, AfterValue, UnwindBody,
       StartRound, ForRoundDone, FoldRoundDone, LoopDone, UnwindRound

\* Every step settles its jumps until an error is swallowed.
LEMMA SettledStep ==
    ASSUME NestedIn, swallowed \/ SettledIn, [Next]_vars PROVE (swallowed \/ SettledIn)'
<1>1. SettledNext => SettledIn'
  BY DEF SettledNext, SettledIn
<1>2. CASE SecondPass
  <2>1. pending' = NoPending
    BY <1>2 DEF SecondPass
  <2>2. SettledNext
    BY <2>1, NothingPending DEF SettledNext
  <2> QED BY <1>1, <2>2
<1>3. CASE swallowed /\ ~SecondPass
  BY <1>3, SwallowedStays
<1>4. CASE SettledIn /\ Next /\ ~Stopped
  BY <1>1, <1>4, DrivingSettled, ResolvingSettled, InCallSettled, InBodySettled, InLoopSettled DEF Next
<1>5. CASE SettledIn /\ UNCHANGED vars
  BY <1>5 DEF vars, SettledIn
<1> QED BY <1>2, <1>3, <1>4, <1>5 DEF Stopped

\* The depth of calls is the number of calls on the stack.
LEMMA CallsOfStack ==
    ASSUME NestedIn
    PROVE  /\ Len(control) \in Nat /\ DOMAIN control = 1..Len(control)
           /\ Calls = CallsIn(control)
BY DEF NestedIn, Nested, Situation, Sound, IsSequence, CallsIn, Calls

\* Types follow from the situation.
LEMMA TypeFits ==
    ASSUME FitsStack PROVE TypeOK
<1>1. Cardinality(Calls) <= MaxDepth
  BY CallsOfStack DEF FitsStack, NestedIn, Nested
<1>2. ASSUME NEW k \in DOMAIN control, control[k].kind \in {"for", "fold", "body"}
      PROVE  k > 1 /\ control[k - 1].kind \in (IF control[k].kind = "body" THEN {"call", "body", "for", "fold"}
                                               ELSE {"body"})
  <2>1. k \in 1..Len(control)
    BY CallsOfStack DEF FitsStack
  <2>2. Placed(program.macros, control, k)
    BY <2>1 DEF FitsStack, NestedIn, Nested, Situation, Sound
  <2>3. k # 1
    BY <1>2, <2>2 DEF Placed, Asking
  <2>4. k > 1 /\ k - 1 \in 1..Len(control)
    BY <2>1, <2>3
  <2>5. Placed(program.macros, control, k - 1)
    BY <2>4 DEF FitsStack, NestedIn, Nested, Situation, Sound
  <2>6. Carries(control[k - 1], control[k]) /\ Shape(control[k - 1])
    BY <2>2, <2>3, <2>5 DEF Placed
  <2>7. CASE control[k].kind = "body"
    BY <2>4, <2>6, <2>7 DEF Carries, Asking, Shape, Loops
  <2>8. CASE control[k].kind # "body"
    BY <1>2, <2>4, <2>6, <2>8 DEF Carries, Asking, Shape, Loops
  <2> QED BY <2>7, <2>8
<1>3. doing \in {"run", "deliver", "unwind"} /\ context.target \in {"none", "fold", "blocked"}
  BY DEF FitsStack, NestedIn, Nested, Situation, TargetFits
<1>4. DOMAIN positions \subseteq Labels
  <2>1. \A i \in 1..Len(program.top) : program.top[i].op = "label" => program.top[i].name \in Labels
    BY TopLength DEF FitsStack, Position
  <2>2. LabelsUpTo(program.top, Len(program.top)) \subseteq Labels
    BY <2>1 DEF LabelsUpTo
  <2>3. \A i \in 1..(at - 1) : i \in 1..Len(program.top)
    BY TopLength DEF FitsStack, Position
  <2>4. LabelsUpTo(program.top, at - 1) \subseteq Labels
    BY <2>1, <2>3 DEF LabelsUpTo
  <2> QED BY <2>2, <2>4 DEF FitsStack, Position
<1>5. pass = "strict" => DOMAIN positions = {s.name : s \in {s \in ToSet(program.top) : s.op = "label"}}
  <2>1. ToSet(program.top) = {program.top[i] : i \in 1..Len(program.top)}
    BY TopLength DEF FitsStack, Position
  <2>2. {s.name : s \in {s \in ToSet(program.top) : s.op = "label"}} = LabelsUpTo(program.top, Len(program.top))
    BY <2>1 DEF LabelsUpTo
  <2> QED BY <2>2 DEF FitsStack, Position
<1>6. /\ pass \in {"tolerant", "strict"} /\ phase \in {"walking", "done", "failed"}
      /\ at \in 1..(Len(program.top) + 1) /\ count \in Nat
  BY DEF FitsStack, Position
<1> QED BY <1>1, <1>2, <1>3, <1>4, <1>5, <1>6 DEF TypeOK

\* The context fits the stack, as the runs check it.
LEMMA ContextFits ==
    ASSUME NestedIn PROVE ContextFitsStack
<1> DEFINE n == Len(control)
           ms == program.macros
           a == Active(control, doing)
<1>1. n \in Nat /\ DOMAIN control = 1..n /\ Calls = {k \in 1..n : control[k].kind = "call"}
  BY CallsOfStack DEF CallsIn
<1>2. ModuleFits(ms, context.module, control, n) /\ TargetFits(context.target, control, a)
  BY DEF NestedIn, Nested, Situation
<1> HIDE DEF n, a
<1>3. context.module = IF Calls = {} THEN MainModule ELSE Macro(Running).module
  <2>1. CASE context.module = MainModule /\ NoCall(control, 1, n)
    <3>1. Calls = {}
      BY <1>1, <2>1 DEF NoCall
    <3> QED BY <2>1, <3>1
  <2>2. ASSUME NEW i \in 1..n, control[i].kind = "call",
               context.module = ms[control[i].id[1]][control[i].id[2]].module, NoCall(control, i + 1, n)
        PROVE  Calls # {} /\ context.module = Macro(Running).module
    <3>1. i \in Calls
      BY <1>1, <2>2
    <3>2. \A j \in Calls : j <= i
      <4>1. \A j \in 1..n : j > i => j \in (i + 1)..n
        BY <1>1
      <4> QED BY <1>1, <2>2, <4>1 DEF NoCall
    <3>3. \A k \in Calls : (\A j \in Calls : j <= k) => k = i
      <4>1. ASSUME NEW k \in Calls, \A j \in Calls : j <= k PROVE k = i
        <5>1. i <= k /\ k <= i /\ k \in Nat /\ i \in Nat
          BY <1>1, <3>1, <3>2, <4>1
        <5> QED BY <5>1
      <4> QED BY <4>1
    <3>4. Innermost = i
      BY <3>1, <3>2, <3>3 DEF Innermost
    <3> QED BY <2>2, <3>1, <3>4 DEF Running, Macro
  <2> QED BY <1>2, <2>1, <2>2 DEF ModuleFits
<1>4. a \in Nat /\ (a = n \/ (a = n - 1 /\ n # 0 /\ control[n].kind \in Loops /\ doing = "run"))
      /\ (doing = "run" /\ n # 0 /\ control[n].kind \in Loops => a = n - 1)
  <2>1. control # <<>> <=> n # 0
    BY EmptyOrNot DEF n, NestedIn, Nested, Situation, Sound
  <2>2. a = IF control # <<>> /\ control[n].kind \in Loops /\ doing = "run" THEN n - 1 ELSE n
    BY DEF Active, a, n
  <2>3. CASE control # <<>> /\ control[n].kind \in Loops /\ doing = "run"
    BY <1>1, <2>1, <2>2, <2>3
  <2>4. CASE ~(control # <<>> /\ control[n].kind \in Loops /\ doing = "run")
    BY <1>1, <2>1, <2>2, <2>4
  <2> QED BY <2>3, <2>4
<1>5. Rounds = {k \in 1..a : control[k].kind \in Loops /\ NoCall(control, k + 1, a)}
  <2>1. \A k \in 1..n : control[k].kind \in Loops /\ (k < n \/ doing # "run") <=> control[k].kind \in Loops /\ k \in 1..a
    BY <1>1, <1>4
  <2>2. \A k \in 1..n : control[k].kind \in Loops /\ k \in 1..a =>
            ((\A j \in Calls : j < k) <=> NoCall(control, k + 1, a))
    <3>1. ASSUME NEW k \in 1..n, control[k].kind \in Loops, k \in 1..a, \A j \in Calls : j < k
          PROVE  NoCall(control, k + 1, a)
      <4>1. \A h \in (k + 1)..a : h \in 1..n /\ ~(h < k)
        BY <1>1, <1>4
      <4> QED BY <1>1, <3>1, <4>1 DEF NoCall
    <3>2. ASSUME NEW k \in 1..n, control[k].kind \in Loops, k \in 1..a, NoCall(control, k + 1, a), NEW j \in Calls
          PROVE  j < k
      <4>1. j \in 1..n /\ j # k /\ control[j].kind = "call"
        BY <1>1, <3>2 DEF Loops
      <4>2. a # n => j # n
        <5>1. a # n => control[n].kind \in Loops
          BY <1>4
        <5> QED BY <4>1, <5>1 DEF Loops
      <4>3. j \in 1..a
        <5>1. a = n \/ (a = n - 1 /\ j # n)
          BY <1>4, <4>2
        <5> QED BY <1>1, <4>1, <5>1
      <4>4. j \notin (k + 1)..a
        BY <3>2, <4>1 DEF NoCall
      <4> QED BY <1>1, <1>4, <4>1, <4>3, <4>4
    <3> QED BY <3>1, <3>2
  <2>3. \A k \in 1..a : k \in 1..n
    BY <1>1, <1>4
  <2> QED BY <1>1, <2>1, <2>2, <2>3 DEF Rounds, Loops, n
<1>6. context.target = IF \A k \in Rounds : control[k].kind = "for" THEN "none"
                       ELSE IF \E k \in Rounds : control[k].kind = "fold" /\ \A j \in Rounds : j <= k
                       THEN "fold" ELSE "blocked"
  <2>1. CASE context.target = "none" /\ \A i \in 1..a : control[i].kind = "fold" => ~NoCall(control, i + 1, a)
    <3>1. \A k \in Rounds : control[k].kind = "for"
      BY <1>5, <2>1 DEF Loops
    <3> QED BY <2>1, <3>1
  <2>2. ASSUME NEW i \in 1..a, control[i].kind = "fold", NoCall(control, i + 1, a), NoLoop(control, i + 1, a)
        PROVE  ~(\A k \in Rounds : control[k].kind = "for") /\
               \E k \in Rounds : control[k].kind = "fold" /\ \A j \in Rounds : j <= k
    <3>1. i \in Rounds
      BY <1>5, <2>2 DEF Loops
    <3>2. \A j \in Rounds : j <= i
      <4>1. \A j \in 1..a : j > i => j \in (i + 1)..a
        BY <1>4
      <4>2. \A j \in Rounds : j \in 1..a /\ control[j].kind \in Loops
        BY <1>5
      <4>3. \A j \in Rounds : ~(j > i)
        BY <2>2, <4>1, <4>2 DEF NoLoop
      <4> QED BY <1>4, <4>2, <4>3
    <3> QED BY <2>2, <3>1, <3>2
  <2>3. ASSUME NEW i \in 1..a, NEW j \in 1..a, i < j, control[i].kind = "fold", control[j].kind = "for",
               NoCall(control, i + 1, a), NoLoop(control, j + 1, a)
        PROVE  /\ ~(\A k \in Rounds : control[k].kind = "for")
               /\ ~(\E k \in Rounds : control[k].kind = "fold" /\ \A h \in Rounds : h <= k)
    <3>1. i \in Rounds
      BY <1>5, <2>3 DEF Loops
    <3>2. \A h \in (j + 1)..a : h \in (i + 1)..a
      BY <1>4, <2>3
    <3>3. j \in Rounds
      BY <1>5, <2>3, <3>2 DEF Loops, NoCall
    <3>4. ASSUME NEW k \in Rounds, control[k].kind = "fold", \A h \in Rounds : h <= k PROVE FALSE
      <4>1. k \in 1..a /\ j <= k /\ k # j /\ control[k].kind \in Loops
        BY <1>5, <2>3, <3>3, <3>4 DEF Loops
      <4>2. k \in (j + 1)..a
        BY <1>4, <4>1
      <4> QED BY <2>3, <4>1, <4>2 DEF NoLoop
    <3> QED BY <2>3, <3>1, <3>4
  <2>4. CASE context.target = "fold"
    BY <1>2, <2>2, <2>4 DEF TargetFits
  <2>5. CASE context.target = "blocked"
    BY <1>2, <2>3, <2>5 DEF TargetFits
  <2> QED BY <1>2, <2>1, <2>4, <2>5 DEF TargetFits
<1> QED BY <1>3, <1>6 DEF ContextFitsStack

\* No jump is left over, as the runs check it.
LEMMA JumpsFit ==
    ASSUME NestedIn, SettledIn PROVE PendingSettled
<1>1. doing \in {"run", "deliver", "unwind"}
  BY DEF NestedIn, Nested, Situation
<1>2. pending.next # None => pending # NoPending
  BY DEF NoPending
<1>3. pending # NoPending => doing \in {"deliver", "unwind"}
  BY <1>1, PendingRecord
<1>4. pending.next # None => control # <<>> /\ context.target = "fold"
  <2>1. doing = "unwind" => pending.next = None
    BY DEF SettledIn, Settled
  <2>2. pending.next # None => doing = "deliver"
    BY <1>2, <1>3, <2>1
  <2> QED BY <1>2, <2>2, PendingAt DEF JumpsOut
<1>5. control = <<>> /\ doing # "unwind" => pending = NoPending
  BY <1>3, PendingAt
<1> QED BY <1>3, <1>4, <1>5, PendingRecord DEF PendingSettled

\* The inductive invariant: what is kept beside the stack fits it frame by
\* frame, and until an error is recovered from, a jump meets only frames
\* that let it through.
IInv == FitsStack /\ (swallowed \/ SettledIn)

\* The invariant holds at every moment.
LEMMA IInvHolds == Spec => []IInv
<1>1. Init => IInv
  <2>1. Init => SettledIn
    BY NothingPending DEF Init, SettledIn
  <2> QED BY <2>1, InitFits, PositionInit DEF IInv, FitsStack
<1>2. IInv /\ [Next]_vars => IInv'
  BY FitsStep, PositionStep, SettledStep DEF IInv, FitsStack
<1> QED BY <1>1, <1>2, PTL DEF Spec

\* Whatever the program: frames nest as the code's functions call one
\* another, no deeper than the limit; whatever errors were recovered from,
\* the module in force is that of the innermost call, and a `@next` would go
\* to the innermost fold of that call unless a `@for` is in between
\* (macro_body.rs, fold.rs: what is saved and restored around a call, a loop
\* and a probe); and until an error is recovered from, a pending `@next` or
\* tail call is acted on, by its fold or its call, before anything else runs.
THEOREM MacroConsistent == Spec => []Consistent
<1>1. IInv => Consistent
  BY TypeFits, ContextFits, JumpsFit DEF IInv, FitsStack, Consistent
<1> QED BY <1>1, IInvHolds, PTL

---------------------------------------------------------------------------
(* Values on their way down the stack.                                     *)

\* What a frame has collected.
SizeOf(f)    == IF f.kind = "choose" THEN 0 ELSE Len(f.out)
Collects(f)  == f.kind # "choose" => IsSequence(f.out)

\* The frames of c have collected n values.
Holds(c, n) ==
    \E g \in [0..Len(c) -> Nat] :
        /\ g[0] = 0 /\ g[Len(c)] = n
        /\ \A k \in 1..Len(c) : Collects(c[k]) /\ g[k] = g[k - 1] + SizeOf(c[k])

\* Every value emitted was collected by the driver, is being delivered to a
\* frame or was collected by one.
Accounted ==
    /\ IsSequence(emitted) /\ IsSequence(sections) /\ IsSequence(answer.out)
    /\ Len(sections) = count
    /\ \E n \in Nat : Holds(control, n) /\ count = Len(emitted) + Len(answer.out) + n

\* That is so until an error arises.
Counted ==
    /\ doing # "deliver" => answer = NoAnswer
    /\ swallowed \/ phase = "failed" \/ doing = "unwind" \/ Accounted

\* A frame collects a sequence.
LEMMA SizeIsNumber ==
    ASSUME NEW f, Collects(f) PROVE SizeOf(f) \in Nat
BY SequenceShape DEF Collects, SizeOf

\* An empty stack has collected nothing.
LEMMA HoldsNothing ==
    /\ Holds(<<>>, 0)
    /\ \A n : Holds(<<>>, n) => n = 0
<1>1. Len(<<>>) = 0
  OBVIOUS
<1>2. Holds(<<>>, 0)
  <2> DEFINE g == [k \in 0..0 |-> 0]
  <2>1. g \in [0..0 -> Nat] /\ g[0] = 0 /\ \A k \in 1..0 : FALSE
    OBVIOUS
  <2> HIDE DEF g
  <2> QED BY <1>1, <2>1 DEF Holds
<1> QED BY <1>1, <1>2 DEF Holds

\* A frame more adds what it has collected.
LEMMA HoldsPushed ==
    ASSUME NEW c, IsSequence(c), NEW n, Holds(c, n), NEW f, Collects(f)
    PROVE  n \in Nat /\ Holds(Append(c, f), n + SizeOf(f))
<1> DEFINE m == Len(c)
           d == Append(c, f)
<1>1. PICK g \in [0..m -> Nat] : /\ g[0] = 0 /\ g[m] = n
                                 /\ \A k \in 1..m : Collects(c[k]) /\ g[k] = g[k - 1] + SizeOf(c[k])
  BY DEF Holds
<1>2. m \in Nat /\ Len(d) = m + 1 /\ d[m + 1] = f /\ \A k \in 1..m : d[k] = c[k]
  BY SequenceAppended, SequenceShape
<1>3. n \in Nat /\ SizeOf(f) \in Nat
  BY <1>1, <1>2, SizeIsNumber
<1> DEFINE h == [k \in 0..(m + 1) |-> IF k = m + 1 THEN n + SizeOf(f) ELSE g[k]]
<1> HIDE DEF m, d
<1>4. h \in [0..(m + 1) -> Nat]
  BY <1>1, <1>2, <1>3
<1>5. h[0] = 0 /\ h[m + 1] = n + SizeOf(f)
  BY <1>1, <1>2
<1>6. ASSUME NEW k \in 1..(m + 1) PROVE Collects(d[k]) /\ h[k] = h[k - 1] + SizeOf(d[k])
  <2>1. CASE k = m + 1
    <3>1. k - 1 = m /\ m \in 0..(m + 1) /\ m # m + 1
      BY <1>2, <2>1
    <3>2. h[m] = n
      BY <1>1, <3>1
    <3> HIDE DEF h
    <3> QED BY <1>2, <1>5, <2>1, <3>1, <3>2
  <2>2. CASE k # m + 1
    <3>1. k \in 1..m /\ k - 1 \in 0..(m + 1) /\ k \in 0..(m + 1) /\ k - 1 # m + 1
      BY <1>2, <2>2
    <3>2. h[k] = g[k] /\ h[k - 1] = g[k - 1]
      BY <2>2, <3>1
    <3> HIDE DEF h
    <3> QED BY <1>1, <1>2, <3>1, <3>2
  <2> QED BY <2>1, <2>2
<1> HIDE DEF h
<1> QED BY <1>2, <1>3, <1>4, <1>5, <1>6 DEF Holds, d

\* A frame less takes away what it has collected.
LEMMA HoldsPopped ==
    ASSUME NEW c, IsSequence(c), c # <<>>, NEW n, Holds(c, n)
    PROVE  /\ Collects(Last(c))
           /\ \E r \in Nat : Holds(Front(c), r) /\ n = r + SizeOf(Last(c))
<1> DEFINE m == Len(c)
           d == Front(c)
<1>1. PICK g \in [0..m -> Nat] : /\ g[0] = 0 /\ g[m] = n
                                 /\ \A k \in 1..m : Collects(c[k]) /\ g[k] = g[k - 1] + SizeOf(c[k])
  BY DEF Holds
<1>2. m \in Nat \ {0} /\ Len(d) = m - 1 /\ \A k \in 1..(m - 1) : d[k] = c[k]
  BY SequencePopped, EmptyOrNot DEF Front
<1>3. Last(c) = c[m]
  BY DEF Last
<1> HIDE DEF m, d
<1>4. m \in 1..m /\ m - 1 \in 0..m /\ m - 1 \in Nat
  BY <1>2
<1>5. Collects(c[m]) /\ n = g[m - 1] + SizeOf(c[m]) /\ g[m - 1] \in Nat
  BY <1>1, <1>4
<1>6. Holds(d, g[m - 1])
  <2> DEFINE h == [k \in 0..(m - 1) |-> g[k]]
  <2>0. \A k \in 0..(m - 1) : k \in 0..m
    BY <1>2
  <2>1. h \in [0..(m - 1) -> Nat]
    BY <1>1, <2>0
  <2>2. h[0] = 0 /\ h[m - 1] = g[m - 1]
    BY <1>1, <1>2
  <2>3. ASSUME NEW k \in 1..(m - 1) PROVE Collects(d[k]) /\ h[k] = h[k - 1] + SizeOf(d[k])
    <3>1. k \in 1..m /\ k \in 0..(m - 1) /\ k - 1 \in 0..(m - 1)
      BY <1>2
    <3>2. h[k] = g[k] /\ h[k - 1] = g[k - 1]
      BY <3>1
    <3> HIDE DEF h
    <3> QED BY <1>1, <1>2, <3>1, <3>2
  <2> HIDE DEF h
  <2> QED BY <1>2, <2>1, <2>2, <2>3 DEF Holds
<1> QED BY <1>3, <1>5, <1>6 DEF d

\* A frame in another's place makes the difference.
LEMMA HoldsReplaced ==
    ASSUME NEW c, IsSequence(c), c # <<>>, NEW n, Holds(c, n), NEW g, Collects(g), NEW extra \in Nat,
           SizeOf(g) = SizeOf(Last(c)) + extra
    PROVE  Holds(Append(Front(c), g), n + extra) /\ IsSequence(Append(Front(c), g))
<1>1. PICK r \in Nat : Holds(Front(c), r) /\ n = r + SizeOf(Last(c))
  BY HoldsPopped
<1>2. IsSequence(Front(c))
  BY SequencePopped DEF Front
<1>3. Holds(Append(Front(c), g), r + SizeOf(g))
  BY <1>1, <1>2, HoldsPushed
<1>4. r + SizeOf(g) = n + extra
  <2>1. SizeOf(Last(c)) \in Nat
    BY HoldsPopped, SizeIsNumber
  <2> QED BY <1>1, <2>1
<1> QED BY <1>2, <1>3, <1>4, SequenceAppended

\* No answer has no values.
LEMMA NothingCollected ==
    /\ IsSequence(NoAnswer.out) /\ Len(NoAnswer.out) = 0
    /\ \A name, arg, why : Collects(Choosing(name, arg, why)) /\ SizeOf(Choosing(name, arg, why)) = 0
    /\ \A id, arg : Collects(Calling(id, arg)) /\ SizeOf(Calling(id, arg)) = 0
    /\ \A stmts, env : Collects(Walking(stmts, env)) /\ SizeOf(Walking(stmts, env)) = 0
    /\ \A kind, s, env : Collects(Looping(kind, s, env)) /\ (kind # "choose" => SizeOf(Looping(kind, s, env)) = 0)
<1>1. IsSequence(<<>>) /\ Len(<<>>) = 0
  <2>1. <<>> \in Seq({})
    OBVIOUS
  <2> QED BY <2>1, SequenceOver
<1> QED BY <1>1 DEF NoAnswer, Collects, SizeOf, Choosing, Calling, Walking, Looping

\* What the driver has is left alone.
Undriven == UNCHANGED <<emitted, count, sections>>

\* A running function has no answer.
Busy == NestedIn /\ control # <<>> /\ Accounted /\ (doing # "deliver" => answer = NoAnswer)

\* The lengths involved.
LEMMA AmountsAreNumbers ==
    ASSUME Accounted PROVE Len(emitted) \in Nat /\ Len(answer.out) \in Nat
BY SequenceShape DEF Accounted

\* What the top frame has collected.
LEMMA TopCollects ==
    ASSUME Busy
    PROVE  IsSequence(control) /\ Collects(Top) /\ SizeOf(Top) \in Nat /\ Shape(Top) /\ Len(answer.out) \in Nat
<1>1. IsSequence(control) /\ Shape(Top)
  BY Standing DEF Busy, Sound
<1>2. Collects(Top)
  BY <1>1, HoldsPopped DEF Busy, Accounted, Top
<1> QED BY <1>1, <1>2, SizeIsNumber, AmountsAreNumbers DEF Busy

\* The top frame goes on with what was delivered.
LEMMA CountedGoingOn ==
    ASSUME Busy, NEW g, Continue(Replace(g)), Collects(g), SizeOf(g) = SizeOf(Top) + Len(answer.out), Undriven
    PROVE  Accounted'
<1>1. PICK n \in Nat : Holds(control, n) /\ count = Len(emitted) + Len(answer.out) + n
  BY DEF Busy, Accounted
<1>2. Holds(control', n + Len(answer.out))
  BY <1>1, TopCollects, HoldsReplaced DEF Busy, Top, Continue, Replace, Below
<1>3. answer' = NoAnswer
  BY DEF Continue
<1>4. count' = Len(emitted') + Len(answer'.out) + (n + Len(answer.out)) /\ n + Len(answer.out) \in Nat
  BY <1>1, <1>3, AmountsAreNumbers, NothingCollected DEF Undriven, Busy
<1> QED BY <1>2, <1>3, <1>4, NothingCollected DEF Undriven, Busy, Accounted

\* A frame is put on the top one.
LEMMA CountedAsking ==
    ASSUME Busy, answer = NoAnswer, NEW f, Continue(Push(f)), Collects(f), SizeOf(f) = 0, Undriven
    PROVE  Accounted'
<1>1. PICK n \in Nat : Holds(control, n) /\ count = Len(emitted) + Len(answer.out) + n
  BY DEF Busy, Accounted
<1>2. Holds(control', n)
  <2>1. Holds(Append(control, f), n + 0)
    BY <1>1, TopCollects, HoldsPushed
  <2> QED BY <2>1 DEF Continue, Push
<1>3. answer' = answer
  BY DEF Continue
<1> QED BY <1>1, <1>2, <1>3 DEF Undriven, Busy, Accounted

\* The top frame goes on, and a frame is put on it.
LEMMA CountedGoingOnAsking ==
    ASSUME Busy, answer = NoAnswer, NEW g, NEW f, Continue(Append(Replace(g), f)),
           Collects(g), SizeOf(g) = SizeOf(Top), Collects(f), SizeOf(f) = 0, Undriven
    PROVE  Accounted'
<1>1. PICK n \in Nat : Holds(control, n) /\ count = Len(emitted) + Len(answer.out) + n
  BY DEF Busy, Accounted
<1>2. Holds(control', n)
  <2>1. SizeOf(g) = SizeOf(Top) + 0 /\ 0 \in Nat
    BY TopCollects
  <2>2. Holds(Replace(g), n + 0) /\ IsSequence(Replace(g))
    BY <1>1, <2>1, TopCollects, HoldsReplaced DEF Busy, Top, Replace, Below
  <2>3. Holds(Append(Replace(g), f), n + 0 + 0)
    BY <2>2, HoldsPushed
  <2> QED BY <2>3 DEF Continue
<1>3. answer' = answer
  BY DEF Continue
<1> QED BY <1>1, <1>2, <1>3 DEF Undriven, Busy, Accounted

\* The top frame delivers what it has collected, and what was delivered to
\* it.
LEMMA CountedDelivering ==
    ASSUME Busy, NEW out, NEW returned, NEW exited, Deliver(Below, out, returned, exited),
           IsSequence(out), Len(out) = SizeOf(Top) + Len(answer.out), Undriven
    PROVE  Accounted'
<1>1. PICK n \in Nat : Holds(control, n) /\ count = Len(emitted) + Len(answer.out) + n
  BY DEF Busy, Accounted
<1>2. PICK r \in Nat : Holds(Below, r) /\ n = r + SizeOf(Top)
  BY <1>1, TopCollects, HoldsPopped DEF Busy, Below, Top
<1>3. control' = Below /\ answer'.out = out
  BY DEF Deliver
<1>4. count' = Len(emitted') + Len(answer'.out) + r
  BY <1>1, <1>2, <1>3, TopCollects, AmountsAreNumbers DEF Undriven, Busy
<1> QED BY <1>2, <1>3, <1>4 DEF Undriven, Busy, Accounted

\* What is collected with what is delivered.
LEMMA Joined ==
    ASSUME Busy, Top.kind # "choose"
    PROVE  /\ IsSequence(Top.out) /\ SizeOf(Top) = Len(Top.out) /\ IsSequence(answer.out)
           /\ IsSequence(Top.out \o answer.out) /\ Len(Top.out \o answer.out) = SizeOf(Top) + Len(answer.out)
           /\ answer = NoAnswer => Len(Top.out) = SizeOf(Top) + Len(answer.out)
<1>1. IsSequence(Top.out) /\ SizeOf(Top) = Len(Top.out) /\ IsSequence(answer.out)
  BY TopCollects DEF Collects, SizeOf, Busy, Accounted
<1>2. IsSequence(Top.out \o answer.out) /\ Len(Top.out \o answer.out) = SizeOf(Top) + Len(answer.out)
  BY <1>1, SequencesJoined
<1>3. ASSUME answer = NoAnswer PROVE Len(Top.out) = SizeOf(Top) + Len(answer.out)
  <2>1. Len(answer.out) = 0
    BY <1>3, NothingCollected
  <2>2. SizeOf(Top) \in Nat
    BY TopCollects
  <2>3. SizeOf(Top) = SizeOf(Top) + Len(answer.out)
    BY <2>1, <2>2
  <2> QED BY <1>1, <2>3
<1> QED BY <1>1, <1>2, <1>3

\* The steps of overload resolution lose no value, but of a probe.
LEMMA ResolvingCounted ==
    ASSUME Busy, Resolving, doing' # "unwind", ~swallowed' PROVE Accounted'
<1> SUFFICES ASSUME Top.kind = "choose"
             PROVE  Accounted'
  BY DEF Resolving, FitByType, Probe, JudgeProbe, SwallowError, ChooseNone, TailCall, NotTailCall,
         EnterCall, Decided, At
<1>0. SizeOf(Top) = 0 /\ Collects(Top) /\ (doing # "deliver" => answer = NoAnswer) /\ DOMAIN Top = {"kind", "name", "arg", "why", "tried", "fit"}
  BY TopCollects DEF SizeOf, Busy, Shape, Loops
<1>1. \A fits : Collects(Tried(fits)) /\ SizeOf(Tried(fits)) = 0
  BY <1>0 DEF Tried, Collects, SizeOf
<1>2. CASE FitByType
  <2>1. Len(answer.out) = 0
    BY <1>0, <1>2, NothingCollected DEF FitByType, At
  <2> DEFINE g == Tried(TRUE)
  <2>2. Collects(g) /\ SizeOf(g) = 0 /\ Continue(Replace(g)) /\ Undriven
    BY <1>0, <1>2 DEF FitByType, Tried, Collects, SizeOf, Driver, Stream, Undriven
  <2> HIDE DEF g
  <2> QED BY <1>0, <2>1, <2>2, CountedGoingOn
<1>3. CASE Probe
  BY <1>0, <1>3, NothingCollected, CountedAsking DEF Probe, At, Driver, Stream, Undriven
<1>4. CASE JudgeProbe
  <2>1. answer.out = <<>> /\ Len(answer.out) = 0
    BY <1>4 DEF JudgeProbe
  <2> QED BY <1>0, <1>1, <1>4, <2>1, CountedGoingOn DEF JudgeProbe, Driver, Stream, Undriven
<1>5. CASE SwallowError
  BY <1>5 DEF SwallowError
<1>6. CASE ChooseNone
  BY <1>6 DEF ChooseNone, Raise
<1>7. CASE TailCall
  <2>1. answer = NoAnswer
    BY <1>0, <1>7 DEF TailCall, Decided, At
  <2>2. Below # <<>> /\ Last(Below).kind = "body" /\ IsSequence(Below)
    BY <1>7, TailBelow, TopCollects, SequencePopped DEF TailCall, Busy, Below, Front
  <2>3. PICK n \in Nat : Holds(control, n) /\ count = Len(emitted) + Len(answer.out) + n
    BY DEF Busy, Accounted
  <2>4. PICK r \in Nat : Holds(Below, r) /\ n = r + SizeOf(Top)
    BY <2>3, TopCollects, HoldsPopped DEF Busy, Below, Top
  <2>5. Collects(Last(Below)) /\ \E q \in Nat : Holds(Front(Below), q) /\ r = q + SizeOf(Last(Below))
    BY <2>2, <2>4, HoldsPopped
  <2>6. PICK q \in Nat : Holds(Front(Below), q) /\ r = q + SizeOf(Last(Below))
    BY <2>5
  <2>7. IsSequence(Last(Below).out) /\ SizeOf(Last(Below)) = Len(Last(Below).out) /\ Len(Last(Below).out) \in Nat
    BY <2>2, <2>5, SequenceShape DEF Collects, SizeOf
  <2>8. control' = Front(Below) /\ answer'.out = Last(Below).out /\ Undriven
    BY <1>7 DEF TailCall, Deliver, Driver, Stream, Undriven
  <2>9. count = Len(emitted) + Len(Last(Below).out) + q
    BY <1>0, <2>1, <2>3, <2>4, <2>6, <2>7, AmountsAreNumbers, NothingCollected DEF Busy
  <2> QED BY <2>6, <2>7, <2>8, <2>9 DEF Undriven, Busy, Accounted
<1>8. CASE NotTailCall
  BY <1>0, <1>8, NothingCollected, CountedGoingOn DEF NotTailCall, Decided, At, Driver, Stream, Undriven
<1>9. CASE EnterCall
  <2>1. answer = NoAnswer
    BY <1>0, <1>9 DEF EnterCall, Decided, At
  <2>2. Continue(Replace(Calling(ChosenOne, Top.arg)))
    BY <1>9 DEF EnterCall, Raise
  <2> QED BY <1>0, <1>9, <2>1, <2>2, NothingCollected, CountedGoingOn DEF EnterCall, Driver, Stream, Undriven
<1> QED BY <1>2, <1>3, <1>4, <1>5, <1>6, <1>7, <1>8, <1>9 DEF Resolving

\* The steps of a call lose no value.
LEMMA InCallCounted ==
    ASSUME Busy, InCall, doing' # "unwind" PROVE Accounted'
<1> SUFFICES ASSUME Top.kind = "call"
             PROVE  Accounted'
  BY DEF InCall, Bind, Bound, RunHook, HookDone, RunBody, GoRoundAgain, BodyDone, ReturnFromCall, UnwindCall, InStage, At
<1>0. /\ DOMAIN Top = {"kind", "id", "arg", "stage", "hook", "tails", "out", "returned", "saved"}
      /\ doing # "deliver" => answer = NoAnswer /\ Len(answer.out) = 0
  BY TopCollects, NothingCollected DEF Busy, Shape, Loops
<1>1. /\ IsSequence(Top.out) /\ SizeOf(Top) = Len(Top.out)
      /\ IsSequence(Top.out \o answer.out) /\ Len(Top.out \o answer.out) = SizeOf(Top) + Len(answer.out)
      /\ answer = NoAnswer => Len(Top.out) = SizeOf(Top) + Len(answer.out)
      /\ SizeOf(Top) \in Nat
  BY Joined, TopCollects
<1>2. ASSUME NEW g, g.kind = "call", Continue(Replace(g)), Undriven,
             \/ g.out = Top.out /\ Len(answer.out) = 0
             \/ g.out = Top.out \o answer.out
      PROVE  Accounted'
  <2>1. Collects(g) /\ SizeOf(g) = Len(g.out)
    BY <1>1, <1>2 DEF Collects, SizeOf
  <2>2. CASE g.out = Top.out /\ Len(answer.out) = 0
    <3>1. SizeOf(Top) = SizeOf(Top) + Len(answer.out)
      BY <1>1, <2>2
    <3> QED BY <1>1, <1>2, <2>1, <2>2, <3>1, CountedGoingOn
  <2>3. CASE g.out = Top.out \o answer.out
    BY <1>1, <1>2, <2>1, <2>3, CountedGoingOn
  <2> QED BY <1>2, <2>2, <2>3
<1>3. ASSUME NEW g, g.kind = "call", NEW f, Continue(Append(Replace(g), f)), Undriven, g.out = Top.out,
             Collects(f), SizeOf(f) = 0, answer = NoAnswer
      PROVE  Accounted'
  <2>1. Collects(g) /\ SizeOf(g) = SizeOf(Top)
    BY <1>1, <1>3 DEF Collects, SizeOf
  <2> QED BY <1>3, <2>1, CountedGoingOnAsking
<1>4. CASE Bind
  <2> DEFINE g == [Top EXCEPT !.stage = "before"]
  <2>0. g.kind = "call" /\ g.out = Top.out
    BY <1>0
  <2>1. Undriven /\ answer = NoAnswer /\ Len(answer.out) = 0
    BY <1>0, <1>4 DEF Bind, InStage, At, Driver, Stream, Undriven
  <2>2. CASE Continue(Replace(g))
    <3> HIDE DEF g
    <3> QED BY <1>2, <2>0, <2>1, <2>2
  <2>3. CASE Continue(Push(Choosing(Macro(Top.id).check, Top.arg, "run")))
    BY <2>1, <2>3, NothingCollected, CountedAsking
  <2> QED BY <1>4, <2>2, <2>3 DEF Bind
<1>5. CASE Bound
  <2>1. Undriven /\ Truthy(answer) /\ Continue(Replace([Top EXCEPT !.stage = "before"]))
    BY <1>5 DEF Bound, Raise, Driver, Stream, Undriven
  <2>2. Len(answer.out) = 0
    BY <2>1 DEF Truthy
  <2> QED BY <1>0, <1>2, <2>1, <2>2
<1>6. CASE RunHook
  BY <1>0, <1>3, <1>6, NothingCollected DEF RunHook, InStage, At, Driver, Stream, Undriven
<1>7. CASE HookDone
  BY <1>0, <1>2, <1>7 DEF HookDone, Driver, Stream, Undriven
<1>8. CASE RunBody
  BY <1>0, <1>3, <1>8, NothingCollected DEF RunBody, InStage, At, Driver, Stream, Undriven
<1>9. CASE GoRoundAgain
  <2> DEFINE g == [Top EXCEPT !.arg = pending.tail, !.stage = "bind", !.hook = 0,
                              !.tails = @ + 1, !.out = @ \o answer.out]
  <2>1. Undriven /\ Continue(Replace(g))
    BY <1>9 DEF GoRoundAgain, Raise, Driver, Stream, Undriven
  <2>2. g.kind = "call" /\ g.out = Top.out \o answer.out
    BY <1>0
  <2> HIDE DEF g
  <2> QED BY <1>2, <2>1, <2>2
<1>10. CASE BodyDone
  <2> DEFINE g == [Top EXCEPT !.returned = answer.returned, !.stage = "after", !.hook = 0, !.out = @ \o answer.out]
  <2>1. Undriven /\ Continue(Replace(g))
    BY <1>10 DEF BodyDone, Raise, Driver, Stream, Undriven
  <2>2. g.kind = "call" /\ g.out = Top.out \o answer.out
    BY <1>0
  <2> HIDE DEF g
  <2> QED BY <1>2, <2>1, <2>2
<1>11. CASE ReturnFromCall
  BY <1>0, <1>1, <1>11, CountedDelivering DEF ReturnFromCall, InStage, At, Driver, Stream, Undriven
<1>12. CASE UnwindCall
  BY <1>12 DEF UnwindCall, At
<1> QED BY <1>4, <1>5, <1>6, <1>7, <1>8, <1>9, <1>10, <1>11, <1>12 DEF InCall

\* An `@emit` adds one value everywhere.
LEMMA EmitCounted ==
    ASSUME Busy, Top.kind = "body", Emit PROVE Accounted'
<1> DEFINE g == Advanced([Top EXCEPT !.out = Append(@, Value(Here.value))])
<1>0. /\ DOMAIN Top = {"kind", "stmts", "at", "env", "out"} /\ IsSequence(Top.out) /\ SizeOf(Top) = Len(Top.out)
      /\ answer = NoAnswer
  BY Joined, TopCollects DEF Busy, Shape, Loops, Emit, Doing, At
<1>1. g.kind = "body" /\ g.out = Append(Top.out, Value(Here.value))
  BY <1>0 DEF Advanced
<1>2. /\ control' = Replace(g) /\ answer' = NoAnswer /\ emitted' = emitted
      /\ count' = count + 1 /\ sections' = Append(sections, context.section)
  BY DEF Emit, Continue, Driver
<1> HIDE DEF g
<1>3. Collects(g) /\ SizeOf(g) = SizeOf(Top) + 1
  BY <1>0, <1>1, SequenceAppended DEF Collects, SizeOf
<1>4. PICK n \in Nat : Holds(control, n) /\ count = Len(emitted) + Len(answer.out) + n
  BY DEF Busy, Accounted
<1>5. Holds(control', n + 1)
  BY <1>2, <1>3, <1>4, TopCollects, HoldsReplaced DEF Busy, Top, Replace, Below
<1>6. count' = Len(emitted') + Len(answer'.out) + (n + 1) /\ n + 1 \in Nat
  <2>1. emitted' = emitted /\ answer' = answer /\ count' = count + 1
    BY <1>0, <1>2
  <2>2. count + 1 = Len(emitted) + Len(answer.out) + (n + 1) /\ n + 1 \in Nat
    <3> DEFINE e == Len(emitted)
               a == Len(answer.out)
    <3>1. e \in Nat /\ a \in Nat
      BY AmountsAreNumbers DEF Busy
    <3>2. count = e + a + n
      BY <1>4
    <3> HIDE DEF e, a
    <3>3. count + 1 = e + a + (n + 1) /\ n + 1 \in Nat
      BY <3>1, <3>2
    <3> QED BY <3>3 DEF e, a
  <2> HIDE DEF g
  <2>3. Len(emitted') = Len(emitted) /\ Len(answer'.out) = Len(answer.out)
    BY <2>1
  <2> QED BY <2>1, <2>2, <2>3
<1>7. IsSequence(sections') /\ Len(sections') = count'
  BY <1>2, SequenceAppended DEF Busy, Accounted
<1> QED BY <1>2, <1>5, <1>6, <1>7, NothingCollected DEF Busy, Accounted

\* The steps of a body lose no value.
LEMMA InBodyCounted ==
    ASSUME Busy, InBody, doing' # "unwind" PROVE Accounted'
<1> SUFFICES ASSUME Top.kind = "body"
             PROVE  Accounted'
  BY DEF InBody, Emit, SetSection, CheckAssertion, Branch, StartLoop, StartCall, NextRound,
         ReturnValue, ReturnNothing, AfterNested, AfterValue, UnwindBody, Doing, At
<1>0. /\ DOMAIN Top = {"kind", "stmts", "at", "env", "out"}
      /\ doing # "deliver" => answer = NoAnswer /\ Len(answer.out) = 0
  BY TopCollects, NothingCollected DEF Busy, Shape, Loops
<1>1. /\ IsSequence(Top.out) /\ SizeOf(Top) = Len(Top.out)
      /\ IsSequence(Top.out \o answer.out) /\ Len(Top.out \o answer.out) = SizeOf(Top) + Len(answer.out)
      /\ answer = NoAnswer => Len(Top.out) = SizeOf(Top) + Len(answer.out)
      /\ SizeOf(Top) \in Nat
  BY Joined, TopCollects
<1>2. ASSUME NEW g, g.kind = "body", Continue(Replace(g)), Undriven, IsSequence(g.out),
             Len(g.out) = SizeOf(Top) + Len(answer.out)
      PROVE  Accounted'
  <2>1. Collects(g) /\ SizeOf(g) = SizeOf(Top) + Len(answer.out)
    BY <1>2 DEF Collects, SizeOf
  <2> QED BY <1>2, <2>1, CountedGoingOn
<1>3. Advanced(Top).kind = "body" /\ Advanced(Top).out = Top.out
  BY <1>0 DEF Advanced
<1>4. CASE Emit
  BY <1>4, EmitCounted
<1>5. CASE SetSection \/ CheckAssertion
  <2>1. answer = NoAnswer /\ Undriven /\ Continue(Replace(Advanced(Top)))
    BY <1>0, <1>5 DEF SetSection, CheckAssertion, Raise, Doing, At, Driver, Stream, Undriven
  <2> QED BY <1>1, <1>2, <1>3, <2>1
<1>6. CASE Branch
  BY <1>0, <1>6, NothingCollected, CountedAsking DEF Branch, Doing, At, Driver, Stream, Undriven
<1>7. CASE StartLoop
  <2>1. answer = NoAnswer /\ Undriven
    BY <1>0, <1>7 DEF StartLoop, Doing, At, Driver, Stream, Undriven
  <2>2. PICK kind, s, env : kind # "choose" /\ Continue(Push(Looping(kind, s, env)))
    BY <1>7 DEF StartLoop
  <2> QED BY <2>1, <2>2, NothingCollected, CountedAsking
<1>8. CASE StartCall
  BY <1>0, <1>8, NothingCollected, CountedAsking DEF StartCall, Doing, At, Driver, Stream, Undriven
<1>9. CASE NextRound \/ ReturnValue \/ ReturnNothing
  <2>1. answer = NoAnswer /\ Undriven
    BY <1>0, <1>9 DEF NextRound, ReturnValue, ReturnNothing, Doing, At, Driver, Stream, Undriven
  <2>2. PICK returned : Deliver(Below, Top.out, returned, FALSE)
    BY <1>9 DEF NextRound, ReturnValue, ReturnNothing, Raise
  <2> QED BY <1>1, <2>1, <2>2, CountedDelivering
<1>10. CASE AfterNested
  <2> DEFINE out == Top.out \o answer.out
             g   == Advanced([Top EXCEPT !.out = out])
  <2>1. Undriven /\ (Deliver(Below, out, answer.returned, FALSE) \/ Continue(Replace(g)))
    BY <1>10 DEF AfterNested, Driver, Stream, Undriven
  <2>2. g.kind = "body" /\ g.out = out
    BY <1>0 DEF Advanced
  <2> HIDE DEF g
  <2> QED BY <1>1, <1>2, <2>1, <2>2, CountedDelivering
<1>11. CASE AfterValue
  <2> DEFINE out == IF Here.use = "expr" THEN Top.out ELSE Top.out \o answer.out
             g   == Advanced([Top EXCEPT !.out = out, !.env.x = IF Here.use = "statement" THEN @ ELSE answer.returned])
  <2>1. ~Stray
    BY <1>11 DEF AfterValue, Raise
  <2>2. IsSequence(out) /\ Len(out) = SizeOf(Top) + Len(answer.out)
    <3>1. CASE Here.use = "expr"
      <4>1. answer.out = <<>>
        BY <2>1, <3>1 DEF Stray
      <4>2. Len(answer.out) = 0
        BY <4>1
      <4> QED BY <1>1, <3>1, <4>2
    <3>2. CASE Here.use # "expr"
      BY <1>1, <3>2
    <3> QED BY <3>1, <3>2
  <2>3. g.kind = "body" /\ g.out = out
    <3> HIDE DEF out
    <3> QED BY <1>0 DEF Advanced
  <2>4. Undriven /\ (Deliver(Below, out, answer.returned, FALSE) \/ Continue(Replace(g)))
    BY <1>11 DEF AfterValue, Raise, Driver, Stream, Undriven
  <2> HIDE DEF out, g
  <2> QED BY <1>2, <2>2, <2>3, <2>4, CountedDelivering
<1>12. CASE UnwindBody
  BY <1>12 DEF UnwindBody, At
<1> QED BY <1>4, <1>5, <1>6, <1>7, <1>8, <1>9, <1>10, <1>11, <1>12 DEF InBody

\* The steps of a loop lose no value.
LEMMA InLoopCounted ==
    ASSUME Busy, InLoop, doing' # "unwind" PROVE Accounted'
<1> SUFFICES ASSUME Top.kind \in Loops
             PROVE  Accounted'
  BY DEF InLoop, StartRound, ForRoundDone, FoldRoundDone, LoopDone, UnwindRound, At, Loops
<1>0. /\ DOMAIN Top = {"kind", "times", "round", "stmts", "env", "out", "outer"} /\ Top.kind # "choose"
      /\ doing # "deliver" => answer = NoAnswer
  BY TopCollects DEF Busy, Shape, Loops
<1>1. /\ IsSequence(Top.out) /\ SizeOf(Top) = Len(Top.out)
      /\ IsSequence(Top.out \o answer.out) /\ Len(Top.out \o answer.out) = SizeOf(Top) + Len(answer.out)
      /\ answer = NoAnswer => Len(Top.out) = SizeOf(Top) + Len(answer.out)
  BY <1>0, Joined
<1>2. ASSUME NEW g, g.kind = Top.kind, Continue(Replace(g)), Undriven, g.out = Top.out \o answer.out
      PROVE  Accounted'
  <2>1. Collects(g) /\ SizeOf(g) = SizeOf(Top) + Len(answer.out)
    BY <1>0, <1>1, <1>2 DEF Collects, SizeOf
  <2> QED BY <1>2, <2>1, CountedGoingOn
<1>3. CASE StartRound
  <2> DEFINE g == FollowingRound(Top)
             f == Walking(Top.stmts, [Top.env EXCEPT !.i = Top.round])
  <2>1. g.kind = Top.kind /\ g.out = Top.out
    BY <1>0 DEF FollowingRound
  <2>2. Continue(Append(Replace(g), f)) /\ Undriven /\ answer = NoAnswer
    BY <1>0, <1>3 DEF StartRound, At, Driver, Stream, Undriven
  <2>3. Collects(f) /\ SizeOf(f) = 0
    BY NothingCollected
  <2> HIDE DEF f, g
  <2>4. Collects(g) /\ SizeOf(g) = SizeOf(Top)
    BY <1>0, <1>1, <2>1 DEF Collects, SizeOf
  <2> QED BY <2>2, <2>3, <2>4, CountedGoingOnAsking
<1>4. CASE ForRoundDone
  <2> DEFINE out == Top.out \o answer.out
             g   == [Top EXCEPT !.out = out]
  <2>1. Undriven /\ (Deliver(Below, out, answer.returned, FALSE) \/ Continue(Replace(g)))
    BY <1>4 DEF ForRoundDone, Driver, Stream, Undriven
  <2>2. g.kind = Top.kind /\ g.out = out
    BY <1>0
  <2> HIDE DEF g
  <2> QED BY <1>1, <1>2, <2>1, <2>2, CountedDelivering
<1>5. CASE FoldRoundDone
  <2> DEFINE out == Top.out \o answer.out
             g   == Applied([Top EXCEPT !.out = out])
  <2>1. Undriven /\ (Deliver(Below, out, answer.returned, TRUE) \/ Continue(Replace(g)))
    BY <1>5 DEF FoldRoundDone, Driver, Stream, Undriven
  <2>2. g.kind = Top.kind /\ g.out = out
    BY <1>0 DEF Applied
  <2> HIDE DEF g
  <2> QED BY <1>1, <1>2, <2>1, <2>2, CountedDelivering
<1>6. CASE LoopDone
  <2>1. answer = NoAnswer /\ Undriven
    BY <1>0, <1>6 DEF LoopDone, At, Driver, Stream, Undriven
  <2>2. PICK returned : Deliver(Below, Top.out, returned, FALSE)
    BY <1>6 DEF LoopDone
  <2> QED BY <1>1, <2>1, <2>2, CountedDelivering
<1>7. CASE UnwindRound
  BY <1>7 DEF UnwindRound, At
<1> QED BY <1>3, <1>4, <1>5, <1>6, <1>7 DEF InLoop

\* The driver's steps lose no value, and the second pass starts over.
LEMMA DrivingCounted ==
    ASSUME NestedIn, Counted, Driving, doing' # "unwind", phase' # "failed", ~swallowed' PROVE Accounted'
<1>1. CASE SecondPass
  <2>1. /\ emitted' = <<>> /\ sections' = <<>> /\ count' = 0
        /\ control' = <<>> /\ answer' = NoAnswer
    BY <1>1 DEF SecondPass, AtEnd, Counted
  <2>2. IsSequence(<<>>) /\ Len(<<>>) = 0
    <3>1. <<>> \in Seq({})
      OBVIOUS
    <3> QED BY <3>1, SequenceOver
  <2>3. Len(sections') = count' /\ IsSequence(sections') /\ IsSequence(emitted')
    BY <2>1, <2>2
  <2>4. Len(emitted') = 0 /\ Len(answer'.out) = 0
    BY <2>1, <2>2, NothingCollected
  <2>5. Holds(control', 0) /\ count' = Len(emitted') + Len(answer'.out) + 0
    BY <2>1, <2>4, HoldsNothing
  <2> QED BY <2>1, <2>3, <2>5, NothingCollected DEF Accounted
<1> SUFFICES ASSUME ~SecondPass
             PROVE  Accounted'
  BY <1>1
<1>2. Accounted
  <2>1. doing # "unwind" /\ phase # "failed" /\ ~swallowed
    BY DEF Driving, WalkLabel, WalkSection, WalkInvocation, Collect, ReportError, Finish, AtTop, AtEnd, Errors
  <2> QED BY <2>1 DEF Counted
<1>3. CASE WalkLabel \/ WalkSection \/ Finish
  <2>1. UNCHANGED <<emitted, control, answer, count, sections>>
    BY <1>3 DEF WalkLabel, WalkSection, Finish, Stream
  <2> QED BY <1>2, <2>1 DEF Accounted, Holds
<1>4. CASE WalkInvocation
  <2>1. answer = NoAnswer
    BY <1>4 DEF WalkInvocation, AtTop, Counted
  <2>2. PICK f : control' = Append(control, f) /\ answer' = NoAnswer /\ Collects(f) /\ SizeOf(f) = 0 /\ Undriven
    BY <1>4, NothingCollected DEF WalkInvocation, Continue, Push, Driver, Stream, Undriven
  <2>3. PICK n \in Nat : Holds(control, n) /\ count = Len(emitted) + Len(answer.out) + n
    BY <1>2 DEF Accounted
  <2>4. IsSequence(control)
    BY DEF NestedIn, Nested, Situation, Sound
  <2>5. Holds(control', n + 0)
    BY <2>2, <2>3, <2>4, HoldsPushed
  <2>6. Holds(control', n)
    BY <2>5
  <2> QED BY <1>2, <2>1, <2>2, <2>3, <2>6 DEF Accounted, Undriven
<1>5. CASE Collect
  <2>1. /\ control = <<>> /\ control' = control /\ answer' = NoAnswer /\ emitted' = emitted \o answer.out
        /\ UNCHANGED <<count, sections>>
    BY <1>5 DEF Collect, Continue, Stream
  <2>2. PICK n \in Nat : Holds(control, n) /\ count = Len(emitted) + Len(answer.out) + n
    BY <1>2 DEF Accounted
  <2>3. IsSequence(emitted') /\ Len(emitted') = Len(emitted) + Len(answer.out)
    BY <1>2, <2>1, SequencesJoined DEF Accounted
  <2>4. Len(answer'.out) = 0
    BY <2>1, NothingCollected
  <2>5. count' = Len(emitted') + Len(answer'.out) + n
    BY <1>2, <2>1, <2>2, <2>3, <2>4, AmountsAreNumbers
  <2> QED BY <1>2, <2>1, <2>2, <2>3, <2>5, NothingCollected DEF Accounted
<1>6. CASE ReportError
  BY <1>6 DEF ReportError
<1> QED BY <1>3, <1>4, <1>5, <1>6 DEF Driving

\* Only a frame that delivers leaves an answer.
LEMMA AnswersDelivered ==
    ASSUME doing # "deliver" => answer = NoAnswer, [Next]_vars
    PROVE  doing' # "deliver" => answer' = NoAnswer
<1>1. CASE Driving
  BY <1>1 DEF Driving, WalkLabel, WalkSection, WalkInvocation, Collect, ReportError, SecondPass, Finish, AtTop, AtEnd,
     Continue
<1>2. CASE Resolving
  BY <1>2 DEF Resolving, FitByType, Probe, JudgeProbe, SwallowError, ChooseNone, TailCall, NotTailCall, EnterCall,
     Continue, Deliver, Raise
<1>3. CASE InCall
  BY <1>3 DEF InCall, Bind, Bound, RunHook, HookDone, RunBody, GoRoundAgain, BodyDone, ReturnFromCall, UnwindCall,
     At, Continue, Deliver, Raise
<1>4. CASE InBody
  BY <1>4 DEF InBody, Emit, SetSection, CheckAssertion, Branch, StartLoop, StartCall, NextRound,
     ReturnValue, ReturnNothing, AfterNested, AfterValue, UnwindBody, At, Continue, Deliver, Raise
<1>5. CASE InLoop
  BY <1>5 DEF InLoop, StartRound, ForRoundDone, FoldRoundDone, LoopDone, UnwindRound, At, Continue, Deliver, Raise
<1>6. CASE UNCHANGED vars
  BY <1>6 DEF vars
<1> QED BY <1>1, <1>2, <1>3, <1>4, <1>5, <1>6 DEF Next, Stopped

\* Every step keeps the count.
LEMMA CountedStep ==
    ASSUME NestedIn, Counted, [Next]_vars PROVE Counted'
<1>1. doing' # "deliver" => answer' = NoAnswer
  BY AnswersDelivered DEF Counted
<1>2. CASE UNCHANGED vars
  BY <1>2 DEF vars, Counted, Accounted, Holds
<1>3. CASE Driving
  BY <1>1, <1>3, DrivingCounted DEF Counted
<1>4. CASE Resolving \/ InCall \/ InBody \/ InLoop
  <2> SUFFICES ASSUME ~swallowed', doing' # "unwind"
               PROVE  Accounted'
    BY <1>1 DEF Counted
  <2>1. phase = "walking" /\ control # <<>>
    BY <1>4, InsideSteps DEF Inside
  <2>2. ~swallowed
    BY <1>4, SwallowedStays, <2>1 DEF SecondPass, AtEnd
  <2>3. doing # "unwind"
    BY <1>4 DEF Resolving, InCall, InBody, InLoop, Decided, InStage, Doing, At,
       FitByType, Probe, JudgeProbe, SwallowError, ChooseNone, TailCall, NotTailCall, EnterCall,
       Bind, Bound, RunHook, HookDone, RunBody, GoRoundAgain, BodyDone, ReturnFromCall, UnwindCall,
       Emit, SetSection, CheckAssertion, Branch, StartLoop, StartCall, NextRound,
       ReturnValue, ReturnNothing, AfterNested, AfterValue, UnwindBody,
       StartRound, ForRoundDone, FoldRoundDone, LoopDone, UnwindRound
  <2>4. Busy
    BY <2>1, <2>2, <2>3 DEF Counted, Busy
  <2> QED BY <1>4, <2>4, ResolvingCounted, InCallCounted, InBodyCounted, InLoopCounted
<1> QED BY <1>2, <1>3, <1>4 DEF Next, Stopped

\* Whatever the program, and however its values travel down through bodies,
\* loops, calls, hooks and tail calls: between top-level statements, the
\* count labels are placed by (`values_emitted`) and the list of sections
\* are as long as what the driver has collected (macro_body.rs, main.rs).
THEOREM MacroAligned == Spec => []Aligned
<1>1. Init => Counted
  <2> SUFFICES ASSUME Init PROVE Counted
    OBVIOUS
  <2>1. /\ emitted = <<>> /\ sections = <<>> /\ count = 0 /\ control = <<>> /\ answer = NoAnswer
    BY DEF Init
  <2>2. IsSequence(<<>>) /\ Len(<<>>) = 0
    <3>1. <<>> \in Seq({})
      OBVIOUS
    <3> QED BY <3>1, SequenceOver
  <2>3. Len(answer.out) = 0 /\ IsSequence(answer.out)
    BY <2>1, NothingCollected
  <2>4. Len(emitted) = 0 /\ Len(sections) = 0
    BY <2>1, <2>2
  <2>5. Holds(control, 0) /\ count = Len(emitted) + Len(answer.out) + 0
    BY <2>1, <2>3, <2>4, HoldsNothing
  <2> QED BY <2>1, <2>2, <2>3, <2>4, <2>5 DEF Counted, Accounted
<1>2. NestedIn /\ Counted /\ [Next]_vars => Counted'
  BY CountedStep
<1>3. Init => NestedIn
  BY InitFits
<1>4. NestedIn /\ [Next]_vars => NestedIn'
  BY FitsStep
<1>5. Counted => Aligned
  <2> SUFFICES ASSUME Counted, phase = "walking", control = <<>>, doing = "run", ~swallowed
               PROVE  count = Len(emitted) /\ Len(sections) = Len(emitted)
    BY DEF Aligned
  <2>1. Accounted /\ answer = NoAnswer
    BY DEF Counted
  <2>2. PICK n \in Nat : Holds(control, n) /\ count = Len(emitted) + Len(answer.out) + n
    BY <2>1 DEF Accounted
  <2>3. n = 0 /\ Len(answer.out) = 0
    BY <2>1, <2>2, HoldsNothing, NothingCollected
  <2>4. Len(emitted) \in Nat
    BY <2>1, AmountsAreNumbers
  <2>5. count = Len(emitted)
    BY <2>2, <2>3, <2>4
  <2> QED BY <2>1, <2>5 DEF Accounted
<1> QED BY <1>1, <1>2, <1>3, <1>4, <1>5, PTL DEF Spec

---------------------------------------------------------------------------
(* Blame.                                                                  *)

\* A step that is not one of unwinding an error leaves none blamed, and an
\* error arises in the module in force.
LEMMA ErrorsArise ==
    ASSUME Next, ~SecondPass, ~Stopped, doing # "unwind"
    PROVE  /\ phase = "walking" /\ phase' # "failed"
           /\ blame' \in {blame, {}}
           /\ doing' = "unwind" => origin' = context.module /\ context' = context /\ blame' = blame
<1>1. CASE Driving
  BY <1>1 DEF Driving, WalkLabel, WalkSection, WalkInvocation, Collect, ReportError, Finish, AtTop, AtEnd,
     Driver, Errors, Continue
<1>2. CASE Resolving
  BY <1>2 DEF Resolving, FitByType, Probe, JudgeProbe, SwallowError, ChooseNone, TailCall, NotTailCall, EnterCall,
     Decided, At, Driver, Errors, Continue, Deliver, Raise
<1>3. CASE InCall
  BY <1>3 DEF InCall, Bind, Bound, RunHook, HookDone, RunBody, GoRoundAgain, BodyDone, ReturnFromCall, UnwindCall,
     InStage, At, Driver, Errors, Continue, Deliver, Raise
<1>4. CASE InBody
  BY <1>4 DEF InBody, Emit, SetSection, CheckAssertion, Branch, StartLoop, StartCall, NextRound,
     ReturnValue, ReturnNothing, AfterNested, AfterValue, UnwindBody, Doing, At, Driver, Errors,
     Continue, Deliver, Raise
<1>5. CASE InLoop
  BY <1>5 DEF InLoop, StartRound, ForRoundDone, FoldRoundDone, LoopDone, UnwindRound, At, Driver, Errors,
     Continue, Deliver, Raise
<1> QED BY <1>1, <1>2, <1>3, <1>4, <1>5 DEF Next

\* Every step keeps the blame where the error arose.
LEMMA BlamedStep ==
    ASSUME Blamed, NestedIn, [Next]_vars PROVE Blamed'
<1>1. CASE UNCHANGED vars
  BY <1>1 DEF vars, Blamed
<1>2. CASE SecondPass
  BY <1>2 DEF SecondPass, AtEnd, Blamed
<1>3. CASE swallowed /\ ~SecondPass
  BY <1>3, SwallowedStays DEF Blamed
<1> SUFFICES ASSUME Next, ~SecondPass, ~Stopped, ~swallowed
             PROVE  Blamed'
  BY <1>1, <1>2, <1>3 DEF Stopped
<1>4. CASE doing # "unwind"
  <2>1. phase = "walking" => blame = {}
    BY <1>4 DEF Blamed
  <2> QED BY <1>4, <2>1, ErrorsArise DEF Blamed
<1>5. CASE doing = "unwind"
  <2>1. DOMAIN context = {"target", "section", "module"}
    BY DEF NestedIn, Nested, Situation, Contexts
  <2>2. CASE ReportError
    <3>1. context.module = MainModule
      <4>1. ModuleFits(program.macros, context.module, <<>>, 0)
        BY <2>2, EmptyStack DEF ReportError, NestedIn, Nested, Situation
      <4> QED BY <4>1, EmptyStack
    <3>2. blame = {origin} \/ (blame = {} /\ context.module = origin)
      BY <1>5, <2>2 DEF ReportError, Blamed
    <3>3. blame' = {origin} /\ origin' = origin /\ phase' = "failed" /\ swallowed' = swallowed
      BY <2>2, <3>1, <3>2 DEF ReportError
    <3> QED BY <3>3 DEF Blamed
  <2>3. CASE SwallowError
    BY <2>3 DEF SwallowError, Blamed
  <2>4. CASE UnwindCall
    <3>1. blame = {origin} \/ (blame = {} /\ context.module = origin)
      BY <1>5, <2>4 DEF UnwindCall, At, Blamed
    <3>2. blame' = {origin}
      BY <2>4, <3>1 DEF UnwindCall, BlameInnermost
    <3>3. phase' = "walking" /\ doing' = "unwind" /\ origin' = origin
      BY <1>5, <2>4 DEF UnwindCall, At, Driver
    <3> QED BY <3>2, <3>3 DEF Blamed
  <2>5. CASE UnwindBody \/ UnwindRound
    <3>1. context'.module = context.module
      BY <2>1, <2>5 DEF UnwindBody, UnwindRound
    <3>2. UNCHANGED <<phase, doing, blame, origin, swallowed>>
      BY <2>5 DEF UnwindBody, UnwindRound, Driver, Errors
    <3> QED BY <3>1, <3>2 DEF Blamed
  <2> QED BY <1>5, <2>2, <2>3, <2>4, <2>5 DEF Next, Driving, Resolving, InCall, InBody, InLoop,
         WalkLabel, WalkSection, WalkInvocation, Collect, Finish, AtTop, AtEnd,
         FitByType, Probe, JudgeProbe, ChooseNone, TailCall, NotTailCall, EnterCall,
         Bind, Bound, RunHook, HookDone, RunBody, GoRoundAgain, BodyDone, ReturnFromCall,
         Emit, SetSection, CheckAssertion, Branch, StartLoop, StartCall, NextRound,
         ReturnValue, ReturnNothing, AfterNested, AfterValue,
         StartRound, ForRoundDone, FoldRoundDone, LoopDone, Decided, InStage, Doing, At
<1> QED BY <1>4, <1>5

\* An error is reported against the module it arose in, however many calls,
\* loops and bodies it unwound, if none was recovered from before
\* (`error_module` in macro_body.rs and main.rs).
THEOREM MacroBlamesInnermost == Spec => []BlamesInnermost
<1>1. Init => Blamed
  BY DEF Init, Blamed
<1>2. Blamed /\ NestedIn /\ [Next]_vars => Blamed'
  BY BlamedStep
<1>3. Init => NestedIn
  BY InitFits
<1>4. NestedIn /\ [Next]_vars => NestedIn'
  BY FitsStep
<1>5. Blamed => BlamesInnermost
  BY DEF Blamed, BlamesInnermost
<1> QED BY <1>1, <1>2, <1>3, <1>4, <1>5, PTL DEF Spec

===========================================================================
