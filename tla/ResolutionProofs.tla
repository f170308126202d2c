------------------------ MODULE ResolutionProofs --------------------------
(* Proofs about TypeResolution, Constants and their composition, for every *)
(* program: that the path of aliases, the constants' evaluations and the   *)
(* marks of both are those of the functions that are active; that circles  *)
(* of constants are circles; and that errors of constants are reported     *)
(* where they arise.                                                       *)
EXTENDS Resolution, DataInduction, TLAPS

IsSeq(s) == \E S : s \in Seq(S)

ActiveKinds == {"alias", "expand"}

---------------------------------------------------------------------------
(* Sequences that grow and shrink at the head.                             *)

\* What the code's push of a frame, or of a name, makes of a stack.
LEMMA PushFacts ==
    ASSUME NEW s, IsSeq(s), NEW x
    PROVE  /\ IsSeq(<<x>> \o s)
           /\ DOMAIN (<<x>> \o s) = 1..(Len(s) + 1)
           /\ (<<x>> \o s)[1] = x
           /\ \A k \in DOMAIN s : (<<x>> \o s)[k + 1] = s[k]
           /\ DOMAIN s = 1..Len(s) /\ Len(s) \in Nat /\ Len(<<x>> \o s) = Len(s) + 1
<1>1. PICK S : s \in Seq(S)
  BY DEF IsSeq
<1>2. s \in Seq(S \cup {x}) /\ <<x>> \in Seq(S \cup {x})
  BY <1>1
<1>3. <<x>> \o s \in Seq(S \cup {x}) /\ Len(<<x>> \o s) = Len(s) + 1
  BY <1>2
<1>4. (<<x>> \o s)[1] = x /\ \A k \in 1..Len(s) : (<<x>> \o s)[k + 1] = s[k]
  BY <1>2
<1>5. DOMAIN s = 1..Len(s) /\ Len(s) \in Nat
  BY <1>1
<1> QED
  BY <1>3, <1>4, <1>5 DEF IsSeq

\* The same of a sequence that is known to be one pushed on.
LEMMA PushedFacts ==
    ASSUME NEW s, IsSeq(s), NEW x, NEW t, t = <<x>> \o s
    PROVE  /\ DOMAIN t = 1..(Len(s) + 1) /\ t[1] = x /\ Len(t) = Len(s) + 1
           /\ \A k \in DOMAIN s : t[k + 1] = s[k]
           /\ DOMAIN s = 1..Len(s) /\ Len(s) \in Nat
<1>1. PICK S : s \in Seq(S)
  BY DEF IsSeq
<1>2. s \in Seq(S \cup {x}) /\ <<x>> \in Seq(S \cup {x})
  BY <1>1
<1>3. t \in Seq(S \cup {x}) /\ Len(t) = Len(s) + 1
  BY <1>2
<1>4. t[1] = x /\ \A k \in 1..Len(s) : t[k + 1] = s[k]
  BY <1>2
<1>5. DOMAIN s = 1..Len(s) /\ Len(s) \in Nat
  BY <1>1
<1> QED BY <1>3, <1>4, <1>5

\* What a pop leaves.
LEMMA PopFacts ==
    ASSUME NEW s, IsSeq(s), s # <<>>
    PROVE  /\ IsSeq(Tail(s))
           /\ DOMAIN Tail(s) = 1..(Len(s) - 1)
           /\ \A k \in DOMAIN Tail(s) : Tail(s)[k] = s[k + 1]
           /\ Head(s) = s[1]
           /\ DOMAIN s = 1..Len(s) /\ Len(s) \in Nat /\ 1 \in DOMAIN s /\ Len(Tail(s)) = Len(s) - 1
<1>1. PICK S : s \in Seq(S)
  BY DEF IsSeq
<1>2. Len(s) \in Nat /\ Len(s) > 0 /\ DOMAIN s = 1..Len(s)
  BY <1>1
<1>3. Tail(s) \in Seq(S) /\ Len(Tail(s)) = Len(s) - 1 /\ \A k \in 1..(Len(s) - 1) : Tail(s)[k] = s[k + 1]
  BY <1>1, <1>2
<1>4. DOMAIN Tail(s) = 1..(Len(s) - 1)
  BY <1>3
<1>5. Head(s) = s[1]
  BY <1>1, <1>2
<1> QED
  BY <1>2, <1>3, <1>4, <1>5 DEF IsSeq

---------------------------------------------------------------------------
(* How `Follows` is kept.                                                  *)

\* Calling a function that resolves no alias.
LEMMA PushOther ==
    ASSUME NEW p, NEW fs, IsSeq(fs), NEW f, f.of \notin ActiveKinds, Follows(p, fs)
    PROVE  Follows(p, <<f>> \o fs)
<1> DEFINE gs == <<f>> \o fs
<1>1. /\ DOMAIN gs = 1..(Len(fs) + 1) /\ gs[1] = f /\ DOMAIN fs = 1..Len(fs) /\ Len(fs) \in Nat
      /\ \A k \in DOMAIN fs : gs[k + 1] = fs[k]
  BY PushFacts
<1> HIDE DEF gs
<1>2. \A k \in ActiveIn(gs) : k - 1 \in ActiveIn(fs) /\ gs[k] = fs[k - 1] /\ k \in Nat
  <2> SUFFICES ASSUME NEW k \in ActiveIn(gs)
               PROVE  k - 1 \in ActiveIn(fs) /\ gs[k] = fs[k - 1] /\ k \in Nat
    OBVIOUS
  <2>1. k \in 1..(Len(fs) + 1) /\ k # 1
    BY <1>1 DEF ActiveIn, ActiveKinds
  <2>2. k - 1 \in DOMAIN fs /\ gs[(k - 1) + 1] = fs[k - 1] /\ (k - 1) + 1 = k
    BY <1>1, <2>1
  <2> QED
    BY <2>1, <2>2 DEF ActiveIn
<1>3. \A k \in ActiveIn(fs) : k + 1 \in ActiveIn(gs) /\ gs[k + 1] = fs[k]
  BY <1>1 DEF ActiveIn
<1>4. {gs[k].name : k \in ActiveIn(gs)} = {fs[k].name : k \in ActiveIn(fs)}
  BY <1>2, <1>3
<1>5. ASSUME NEW a \in DOMAIN p, NEW b \in DOMAIN p, NEW j \in ActiveIn(gs), NEW k \in ActiveIn(gs),
             p[a] = gs[j].name, p[b] = gs[k].name
      PROVE  a < b <=> j < k
  <2>1. a < b <=> j - 1 < k - 1
    BY <1>2, <1>5 DEF Follows
  <2>2. j \in Nat /\ k \in Nat
    BY <1>2
  <2> QED
    BY <2>1, <2>2
<1>6. PathNames(p) = {gs[k].name : k \in ActiveIn(gs)}
  BY <1>4 DEF Follows
<1> QED
  BY <1>5, <1>6 DEF Follows, gs

\* Leaving such a function.
LEMMA PopOther ==
    ASSUME NEW p, NEW fs, IsSeq(fs), fs # <<>>, Head(fs).of \notin ActiveKinds, Follows(p, fs)
    PROVE  Follows(p, Tail(fs))
<1> DEFINE gs == Tail(fs)
<1>1. /\ DOMAIN gs = 1..(Len(fs) - 1) /\ fs[1] = Head(fs) /\ DOMAIN fs = 1..Len(fs) /\ Len(fs) \in Nat
      /\ \A k \in DOMAIN gs : gs[k] = fs[k + 1]
  BY PopFacts
<1> HIDE DEF gs
<1>2. \A k \in ActiveIn(fs) : k - 1 \in ActiveIn(gs) /\ gs[k - 1] = fs[k]
  <2> SUFFICES ASSUME NEW k \in ActiveIn(fs)
               PROVE  k - 1 \in ActiveIn(gs) /\ gs[k - 1] = fs[k]
    OBVIOUS
  <2>1. k \in 1..Len(fs) /\ k # 1
    BY <1>1 DEF ActiveIn, ActiveKinds
  <2>2. k - 1 \in DOMAIN gs /\ gs[k - 1] = fs[(k - 1) + 1] /\ (k - 1) + 1 = k
    BY <1>1, <2>1
  <2> QED
    BY <2>1, <2>2 DEF ActiveIn
<1>3. \A k \in ActiveIn(gs) : k + 1 \in ActiveIn(fs) /\ gs[k] = fs[k + 1] /\ k \in Nat
  BY <1>1 DEF ActiveIn
<1>4. {gs[k].name : k \in ActiveIn(gs)} = {fs[k].name : k \in ActiveIn(fs)}
  BY <1>2, <1>3
<1>5. ASSUME NEW a \in DOMAIN p, NEW b \in DOMAIN p, NEW j \in ActiveIn(gs), NEW k \in ActiveIn(gs),
             p[a] = gs[j].name, p[b] = gs[k].name
      PROVE  a < b <=> j < k
  <2>1. a < b <=> j + 1 < k + 1
    BY <1>3, <1>5 DEF Follows
  <2>2. j \in Nat /\ k \in Nat
    BY <1>3
  <2> QED
    BY <2>1, <2>2
<1>6. PathNames(p) = {gs[k].name : k \in ActiveIn(gs)}
  BY <1>4 DEF Follows
<1> QED
  BY <1>5, <1>6 DEF Follows, gs

\* Coming to an alias that is not on the path.
LEMMA PushActive ==
    ASSUME NEW p, IsSeq(p), NEW fs, IsSeq(fs), NEW f,
           f.of \in ActiveKinds, f.name \notin PathNames(p), Follows(p, fs)
    PROVE  Follows(<<f.name>> \o p, <<f>> \o fs)
<1> DEFINE gs == <<f>> \o fs
           q  == <<f.name>> \o p
<1>1. /\ DOMAIN gs = 1..(Len(fs) + 1) /\ gs[1] = f /\ DOMAIN fs = 1..Len(fs) /\ Len(fs) \in Nat
      /\ \A k \in DOMAIN fs : gs[k + 1] = fs[k]
  BY PushFacts
<1>2. /\ DOMAIN q = 1..(Len(p) + 1) /\ q[1] = f.name /\ DOMAIN p = 1..Len(p) /\ Len(p) \in Nat
      /\ \A a \in DOMAIN p : q[a + 1] = p[a]
  BY PushFacts
<1> HIDE DEF gs, q
<1>3. \A k \in ActiveIn(gs) : k = 1 \/ (k - 1 \in ActiveIn(fs) /\ gs[k] = fs[k - 1])
  <2> SUFFICES ASSUME NEW k \in ActiveIn(gs), k # 1
               PROVE  k - 1 \in ActiveIn(fs) /\ gs[k] = fs[k - 1]
    OBVIOUS
  <2>1. k \in 1..(Len(fs) + 1)
    BY <1>1 DEF ActiveIn
  <2>2. k - 1 \in DOMAIN fs /\ gs[(k - 1) + 1] = fs[k - 1] /\ (k - 1) + 1 = k
    BY <1>1, <2>1
  <2> QED
    BY <2>1, <2>2 DEF ActiveIn
<1>4. 1 \in ActiveIn(gs) /\ \A k \in ActiveIn(fs) : k + 1 \in ActiveIn(gs) /\ gs[k + 1] = fs[k]
  BY <1>1 DEF ActiveIn, ActiveKinds
<1>5. \A a \in DOMAIN q : a = 1 \/ (a - 1 \in DOMAIN p /\ q[a] = p[a - 1])
  <2> SUFFICES ASSUME NEW a \in DOMAIN q, a # 1
               PROVE  a - 1 \in DOMAIN p /\ q[a] = p[a - 1]
    OBVIOUS
  <2>1. a - 1 \in DOMAIN p /\ q[(a - 1) + 1] = p[a - 1] /\ (a - 1) + 1 = a
    BY <1>2
  <2> QED
    BY <2>1
<1>6. 1 \in DOMAIN q /\ \A a \in DOMAIN p : a + 1 \in DOMAIN q
  BY <1>2
<1>7. {gs[k].name : k \in ActiveIn(gs)} = {f.name} \cup {fs[k].name : k \in ActiveIn(fs)}
  BY <1>1, <1>3, <1>4
<1>8. PathNames(q) = {f.name} \cup PathNames(p)
  BY <1>2, <1>5, <1>6 DEF PathNames
<1>9. PathNames(q) = {gs[k].name : k \in ActiveIn(gs)}
  BY <1>7, <1>8 DEF Follows
<1>10. \A a \in DOMAIN q : (a = 1 <=> q[a] = f.name) /\ a \in Nat
  BY <1>2, <1>5 DEF PathNames
<1>11. \A k \in ActiveIn(gs) : (k = 1 <=> gs[k].name = f.name) /\ k \in Nat /\ k >= 1
  BY <1>1, <1>3 DEF Follows, ActiveIn
<1>12. ASSUME NEW a \in DOMAIN q, NEW b \in DOMAIN q, NEW j \in ActiveIn(gs), NEW k \in ActiveIn(gs),
             q[a] = gs[j].name, q[b] = gs[k].name
      PROVE  a < b <=> j < k
  <2>1. (a = 1 <=> j = 1) /\ (b = 1 <=> k = 1)
    BY <1>10, <1>11, <1>12
  <2>2. a \in Nat /\ b \in Nat /\ j \in Nat /\ k \in Nat /\ a >= 1 /\ b >= 1 /\ j >= 1 /\ k >= 1
    BY <1>2, <1>11
  <2>3. CASE a = 1 \/ b = 1
    BY <2>1, <2>2, <2>3
  <2>4. CASE a # 1 /\ b # 1
    <3>1. /\ a - 1 \in DOMAIN p /\ b - 1 \in DOMAIN p /\ j - 1 \in ActiveIn(fs) /\ k - 1 \in ActiveIn(fs)
          /\ p[a - 1] = fs[j - 1].name /\ p[b - 1] = fs[k - 1].name
      BY <1>3, <1>5, <1>12, <2>1, <2>4
    <3>2. a - 1 < b - 1 <=> j - 1 < k - 1
      BY <3>1 DEF Follows
    <3> QED
      BY <2>2, <3>2
  <2> QED
    BY <2>3, <2>4
<1> QED
  BY <1>9, <1>12 DEF Follows, gs, q

\* Leaving the alias that was come to last.
LEMMA PopActive ==
    ASSUME NEW p, IsSeq(p), NEW fs, IsSeq(fs), fs # <<>>, Head(fs).of \in ActiveKinds, Follows(p, fs)
    PROVE  /\ p # <<>>
           /\ Follows(Tail(p), Tail(fs))
           /\ PathNames(Tail(p)) = PathNames(p) \ {Head(fs).name}
           /\ Head(fs).name \in PathNames(p)
<1> DEFINE gs == Tail(fs)
           q  == Tail(p)
           n  == Head(fs).name
<1>1. /\ DOMAIN gs = 1..(Len(fs) - 1) /\ fs[1] = Head(fs) /\ DOMAIN fs = 1..Len(fs) /\ Len(fs) \in Nat
      /\ 1 \in DOMAIN fs /\ \A k \in DOMAIN gs : gs[k] = fs[k + 1]
  BY PopFacts
<1>2. 1 \in ActiveIn(fs) /\ fs[1].name = n
  BY <1>1 DEF ActiveIn, ActiveKinds
<1>3. n \in PathNames(p)
  BY <1>2 DEF Follows
<1>4. PICK first \in DOMAIN p : p[first] = n
  BY <1>3 DEF PathNames
<1>5. p # <<>>
  BY <1>4
<1>6. /\ DOMAIN q = 1..(Len(p) - 1) /\ DOMAIN p = 1..Len(p) /\ Len(p) \in Nat /\ 1 \in DOMAIN p
      /\ \A a \in DOMAIN q : q[a] = p[a + 1]
  BY <1>5, PopFacts
<1> HIDE DEF gs, q, n
<1>7. \A k \in ActiveIn(fs) : k \in Nat /\ k >= 1
  BY <1>1 DEF ActiveIn
<1>8. p[1] = n
  <2>1. p[1] \in PathNames(p)
    BY <1>6 DEF PathNames
  <2>2. PICK k \in ActiveIn(fs) : p[1] = fs[k].name
    BY <2>1 DEF Follows
  <2>3. 1 < first <=> k < 1
    BY <1>2, <1>4, <1>6, <2>2 DEF Follows
  <2>4. first = 1
    BY <1>4, <1>6, <1>7, <2>2, <2>3
  <2> QED
    BY <1>4, <2>4
<1>9. \A a \in DOMAIN p : p[a] = n => a = 1
  <2> SUFFICES ASSUME NEW a \in DOMAIN p, p[a] = n
               PROVE  a = 1
    OBVIOUS
  <2>1. 1 < a <=> 1 < 1
    BY <1>2, <1>6, <1>8 DEF Follows
  <2> QED
    BY <1>6, <2>1
<1>10. \A k \in ActiveIn(fs) : fs[k].name = n => k = 1
  <2> SUFFICES ASSUME NEW k \in ActiveIn(fs), fs[k].name = n
               PROVE  k = 1
    OBVIOUS
  <2>1. 1 < 1 <=> 1 < k
    BY <1>2, <1>6, <1>8 DEF Follows
  <2> QED
    BY <1>7, <2>1
<1>11. \A k \in ActiveIn(gs) : k + 1 \in ActiveIn(fs) /\ gs[k] = fs[k + 1] /\ k \in Nat /\ k + 1 # 1
  BY <1>1 DEF ActiveIn
<1>12. \A k \in ActiveIn(fs) : k # 1 => k - 1 \in ActiveIn(gs) /\ gs[k - 1] = fs[k]
  <2> SUFFICES ASSUME NEW k \in ActiveIn(fs), k # 1
               PROVE  k - 1 \in ActiveIn(gs) /\ gs[k - 1] = fs[k]
    OBVIOUS
  <2>1. k \in 1..Len(fs)
    BY <1>1 DEF ActiveIn
  <2>2. k - 1 \in DOMAIN gs /\ gs[k - 1] = fs[(k - 1) + 1] /\ (k - 1) + 1 = k
    BY <1>1, <2>1
  <2> QED
    BY <2>1, <2>2 DEF ActiveIn
<1>13. \A a \in DOMAIN q : a + 1 \in DOMAIN p /\ q[a] = p[a + 1] /\ a \in Nat /\ a + 1 # 1
  BY <1>6
<1>14. \A a \in DOMAIN p : a # 1 => a - 1 \in DOMAIN q /\ q[a - 1] = p[a]
  <2> SUFFICES ASSUME NEW a \in DOMAIN p, a # 1
               PROVE  a - 1 \in DOMAIN q /\ q[a - 1] = p[a]
    OBVIOUS
  <2>1. a - 1 \in DOMAIN q /\ q[a - 1] = p[(a - 1) + 1] /\ (a - 1) + 1 = a
    BY <1>6
  <2> QED
    BY <2>1
<1>15. PathNames(q) = PathNames(p) \ {n}
  BY <1>8, <1>9, <1>13, <1>14 DEF PathNames
<1>16. {gs[k].name : k \in ActiveIn(gs)} = {fs[k].name : k \in ActiveIn(fs)} \ {n}
  BY <1>2, <1>10, <1>11, <1>12
<1>17. ASSUME NEW a \in DOMAIN q, NEW b \in DOMAIN q, NEW j \in ActiveIn(gs), NEW k \in ActiveIn(gs),
             q[a] = gs[j].name, q[b] = gs[k].name
      PROVE  a < b <=> j < k
  <2>1. a + 1 < b + 1 <=> j + 1 < k + 1
    BY <1>11, <1>13, <1>17 DEF Follows
  <2> QED
    BY <1>11, <1>13, <2>1
<1>18. PathNames(q) = {gs[k].name : k \in ActiveIn(gs)}
  BY <1>15, <1>16 DEF Follows
<1>19. Follows(q, gs)
  BY <1>17, <1>18 DEF Follows
<1> QED
  BY <1>3, <1>5, <1>15, <1>19 DEF gs, q, n

---------------------------------------------------------------------------
(* The inductive invariant.                                                *)

DeclaredAliases == {name \in DOMAIN program.decl : IsAlias(name)}
Phases  == {"structs", "aliases", "instances", "done", "failed"}
Hows    == {"on", "ask", "answer", "fail"}

\* What is known of a frame: a frame that is expanding is for a generic alias.
FrameOK(f) ==
    /\ f.of \in ActiveKinds \cup {"base"} \cup Lists /\ "of" \in DOMAIN f
    /\ f.of \in ActiveKinds => f.name \in DeclaredAliases
    /\ f.of = "expand" => IsGeneric(f.name)

AliasNames(fs) == {fs[k].name : k \in {k \in DOMAIN fs : fs[k].of = "alias"}}

StackOK(p, fs) ==
    /\ p \in Seq(DeclaredAliases)
    /\ IsSeq(fs) /\ \A k \in DOMAIN fs : FrameOK(fs[k])
    /\ Follows(p, fs)

MarksOK ==
    /\ marks \in [DeclaredAliases -> {"unvisited", "visiting", "resolved"}]
    /\ DOMAIN memo = {name \in DOMAIN marks : marks[name] = "resolved"}
    /\ {name \in DOMAIN marks : marks[name] = "visiting"} = AliasNames(frames)

IInv == phase \in Phases /\ doing.how \in Hows /\ StackOK(path, frames) /\ MarksOK

LEMMA IInvImplies == IInv => TypeOK /\ PathIsActive
<1> SUFFICES ASSUME IInv PROVE TypeOK /\ PathIsActive
  OBVIOUS
<1>1. DOMAIN marks = DeclaredAliases
  BY DEF IInv, MarksOK
<1>2. TypeOK
  BY <1>1 DEF IInv, MarksOK, StackOK, FrameOK, TypeOK, Phases, Hows, DeclaredAliases, ActiveKinds
<1>3. FrameNames({"alias"}) = AliasNames(frames)
  BY DEF FrameNames, AliasNames
<1>4. PathIsActive
  BY <1>3 DEF IInv, MarksOK, StackOK, PathIsActive
<1> QED
  BY <1>2, <1>4

---------------------------------------------------------------------------
(* How the path and the frames keep what is known of them.                 *)

LEMMA CallOther ==
    ASSUME NEW p, NEW fs, StackOK(p, fs), NEW f, FrameOK(f), f.of \notin ActiveKinds
    PROVE  StackOK(p, <<f>> \o fs) /\ AliasNames(<<f>> \o fs) = AliasNames(fs)
<1> DEFINE gs == <<f>> \o fs
<1>1. /\ IsSeq(gs) /\ DOMAIN gs = 1..(Len(fs) + 1) /\ gs[1] = f /\ DOMAIN fs = 1..Len(fs) /\ Len(fs) \in Nat
      /\ \A k \in DOMAIN fs : gs[k + 1] = fs[k]
  <2>1. IsSeq(fs)
    BY DEF StackOK
  <2>2. IsSeq(gs)
    BY <2>1, PushFacts
  <2>3. DOMAIN gs = 1..(Len(fs) + 1) /\ gs[1] = f /\ \A k \in DOMAIN fs : gs[k + 1] = fs[k]
    BY <2>1, PushFacts
  <2>4. DOMAIN fs = 1..Len(fs) /\ Len(fs) \in Nat
    BY <2>1, PushFacts
  <2> QED
    BY <2>2, <2>3, <2>4
<1>2. Follows(p, gs)
  BY PushOther DEF StackOK
<1> HIDE DEF gs
<1>3. \A k \in DOMAIN gs : k = 1 \/ (k - 1 \in DOMAIN fs /\ gs[k] = fs[k - 1])
  <2> SUFFICES ASSUME NEW k \in DOMAIN gs, k # 1
               PROVE  k - 1 \in DOMAIN fs /\ gs[k] = fs[k - 1]
    OBVIOUS
  <2>1. k - 1 \in DOMAIN fs /\ gs[(k - 1) + 1] = fs[k - 1] /\ (k - 1) + 1 = k
    BY <1>1
  <2> QED
    BY <2>1
<1>4. \A k \in DOMAIN fs : k + 1 \in DOMAIN gs
  BY <1>1
<1>5. StackOK(p, gs)
  BY <1>1, <1>2, <1>3 DEF StackOK
<1>6. AliasNames(gs) = AliasNames(fs)
  BY <1>1, <1>3, <1>4 DEF AliasNames, ActiveKinds
<1> QED
  BY <1>5, <1>6 DEF gs

LEMMA ReturnOther ==
    ASSUME NEW p, NEW fs, StackOK(p, fs), fs # <<>>, Head(fs).of \notin ActiveKinds
    PROVE  StackOK(p, Tail(fs)) /\ AliasNames(Tail(fs)) = AliasNames(fs)
<1> DEFINE gs == Tail(fs)
<1>1. /\ IsSeq(gs) /\ DOMAIN gs = 1..(Len(fs) - 1) /\ fs[1] = Head(fs) /\ DOMAIN fs = 1..Len(fs) /\ Len(fs) \in Nat
      /\ \A k \in DOMAIN gs : gs[k] = fs[k + 1]
  BY PopFacts DEF StackOK
<1>2. Follows(p, gs)
  BY PopOther DEF StackOK
<1> HIDE DEF gs
<1>3. \A k \in DOMAIN fs : k = 1 \/ (k - 1 \in DOMAIN gs /\ gs[k - 1] = fs[k])
  <2> SUFFICES ASSUME NEW k \in DOMAIN fs, k # 1
               PROVE  k - 1 \in DOMAIN gs /\ gs[k - 1] = fs[k]
    OBVIOUS
  <2>1. k - 1 \in DOMAIN gs /\ gs[k - 1] = fs[(k - 1) + 1] /\ (k - 1) + 1 = k
    BY <1>1
  <2> QED
    BY <2>1
<1>4. \A k \in DOMAIN gs : k + 1 \in DOMAIN fs
  BY <1>1
<1>5. StackOK(p, gs)
  BY <1>1, <1>2, <1>4 DEF StackOK
<1>6. AliasNames(gs) = AliasNames(fs)
  BY <1>1, <1>3, <1>4 DEF AliasNames, ActiveKinds
<1> QED
  BY <1>5, <1>6 DEF gs

LEMMA CallActive ==
    ASSUME NEW p, NEW fs, StackOK(p, fs), NEW f, FrameOK(f), f.of \in ActiveKinds, f.name \notin PathNames(p)
    PROVE  /\ StackOK(<<f.name>> \o p, <<f>> \o fs)
           /\ AliasNames(<<f>> \o fs) = AliasNames(fs) \cup (IF f.of = "alias" THEN {f.name} ELSE {})
<1> DEFINE gs == <<f>> \o fs
           q  == <<f.name>> \o p
<1>1. /\ IsSeq(gs) /\ DOMAIN gs = 1..(Len(fs) + 1) /\ gs[1] = f /\ DOMAIN fs = 1..Len(fs) /\ Len(fs) \in Nat
      /\ \A k \in DOMAIN fs : gs[k + 1] = fs[k]
  <2>1. IsSeq(fs)
    BY DEF StackOK
  <2>2. IsSeq(gs)
    BY <2>1, PushFacts
  <2>3. DOMAIN gs = 1..(Len(fs) + 1) /\ gs[1] = f /\ \A k \in DOMAIN fs : gs[k + 1] = fs[k]
    BY <2>1, PushFacts
  <2>4. DOMAIN fs = 1..Len(fs) /\ Len(fs) \in Nat
    BY <2>1, PushFacts
  <2> QED
    BY <2>2, <2>3, <2>4
<1>2. IsSeq(p)
  BY DEF StackOK, IsSeq
<1>3. Follows(q, gs)
  BY <1>2, PushActive DEF StackOK
<1>4. q \in Seq(DeclaredAliases)
  <2>1. f.name \in DeclaredAliases /\ p \in Seq(DeclaredAliases)
    BY DEF FrameOK, StackOK
  <2> QED
    BY <2>1
<1> HIDE DEF gs, q
<1>5. \A k \in DOMAIN gs : k = 1 \/ (k - 1 \in DOMAIN fs /\ gs[k] = fs[k - 1])
  <2> SUFFICES ASSUME NEW k \in DOMAIN gs, k # 1
               PROVE  k - 1 \in DOMAIN fs /\ gs[k] = fs[k - 1]
    OBVIOUS
  <2>1. k - 1 \in DOMAIN fs /\ gs[(k - 1) + 1] = fs[k - 1] /\ (k - 1) + 1 = k
    BY <1>1
  <2> QED
    BY <2>1
<1>6. 1 \in DOMAIN gs /\ \A k \in DOMAIN fs : k + 1 \in DOMAIN gs
  BY <1>1
<1>7. StackOK(q, gs)
  BY <1>1, <1>3, <1>4, <1>5 DEF StackOK
<1>8. AliasNames(gs) = AliasNames(fs) \cup (IF f.of = "alias" THEN {f.name} ELSE {})
  BY <1>1, <1>5, <1>6 DEF AliasNames
<1> QED
  BY <1>7, <1>8 DEF gs, q

LEMMA ReturnActive ==
    ASSUME NEW p, NEW fs, StackOK(p, fs), fs # <<>>, Head(fs).of \in ActiveKinds
    PROVE  /\ StackOK(Tail(p), Tail(fs))
           /\ AliasNames(Tail(fs)) = AliasNames(fs) \ (IF Head(fs).of = "alias" THEN {Head(fs).name} ELSE {})
           /\ Head(fs).name \in DeclaredAliases
<1> DEFINE gs == Tail(fs)
           q  == Tail(p)
           n  == Head(fs).name
<1>1. /\ IsSeq(gs) /\ DOMAIN gs = 1..(Len(fs) - 1) /\ fs[1] = Head(fs) /\ DOMAIN fs = 1..Len(fs) /\ Len(fs) \in Nat
      /\ 1 \in DOMAIN fs /\ \A k \in DOMAIN gs : gs[k] = fs[k + 1]
  BY PopFacts DEF StackOK
<1>2. IsSeq(p)
  BY DEF StackOK, IsSeq
<1>3. p # <<>> /\ Follows(q, gs) /\ PathNames(q) = PathNames(p) \ {n}
  BY <1>2, PopActive DEF StackOK
<1>4. q \in Seq(DeclaredAliases)
  <2>1. p \in Seq(DeclaredAliases)
    BY DEF StackOK
  <2> QED
    BY <1>3, <2>1
<1>5. Head(fs).of = fs[1].of /\ n = fs[1].name
  BY <1>1
<1> HIDE DEF gs, q, n
<1>6. n \in DeclaredAliases
  BY <1>1, <1>5 DEF StackOK, FrameOK
<1>7. \A k \in DOMAIN fs : k = 1 \/ (k - 1 \in DOMAIN gs /\ gs[k - 1] = fs[k])
  <2> SUFFICES ASSUME NEW k \in DOMAIN fs, k # 1
               PROVE  k - 1 \in DOMAIN gs /\ gs[k - 1] = fs[k]
    OBVIOUS
  <2>1. k - 1 \in DOMAIN gs /\ gs[k - 1] = fs[(k - 1) + 1] /\ (k - 1) + 1 = k
    BY <1>1
  <2> QED
    BY <2>1
<1>8. \A k \in DOMAIN gs : k + 1 \in DOMAIN fs
  BY <1>1
<1>9. StackOK(q, gs)
  BY <1>1, <1>3, <1>4, <1>8 DEF StackOK
<1>10. n \notin AliasNames(gs)
  BY <1>3 DEF AliasNames, Follows, ActiveIn
<1>11. \A name \in AliasNames(gs) : name \in AliasNames(fs)
  BY <1>1, <1>8 DEF AliasNames
<1>12. \A name \in AliasNames(fs) : name \in AliasNames(gs) \/ (fs[1].of = "alias" /\ name = n)
  BY <1>5, <1>7 DEF AliasNames
<1>13. AliasNames(gs) = AliasNames(fs) \ (IF Head(fs).of = "alias" THEN {n} ELSE {})
  BY <1>5, <1>10, <1>11, <1>12
<1> QED
  BY <1>6, <1>9, <1>13 DEF gs, q, n

---------------------------------------------------------------------------
(* The steps.                                                              *)

\* What is known of a stack is known of it afterwards: programs do not change.
LEMMA SameProgram ==
    ASSUME program' = program
    PROVE  /\ DeclaredAliases' = DeclaredAliases
           /\ StackOK(path', frames') => StackOK(path, frames)'
  BY DEF DeclaredAliases, IsAlias, Declared, Decl, StackOK, FrameOK, IsGeneric, Follows, ActiveIn, PathNames, IsSeq

\* A step that leaves the marks alone.
LEMMA MarksKept ==
    ASSUME IInv, program' = program, phase' \in Phases, doing'.how \in Hows,
           marks' = marks, memo' = memo,
           StackOK(path', frames'), AliasNames(frames') = AliasNames(frames)
    PROVE  IInv'
<1>1. StackOK(path, frames)'
  BY SameProgram
<1>2. MarksOK'
  <2>1. DeclaredAliases' = DeclaredAliases
    BY SameProgram
  <2>2. AliasNames(frames)' = AliasNames(frames)
    BY DEF AliasNames
  <2> QED
    BY <2>1, <2>2 DEF IInv, MarksOK
<1> QED
  BY <1>1, <1>2 DEF IInv, Phases, Hows

\* Steps that call nothing and return from nothing.
LEMMA StandingSteps ==
    ASSUME IInv,
           \/ StructsResolved \/ ResolveAlias \/ AliasResolved \/ AliasesResolved \/ Finish \/ ReportError
           \/ Naming \/ NameResolved \/ NameVisiting \/ NameBareGeneric \/ ExpandWrongNumber \/ ExpandOnPath
           \/ UNCHANGED vars
    PROVE  IInv'
<1>1. /\ program' = program /\ marks' = marks /\ memo' = memo /\ path' = path /\ frames' = frames
      /\ phase' \in Phases
  BY DEF IInv, Phases, StructsResolved, ResolveAlias, AliasResolved, AliasesResolved, Finish, ReportError,
         Naming, NameParameter, NameBuiltin, NameStruct, NameUnknown, NameResolved, NameVisiting,
         NameBareGeneric, ExpandWrongNumber, ExpandOnPath, Fixed, Guards, vars
<1>2. doing'.how \in Hows
  BY DEF IInv, Hows, StructsResolved, ResolveAlias, AliasResolved, AliasesResolved, Finish, ReportError,
         Naming, NameParameter, NameBuiltin, NameStruct, NameUnknown, NameResolved, NameVisiting,
         NameBareGeneric, ExpandWrongNumber, ExpandOnPath, Fixed, Guards, vars,
         Ask, Answer, Fail, GoOn, CycleTo
<1>3. StackOK(path', frames') /\ AliasNames(frames') = AliasNames(frames)
  BY <1>1 DEF IInv
<1> QED
  BY <1>1, <1>2, <1>3, MarksKept

\* Calls of what resolves no alias.
LEMMA CallingSteps ==
    ASSUME IInv, ResolveStruct \/ ResolveInstance \/ ApplyBase
    PROVE  IInv'
<1>1. /\ program' = program /\ marks' = marks /\ memo' = memo /\ path' = path /\ phase' = phase
      /\ doing'.how \in Hows
  BY DEF IInv, Hows, ResolveStruct, ResolveInstance, ApplyBase, Fixed, Guards, Ask
<1>2. frames' = frames \/ \E f : frames' = <<f>> \o frames /\ FrameOK(f) /\ f.of \notin ActiveKinds
  <2>1. \A name, scope : LET f == FieldsFrame(name, scope) IN FrameOK(f) /\ f.of \notin ActiveKinds
    BY DEF FieldsFrame, FrameOK, ActiveKinds, Lists
  <2>2. \A args : LET f == BaseFrame(args) IN FrameOK(f) /\ f.of \notin ActiveKinds
    BY DEF BaseFrame, FrameOK, ActiveKinds, Lists
  <2>3. \A f : frames = <<>> => <<f>> = <<f>> \o frames
    OBVIOUS
  <2>4. CASE ResolveStruct
    BY <2>1, <2>3, <2>4 DEF ResolveStruct, Idle
  <2>5. CASE ResolveInstance
    BY <2>1, <2>3, <2>5 DEF ResolveInstance, Idle
  <2>6. CASE ApplyBase
    BY <2>2, <2>6 DEF ApplyBase
  <2> QED
    BY <2>4, <2>5, <2>6
<1>3. StackOK(path', frames') /\ AliasNames(frames') = AliasNames(frames)
  BY <1>1, <1>2, CallOther DEF IInv
<1>4. phase' \in Phases
  BY <1>1 DEF IInv
<1> QED
  BY <1>1, <1>3, <1>4, MarksKept

\* The innermost function is as any other.
LEMMA InnermostOK ==
    ASSUME NEW p, NEW fs, StackOK(p, fs), fs # <<>>
    PROVE  FrameOK(Head(fs))
<1>1. IsSeq(fs)
  BY DEF StackOK
<1>2. Head(fs) = fs[1] /\ 1 \in DOMAIN fs
  BY <1>1, PopFacts
<1> QED
  BY <1>2 DEF StackOK

LEMMA EditedFrameOK ==
    ASSUME NEW f, FrameOK(f), f.of \in Lists, NEW x
    PROVE  /\ FrameOK([f EXCEPT !.todo = x]) /\ [f EXCEPT !.todo = x].of \notin ActiveKinds
           /\ FrameOK([f EXCEPT !.done = x]) /\ [f EXCEPT !.done = x].of \notin ActiveKinds
<1>1. [f EXCEPT !.todo = x].of = f.of /\ DOMAIN [f EXCEPT !.todo = x] = DOMAIN f
  BY DEF FrameOK
<1>2. [f EXCEPT !.done = x].of = f.of /\ DOMAIN [f EXCEPT !.done = x] = DOMAIN f
  BY DEF FrameOK
<1> QED
  BY <1>1, <1>2 DEF FrameOK, ActiveKinds, Lists

\* Steps of the innermost function, when it resolves no alias: it goes on, or
\* returns, or another takes its place.
LEMMA InnerSteps ==
    ASSUME IInv, ApplyStruct \/ ApplyOther \/ Listing
    PROVE  IInv'
<1>1. /\ program' = program /\ marks' = marks /\ memo' = memo /\ path' = path /\ phase' = phase
  BY DEF ApplyStruct, ApplyOther, Listing, AskNext, TakeNext, FieldsDone, FailFields, StructArgsDone,
         AliasArgsDone, FailCaller, Fixed, Guards
<1>2. doing'.how \in Hows
  <2>1. CASE ApplyStruct \/ ApplyOther
    BY <2>1 DEF Hows, ApplyStruct, ApplyOther, GoOn, Fail
  <2>2. CASE AskNext \/ TakeNext \/ StructArgsDone
    <3>1. doing' = Ask(Head(Innermost.todo)) \/ doing' = GoOn
          \/ doing' = Answer(StructType(Innermost.name, Innermost.done))
      BY <2>2 DEF AskNext, TakeNext, StructArgsDone
    <3> QED
      BY <3>1 DEF Hows, Ask, GoOn, Answer
  <2>3. CASE FieldsDone \/ FailFields \/ FailCaller
    BY <2>3 DEF IInv, FieldsDone, FailFields, FailCaller
  <2>4. CASE AliasArgsDone
    <3>1. (doing' = Innermost.body /\ Innermost.body.how = "fail") \/ doing'.how = "answer"
      BY <2>4 DEF AliasArgsDone, Answer
    <3> QED
      BY <3>1 DEF Hows
  <2> QED
    BY <2>1, <2>2, <2>3, <2>4 DEF Listing
<1>3. frames # <<>> /\ Head(frames).of \in {"base"} \cup Lists
  BY DEF ApplyStruct, ApplyOther, Listing, AskNext, TakeNext, FieldsDone, FailFields, StructArgsDone,
         AliasArgsDone, FailCaller, At, Innermost, Lists
<1>4. Head(frames).of \notin ActiveKinds
  BY <1>3 DEF ActiveKinds, Lists
<1>5. FrameOK(Head(frames))
  BY <1>3, InnermostOK DEF IInv
<1>6. frames' = Tail(frames) \/ \E f : frames' = <<f>> \o Tail(frames) /\ FrameOK(f) /\ f.of \notin ActiveKinds
  <2>1. CASE ApplyStruct
    <3>1. \A name, args : LET f == StructArgs(name, args) IN FrameOK(f) /\ f.of \notin ActiveKinds
      BY DEF StructArgs, FrameOK, ActiveKinds, Lists
    <3> QED
      BY <2>1, <3>1 DEF ApplyStruct, Under, Rest
  <2>2. CASE AskNext
    <3>1. Head(frames).of \in Lists
      BY <2>2 DEF AskNext, At, Innermost
    <3>2. frames' = <<[Head(frames) EXCEPT !.todo = Tail(@)]>> \o Tail(frames)
      BY <2>2 DEF AskNext, Under, Rest, Innermost
    <3> QED
      BY <1>5, <3>1, <3>2, EditedFrameOK
  <2>3. CASE TakeNext
    <3>1. Head(frames).of \in Lists
      BY <2>3 DEF TakeNext, At, Innermost
    <3>2. frames' = <<[Head(frames) EXCEPT !.done = Append(@, doing.what)]>> \o Tail(frames)
      BY <2>3 DEF TakeNext, Under, Rest, Innermost
    <3> QED
      BY <1>5, <3>1, <3>2, EditedFrameOK
  <2>4. CASE ApplyOther \/ FieldsDone \/ FailFields \/ StructArgsDone \/ AliasArgsDone \/ FailCaller
    BY <2>4 DEF ApplyOther, FieldsDone, FailFields, StructArgsDone, AliasArgsDone, FailCaller, Rest
  <2> QED
    BY <2>1, <2>2, <2>3, <2>4 DEF Listing
<1>7. StackOK(path, Tail(frames)) /\ AliasNames(Tail(frames)) = AliasNames(frames)
  BY <1>3, <1>4, ReturnOther DEF IInv
<1>8. StackOK(path', frames') /\ AliasNames(frames') = AliasNames(frames)
  BY <1>1, <1>6, <1>7, CallOther
<1>9. phase' \in Phases
  BY <1>1 DEF IInv
<1> QED
  BY <1>1, <1>2, <1>8, <1>9, MarksKept

\* Coming to a generic alias, and leaving it for its arguments.
LEMMA ExpandingSteps ==
    ASSUME IInv, Expand \/ Expanded
    PROVE  IInv'
<1>1. /\ program' = program /\ marks' = marks /\ memo' = memo /\ phase' = phase /\ phase' \in Phases
      /\ doing'.how \in Hows
  BY DEF IInv, Hows, Expand, Expanded, Fixed, Ask, GoOn
<1>2. CASE Expand
  <2> DEFINE f == ExpandFrame(Asked.name, Arguments)
  <2>1. Asked.name \in DeclaredAliases /\ IsGeneric(Asked.name)
    BY <1>2 DEF Expand, AppliesAlias, IsAlias, Declared, DeclaredAliases
  <2>2. FrameOK(f) /\ f.of \in ActiveKinds /\ f.name = Asked.name /\ f.of # "alias"
    BY <2>1 DEF ExpandFrame, FrameOK, ActiveKinds
  <2>3. frames' = <<f>> \o frames /\ path' = <<f.name>> \o path
    BY <1>2, <2>2 DEF Expand
  <2>4. f.name \notin PathNames(path)
    BY <1>2, <2>2 DEF Expand, OnPath, PathNames
  <2> HIDE DEF f
  <2>5. StackOK(path', frames') /\ AliasNames(frames') = AliasNames(frames)
    BY <2>2, <2>3, <2>4, CallActive DEF IInv
  <2> QED
    BY <1>1, <2>5, MarksKept
<1>3. CASE Expanded
  <2> DEFINE f == AliasArgs(Innermost.name, Innermost.todo, doing)
  <2>1. FrameOK(f) /\ f.of \notin ActiveKinds
    BY DEF AliasArgs, FrameOK, ActiveKinds, Lists
  <2>2. frames' = <<f>> \o Tail(frames) /\ path' = Tail(path)
    BY <1>3 DEF Expanded, Under, Rest
  <2>3. frames # <<>> /\ Head(frames).of = "expand"
    BY <1>3 DEF Expanded, At, Innermost
  <2> HIDE DEF f
  <2>4. StackOK(Tail(path), Tail(frames)) /\ AliasNames(Tail(frames)) = AliasNames(frames)
    BY <2>3, ReturnActive DEF IInv, ActiveKinds
  <2>5. StackOK(path', frames') /\ AliasNames(frames') = AliasNames(frames)
    BY <2>1, <2>2, <2>4, CallOther
  <2> QED
    BY <1>1, <2>5, MarksKept
<1> QED
  BY <1>2, <1>3

\* Coming to a plain alias, which is unvisited, so that no function is at it:
\* one that expands is at a generic alias.
LEMMA VisitStep ==
    ASSUME IInv, VisitAlias
    PROVE  IInv'
<1> DEFINE name == Asked.name
           f    == AliasFrame(name)
<1>1. /\ program' = program /\ memo' = memo /\ phase' = phase /\ phase' \in Phases /\ doing'.how \in Hows
  BY DEF IInv, Hows, VisitAlias, Fixed, Ask
<1>2. name \in DeclaredAliases /\ ~IsGeneric(name) /\ marks[name] = "unvisited"
  BY DEF VisitAlias, NamesAlias, IsAlias, Declared, DeclaredAliases
<1>3. FrameOK(f) /\ f.of = "alias" /\ f.name = name
  BY <1>2 DEF AliasFrame, FrameOK, ActiveKinds
<1>4. frames' = <<f>> \o frames /\ path' = <<f.name>> \o path /\ marks' = [marks EXCEPT ![name] = "visiting"]
  BY <1>3 DEF VisitAlias
<1> HIDE DEF f, name
<1>5. name \notin PathNames(path)
  <2> SUFFICES ASSUME name \in PathNames(path) PROVE FALSE
    OBVIOUS
  <2>1. PICK k \in ActiveIn(frames) : frames[k].name = name
    BY DEF IInv, StackOK, Follows
  <2>2. k \in DOMAIN frames /\ frames[k].of \in ActiveKinds
    BY DEF ActiveIn, ActiveKinds
  <2>3. frames[k].of # "expand"
    BY <1>2, <2>1, <2>2 DEF IInv, StackOK, FrameOK
  <2>4. name \in AliasNames(frames)
    BY <2>1, <2>2, <2>3 DEF AliasNames, ActiveKinds
  <2> QED
    BY <1>2, <2>4 DEF IInv, MarksOK
<1>6. StackOK(path', frames') /\ AliasNames(frames') = AliasNames(frames) \cup {name}
  BY <1>3, <1>4, <1>5, CallActive DEF IInv, ActiveKinds
<1>7. MarksOK'
  <2>1. marks' \in [DeclaredAliases -> {"unvisited", "visiting", "resolved"}]
    BY <1>2, <1>4 DEF IInv, MarksOK
  <2>2. {n \in DOMAIN marks' : marks'[n] = "resolved"} = {n \in DOMAIN marks : marks[n] = "resolved"}
    BY <1>2, <1>4 DEF IInv, MarksOK
  <2>3. {n \in DOMAIN marks' : marks'[n] = "visiting"} = {n \in DOMAIN marks : marks[n] = "visiting"} \cup {name}
    BY <1>2, <1>4 DEF IInv, MarksOK
  <2>4. AliasNames(frames)' = AliasNames(frames')
    BY DEF AliasNames
  <2> QED
    BY <1>1, <1>6, <2>1, <2>2, <2>3, <2>4, SameProgram DEF IInv, MarksOK
<1>8. StackOK(path, frames)'
  BY <1>1, <1>6, SameProgram
<1> QED
  BY <1>1, <1>7, <1>8 DEF IInv, Phases, Hows

\* Leaving a plain alias.
LEMMA LeaveSteps ==
    ASSUME IInv, LeaveAlias \/ FailAlias
    PROVE  IInv'
<1> DEFINE name == Head(frames).name
<1>1. /\ program' = program /\ phase' = phase /\ phase' \in Phases /\ doing'.how \in Hows
  BY DEF IInv, Hows, LeaveAlias, LeaveAliasAs, FailAlias, Fixed, Answer
<1>2. frames # <<>> /\ Head(frames).of = "alias" /\ frames' = Tail(frames) /\ path' = Tail(path)
  BY DEF LeaveAlias, LeaveAliasAs, FailAlias, At, Innermost, Rest
<1>3. /\ StackOK(path', frames') /\ AliasNames(frames') = AliasNames(frames) \ {name}
      /\ name \in DeclaredAliases
  BY <1>2, ReturnActive DEF IInv, ActiveKinds
<1>4. name \in AliasNames(frames)
  <2>1. IsSeq(frames)
    BY DEF IInv, StackOK
  <2>2. Head(frames) = frames[1] /\ 1 \in DOMAIN frames
    BY <1>2, <2>1, PopFacts
  <2> QED
    BY <1>2, <2>2 DEF AliasNames
<1>5. marks[name] = "visiting" /\ name \in DOMAIN marks
  BY <1>4 DEF IInv, MarksOK
<1>6. \/ /\ marks' = [marks EXCEPT ![name] = "resolved"]
         /\ DOMAIN memo' = DOMAIN memo \cup {name}
      \/ /\ marks' = [marks EXCEPT ![name] = "unvisited"]
         /\ memo' = memo
  BY DEF LeaveAlias, LeaveAliasAs, FailAlias, Innermost
<1> HIDE DEF name
<1>7. MarksOK'
  <2>1. marks' \in [DeclaredAliases -> {"unvisited", "visiting", "resolved"}]
    BY <1>6 DEF IInv, MarksOK
  <2>2. DOMAIN memo' = {n \in DOMAIN marks' : marks'[n] = "resolved"}
    BY <1>5, <1>6 DEF IInv, MarksOK
  <2>3. {n \in DOMAIN marks' : marks'[n] = "visiting"} = {n \in DOMAIN marks : marks[n] = "visiting"} \ {name}
    BY <1>5, <1>6 DEF IInv, MarksOK
  <2>4. AliasNames(frames)' = AliasNames(frames')
    BY DEF AliasNames
  <2> QED
    BY <1>1, <1>3, <2>1, <2>2, <2>3, <2>4, SameProgram DEF IInv, MarksOK
<1>8. StackOK(path, frames)'
  BY <1>1, <1>3, SameProgram
<1> QED
  BY <1>1, <1>7, <1>8 DEF IInv, Phases, Hows

LEMMA IInvInit == Init => IInv
<1> SUFFICES ASSUME Init PROVE IInv
  OBVIOUS
<1>1. /\ phase = "structs" /\ frames = <<>> /\ doing = GoOn /\ path = <<>> /\ memo = NoEnv
      /\ marks = [name \in DeclaredAliases |-> "unvisited"]
  BY DEF Init, InitFor, DeclaredAliases
<1>2. StackOK(path, frames)
  BY <1>1 DEF StackOK, IsSeq, Follows, ActiveIn, PathNames
<1>3. MarksOK
  BY <1>1 DEF MarksOK, AliasNames, NoEnv
<1> QED
  BY <1>1, <1>2, <1>3 DEF IInv, Phases, Hows, GoOn

LEMMA IInvNext == IInv /\ [Next]_vars => IInv'
<1> SUFFICES ASSUME IInv, [Next]_vars PROVE IInv'
  OBVIOUS
<1>1. CASE Driving
  BY <1>1, StandingSteps, CallingSteps DEF Driving
<1>2. CASE Naming
  BY <1>2, StandingSteps
<1>3. CASE Aliasing
  BY <1>3, StandingSteps, VisitStep, LeaveSteps DEF Aliasing
<1>4. CASE Applying
  BY <1>4, StandingSteps, ExpandingSteps, CallingSteps, InnerSteps DEF Applying
<1>5. CASE Listing
  BY <1>5, InnerSteps
<1>6. CASE Stopped \/ UNCHANGED vars
  BY <1>6, StandingSteps DEF Stopped
<1> QED
  BY <1>1, <1>2, <1>3, <1>4, <1>5, <1>6 DEF Next, Resolving

---------------------------------------------------------------------------
\* Whatever the program declares, the resolver's variables keep to their
\* kinds, and an alias has a type exactly when it is marked resolved
\* (AliasResolver of aliases.rs).
THEOREM TypesTypeCorrect == Spec => []TypeOK
<1>1. Init => IInv
  BY IInvInit
<1>2. IInv /\ [Next]_vars => IInv'
  BY IInvNext
<1>3. IInv => TypeOK
  BY IInvImplies
<1> QED
  BY <1>1, <1>2, <1>3, PTL DEF Spec

\* Whatever the program declares, the path of aliases and the marks are at
\* every moment those of the aliases being resolved (`stack` and `states` of
\* AliasResolver), however the ones before were left.
THEOREM TypesPathIsActive == Spec => []PathIsActive
<1>1. Init => IInv
  BY IInvInit
<1>2. IInv /\ [Next]_vars => IInv'
  BY IInvNext
<1>3. IInv => PathIsActive
  BY IInvImplies
<1> QED
  BY <1>1, <1>2, <1>3, PTL DEF Spec

---------------------------------------------------------------------------
(* Constants.                                                              *)

Stages     == {"folding", "folded", "valuing", "valued", "refused"}
Readings   == {"on", "want", "have", "error"}
ReadBy(name)  == {Const(name).operands[k] : k \in DOMAIN Const(name).operands}
HomeOf(name)  == Const(name).home
Position      == Len(constants.order) - Len(queue)

\* An evaluation reads what its constant does.
EvaluationOK(e) ==
    /\ {"name", "reads", "got", "outer"} \subseteq DOMAIN e
    /\ IsConst(e.name) /\ e.reads \in Seq(ReadBy(e.name))

\* Each evaluation is by itself, and for what the next one reads.
Chain(es) ==
    /\ IsSeq(es)
    /\ \A k \in DOMAIN es : EvaluationOK(es[k])
    /\ \A j, k \in DOMAIN es : es[j].name = es[k].name => j = k
    /\ \A k \in DOMAIN es : k > 1 => es[k].reads # <<>> /\ Head(es[k].reads).name = es[k - 1].name

Evaluating(es) == {es[k].name : k \in DOMAIN es}

ConstMarksOK ==
    /\ constMarks \in [DOMAIN constants.decl -> {"unvisited", "visiting", "resolved"}]
    /\ DOMAIN constMemo = {name \in DOMAIN constMarks : constMarks[name] = "resolved"}
    /\ {name \in DOMAIN constMarks : constMarks[name] = "visiting"} = Evaluating(evaluations)

\* What is wanted, or given, is the next thing the innermost evaluation
\* reads, or the constant that is come to in order.
Awaited ==
    /\ reading.how \in {"want", "have"} /\ evaluations # <<>> => Head(evaluations).reads # <<>>
    /\ reading.how = "want" /\ evaluations # <<>> => Head(Head(evaluations).reads).name = reading.what
    /\ reading.how = "want" /\ evaluations = <<>> => queue # <<>> /\ reading.what = Head(queue)
    /\ reading.how = "have" /\ evaluations = <<>> => queue # <<>> /\ constMarks[Head(queue)] = "resolved"
    /\ evaluations # <<>> => queue # <<>> /\ evaluations[Len(evaluations)].name = Head(queue)
    /\ stage \in {"folded", "valued"} => evaluations = <<>> /\ reading.how = "on"

\* The constants before the one come to have their values.
InTurn ==
    /\ queue \in Seq(DOMAIN constants.decl) /\ Len(queue) <= Len(constants.order)
    /\ \A i \in DOMAIN queue : queue[i] = constants.order[Position + i]
    /\ stage = "valuing" => \A i \in 1..Position : constMarks[constants.order[i]] = "resolved"

\* While constants are valued, all evaluations are of one file's, if files
\* import before they declare.
AtHome ==
    stage = "valuing" /\ ImportedFirst =>
        /\ \A k \in DOMAIN evaluations : HomeOf(evaluations[k].name) = HomeOf(Head(queue))
        /\ \A k \in DOMAIN evaluations : k < Len(evaluations) => evaluations[k].outer = HomeOf(Head(queue))
        /\ evaluations # <<>> => constModule = HomeOf(Head(queue))
        /\ reading.how = "error" => queue # <<>> /\ arose = HomeOf(Head(queue))

Blamed == (ImportedFirst => BlameIsHome) /\ (stage # "refused" => constBlame = NoModule)

ConstInv ==
    /\ stage \in Stages /\ reading.how \in Readings /\ constants \in ConstPrograms
    /\ Chain(evaluations) /\ ConstMarksOK /\ Awaited /\ InTurn /\ AtHome /\ CirclesAreReal /\ Blamed

---------------------------------------------------------------------------
(* Programs and evaluations.                                               *)

LEMMA ConstShape ==
    ASSUME constants \in ConstPrograms
    PROVE  /\ constants.order \in Seq(DOMAIN constants.decl)
           /\ DOMAIN constants.decl = {constants.order[k] : k \in DOMAIN constants.order}
           /\ \A name \in DOMAIN constants.decl : Const(name).operands \in Seq(Operands)
BY ConstProgramAssumption DEF Const

\* In either stage, an evaluation reads its constant's operands.
LEMMA ReadsAreOperands ==
    ASSUME constants \in ConstPrograms, NEW name, IsConst(name)
    PROVE  Reads(name) \in Seq(ReadBy(name))
<1> DEFINE ops == Const(name).operands
           n   == Len(ops)
           e   == Reversed(ops)
           due == {o \in {ops[k] : k \in DOMAIN ops} : Foldable(o)}
           K   == {k \in 1..n : e[k] \in due}
           S   == ReadBy(name)
<1>1. ops \in Seq(Operands)
  BY ConstShape DEF IsConst
<1>2. n \in Nat /\ DOMAIN ops = 1..n
  BY <1>1
<1>3. ops \in Seq(S)
  BY <1>1, <1>2 DEF ReadBy
<1>4. e \in [1..n -> S]
  <2>1. \A k \in 1..n : n + 1 - k \in DOMAIN ops
    BY <1>2
  <2> QED BY <2>1 DEF Reversed, ReadBy
<1>5. Selection(e, n, K) \in Seq(S)
  <2> HIDE DEF e, n, S
  <2> QED BY <1>2, <1>4, PlacesChosen
<1>6. FlattenSeq([k \in 1..n |-> IF e[k] \in due THEN <<e[k]>> ELSE <<>>]) = Selection(e, n, K)
  <2>1. [k \in 1..n |-> IF e[k] \in due THEN <<e[k]>> ELSE <<>>] = [k \in 1..n |-> IF k \in K THEN <<e[k]>> ELSE <<>>]
    OBVIOUS
  <2> QED BY <2>1 DEF Selection
<1>7. Reads(name) = IF stage = "folding" THEN Selection(e, n, K) ELSE ops
  BY <1>6 DEF Reads
<1> QED BY <1>3, <1>5, <1>7

\* Coming to a constant that is not being evaluated.
LEMMA ChainPushed ==
    ASSUME NEW es, Chain(es), NEW f, EvaluationOK(f), f.name \notin Evaluating(es),
           es # <<>> => Head(es).reads # <<>> /\ Head(Head(es).reads).name = f.name
    PROVE  /\ Chain(<<f>> \o es)
           /\ Evaluating(<<f>> \o es) = Evaluating(es) \cup {f.name}
<1> DEFINE gs == <<f>> \o es
<1>1. /\ IsSeq(gs) /\ DOMAIN gs = 1..(Len(es) + 1) /\ gs[1] = f
      /\ \A k \in DOMAIN es : gs[k + 1] = es[k]
      /\ DOMAIN es = 1..Len(es) /\ Len(es) \in Nat
  <2>1. IsSeq(es) /\ gs = <<f>> \o es
    BY DEF Chain
  <2>2. IsSeq(gs)
    BY <2>1, PushFacts
  <2> HIDE DEF gs
  <2>3. DOMAIN gs = 1..(Len(es) + 1) /\ gs[1] = f /\ DOMAIN es = 1..Len(es) /\ Len(es) \in Nat
    BY <2>1, PushedFacts
  <2>4. \A k \in DOMAIN es : gs[k + 1] = es[k]
    BY <2>1, PushedFacts
  <2> QED BY <2>2, <2>3, <2>4
<1>2. es # <<>> => Head(es) = es[1] /\ 1 \in DOMAIN es
  BY PopFacts DEF Chain
<1> HIDE DEF gs
<1>3. \A k \in DOMAIN gs : k # 1 => k - 1 \in DOMAIN es /\ gs[k] = es[k - 1] /\ k - 1 >= 1 /\ k \in Nat
  <2> SUFFICES ASSUME NEW k \in DOMAIN gs, k # 1 PROVE k - 1 \in DOMAIN es /\ gs[k] = es[k - 1] /\ k - 1 >= 1 /\ k \in Nat
    OBVIOUS
  <2>1. k \in 1..(Len(es) + 1) /\ k - 1 \in 1..Len(es) /\ (k - 1) + 1 = k
    BY <1>1
  <2> QED BY <1>1, <2>1
<1>4. \A k \in DOMAIN gs : EvaluationOK(gs[k])
  BY <1>1, <1>3 DEF Chain
<1>5. \A j, k \in DOMAIN gs : gs[j].name = gs[k].name => j = k
  <2> SUFFICES ASSUME NEW j \in DOMAIN gs, NEW k \in DOMAIN gs, gs[j].name = gs[k].name PROVE j = k
    OBVIOUS
  <2>1. CASE j = 1 \/ k = 1
    BY <1>1, <1>3, <2>1 DEF Evaluating
  <2>2. CASE j # 1 /\ k # 1
    <3>1. j - 1 = k - 1
      BY <1>3, <2>2 DEF Chain
    <3> QED BY <1>1, <3>1
  <2> QED BY <2>1, <2>2
<1>6. \A k \in DOMAIN gs : k > 1 => gs[k].reads # <<>> /\ Head(gs[k].reads).name = gs[k - 1].name
  <2> SUFFICES ASSUME NEW k \in DOMAIN gs, k > 1 PROVE gs[k].reads # <<>> /\ Head(gs[k].reads).name = gs[k - 1].name
    OBVIOUS
  <2>1. k - 1 \in DOMAIN es /\ gs[k] = es[k - 1] /\ k \in Nat
    BY <1>3
  <2>2. CASE k = 2
    <3>1. es # <<>> /\ gs[k] = es[1] /\ gs[k - 1] = f
      BY <1>1, <2>1, <2>2
    <3> QED BY <1>2, <3>1
  <2>3. CASE k # 2
    <3>1. k - 1 > 1 /\ k - 1 # 1 /\ k - 1 \in DOMAIN gs
      BY <1>1, <2>1, <2>3
    <3>2. gs[k - 1] = es[(k - 1) - 1]
      BY <1>3, <3>1
    <3> QED BY <2>1, <3>1, <3>2 DEF Chain
  <2> QED BY <2>2, <2>3
<1>7. Evaluating(gs) = Evaluating(es) \cup {f.name}
  <2>1. 1 \in DOMAIN gs /\ \A k \in DOMAIN es : k + 1 \in DOMAIN gs /\ gs[k + 1] = es[k]
    BY <1>1
  <2> QED BY <1>1, <1>3, <2>1 DEF Evaluating
<1> QED BY <1>1, <1>4, <1>5, <1>6, <1>7 DEF Chain, gs

\* Leaving the innermost evaluation.
LEMMA ChainPopped ==
    ASSUME NEW es, Chain(es), es # <<>>
    PROVE  /\ Chain(Tail(es))
           /\ Evaluating(Tail(es)) = Evaluating(es) \ {Head(es).name}
           /\ Head(es).name \in Evaluating(es) /\ EvaluationOK(Head(es))
           /\ Tail(es) # <<>> => /\ Head(Tail(es)).reads # <<>> /\ Head(Head(Tail(es)).reads).name = Head(es).name
                                 /\ Tail(es)[Len(Tail(es))] = es[Len(es)] /\ Len(es) > 1
           /\ Tail(es) = <<>> => Head(es) = es[Len(es)]
<1> DEFINE gs == Tail(es)
<1>1. /\ IsSeq(gs) /\ DOMAIN gs = 1..(Len(es) - 1) /\ Len(gs) = Len(es) - 1 /\ Head(es) = es[1]
      /\ \A k \in DOMAIN gs : gs[k] = es[k + 1]
      /\ DOMAIN es = 1..Len(es) /\ Len(es) \in Nat /\ 1 \in DOMAIN es
  BY PopFacts DEF Chain
<1>2. gs # <<>> => Head(gs) = gs[1] /\ 1 \in DOMAIN gs /\ DOMAIN gs = 1..Len(gs) /\ Len(gs) \in Nat
  BY <1>1, PopFacts
<1>3. gs = <<>> => DOMAIN gs = {}
  OBVIOUS
<1> HIDE DEF gs
<1>4. \A k \in DOMAIN gs : k + 1 \in DOMAIN es /\ gs[k] = es[k + 1] /\ k \in Nat /\ k + 1 > 1 /\ (k + 1) - 1 = k
  BY <1>1
<1>5. \A k \in DOMAIN es : k # 1 => k - 1 \in DOMAIN gs /\ gs[k - 1] = es[k]
  <2> SUFFICES ASSUME NEW k \in DOMAIN es, k # 1 PROVE k - 1 \in DOMAIN gs /\ gs[k - 1] = es[k]
    OBVIOUS
  <2>1. k - 1 \in DOMAIN gs /\ gs[k - 1] = es[(k - 1) + 1] /\ (k - 1) + 1 = k
    BY <1>1
  <2> QED BY <2>1
<1>6. \A k \in DOMAIN gs : EvaluationOK(gs[k])
  BY <1>4 DEF Chain
<1>7. \A j, k \in DOMAIN gs : gs[j].name = gs[k].name => j = k
  <2> SUFFICES ASSUME NEW j \in DOMAIN gs, NEW k \in DOMAIN gs, gs[j].name = gs[k].name PROVE j = k
    OBVIOUS
  <2>1. j + 1 = k + 1
    BY <1>4 DEF Chain
  <2> QED BY <1>4, <2>1
<1>8. \A k \in DOMAIN gs : k > 1 => gs[k].reads # <<>> /\ Head(gs[k].reads).name = gs[k - 1].name
  <2> SUFFICES ASSUME NEW k \in DOMAIN gs, k > 1 PROVE gs[k].reads # <<>> /\ Head(gs[k].reads).name = gs[k - 1].name
    OBVIOUS
  <2>1. gs[k] = es[k + 1] /\ k - 1 \in DOMAIN gs /\ (k - 1) + 1 = (k + 1) - 1
    BY <1>1
  <2>2. gs[k - 1] = es[(k + 1) - 1]
    BY <1>1, <2>1
  <2> QED BY <1>4, <2>1, <2>2 DEF Chain
<1>9. Evaluating(gs) = Evaluating(es) \ {Head(es).name} /\ Head(es).name \in Evaluating(es)
  <2>1. \A k \in DOMAIN es : es[k].name = es[1].name => k = 1
    BY <1>1 DEF Chain
  <2>2. \A k \in DOMAIN gs : k + 1 # 1
    BY <1>4
  <2>3. ASSUME NEW k \in DOMAIN gs PROVE gs[k].name \in Evaluating(es) \ {es[1].name}
    BY <1>4, <2>1, <2>2 DEF Evaluating
  <2>4. ASSUME NEW k \in DOMAIN es, es[k].name # es[1].name PROVE es[k].name \in Evaluating(gs)
    <3>1. k # 1
      BY <2>4
    <3> QED BY <1>5, <3>1 DEF Evaluating
  <2>5. Evaluating(gs) \subseteq Evaluating(es) \ {es[1].name}
    BY <2>3 DEF Evaluating
  <2>6. Evaluating(es) \ {es[1].name} \subseteq Evaluating(gs)
    BY <2>4 DEF Evaluating
  <2>7. es[1].name \in Evaluating(es)
    BY <1>1 DEF Evaluating
  <2> QED BY <1>1, <2>5, <2>6, <2>7
<1>10. gs # <<>> => Len(gs) = Len(es) - 1 /\ gs[Len(gs)] = es[Len(es)] /\ Len(es) > 1
  <2> SUFFICES ASSUME gs # <<>> PROVE Len(gs) = Len(es) - 1 /\ gs[Len(gs)] = es[Len(es)] /\ Len(es) > 1
    OBVIOUS
  <2>1. Len(gs) = Len(es) - 1 /\ Len(gs) >= 1
    BY <1>1, <1>2
  <2>2. gs[Len(gs)] = es[Len(gs) + 1] /\ Len(gs) + 1 = Len(es)
    BY <1>1, <1>2, <2>1
  <2> QED BY <1>1, <2>1, <2>2
<1>11. gs # <<>> => Head(gs).reads # <<>> /\ Head(Head(gs).reads).name = Head(es).name
  <2> SUFFICES ASSUME gs # <<>> PROVE Head(gs).reads # <<>> /\ Head(Head(gs).reads).name = Head(es).name
    OBVIOUS
  <2>1. Head(gs) = es[2] /\ 2 \in DOMAIN es
    BY <1>2, <1>4
  <2>2. es[2].reads # <<>> /\ Head(es[2].reads).name = es[2 - 1].name
    BY <2>1 DEF Chain
  <2> QED BY <1>1, <2>1, <2>2
<1>12. gs = <<>> => Head(es) = es[Len(es)]
  BY <1>1, <1>3
<1>13. EvaluationOK(Head(es))
  BY <1>1 DEF Chain
<1> QED BY <1>1, <1>6, <1>7, <1>8, <1>9, <1>10, <1>11, <1>12, <1>13 DEF Chain, gs

\* Reading on, in the innermost evaluation.
LEMMA ChainEdited ==
    ASSUME NEW es, Chain(es), es # <<>>, NEW f, EvaluationOK(f), f.name = Head(es).name
    PROVE  /\ Chain(<<f>> \o Tail(es))
           /\ Evaluating(<<f>> \o Tail(es)) = Evaluating(es)
           /\ DOMAIN (<<f>> \o Tail(es)) = DOMAIN es /\ Len(<<f>> \o Tail(es)) = Len(es) /\ <<f>> \o Tail(es) # <<>>
           /\ \A k \in DOMAIN es : (<<f>> \o Tail(es))[k] = IF k = 1 THEN f ELSE es[k]
           /\ DOMAIN es = 1..Len(es) /\ Len(es) \in Nat /\ Len(es) > 0 /\ Head(es) = es[1]
<1> DEFINE hs == Tail(es)
           gs == <<f>> \o hs
<1>1. /\ Chain(hs) /\ Evaluating(hs) = Evaluating(es) \ {f.name} /\ f.name \in Evaluating(es)
      /\ hs # <<>> => Head(hs).reads # <<>> /\ Head(Head(hs).reads).name = f.name
  BY ChainPopped
<1>2. f.name \notin Evaluating(hs)
  BY <1>1
<1>3. /\ IsSeq(hs) /\ DOMAIN hs = 1..(Len(es) - 1) /\ \A k \in DOMAIN hs : hs[k] = es[k + 1]
      /\ DOMAIN es = 1..Len(es) /\ Len(es) \in Nat /\ 1 \in DOMAIN es /\ Len(hs) = Len(es) - 1 /\ Head(es) = es[1]
  BY PopFacts DEF Chain
<1> HIDE DEF hs
<1>4. Chain(gs) /\ Evaluating(gs) = Evaluating(hs) \cup {f.name}
  BY <1>1, <1>2, ChainPushed
<1>5. /\ DOMAIN gs = 1..(Len(hs) + 1) /\ gs[1] = f /\ Len(gs) = Len(hs) + 1
      /\ \A k \in DOMAIN hs : gs[k + 1] = hs[k]
  <2>1. IsSeq(hs)
    BY <1>3
  <2> QED BY <2>1, PushFacts
<1> HIDE DEF gs
<1>6. DOMAIN gs = DOMAIN es /\ Len(gs) = Len(es) /\ Len(es) > 0
  BY <1>3, <1>5
<1>7. gs # <<>>
  BY <1>3, <1>6
<1>8. ASSUME NEW k \in DOMAIN es PROVE gs[k] = IF k = 1 THEN f ELSE es[k]
  <2>1. CASE k = 1
    BY <1>5, <2>1
  <2>2. CASE k # 1
    <3>1. k - 1 \in DOMAIN hs /\ (k - 1) + 1 = k
      BY <1>3, <2>2
    <3>2. gs[(k - 1) + 1] = hs[k - 1] /\ hs[k - 1] = es[(k - 1) + 1]
      BY <1>3, <1>5, <3>1
    <3> QED BY <2>2, <3>1, <3>2
  <2> QED BY <2>1, <2>2
<1>9. Evaluating(gs) = Evaluating(es)
  BY <1>1, <1>4
<1> QED BY <1>3, <1>4, <1>6, <1>7, <1>8, <1>9 DEF gs, hs

---------------------------------------------------------------------------
(* What steps that leave a part of the state alone keep.                   *)

LEMMA SameConstants ==
    ASSUME constants' = constants
    PROVE  \A name : Const(name)' = Const(name)
BY DEF Const

LEMMA ImportedFirstKept ==
    ASSUME constants' = constants
    PROVE  ImportedFirst' <=> ImportedFirst
BY DEF ImportedFirst, Const

LEMMA ChainPrimed ==
    ASSUME constants' = constants, Chain(evaluations')
    PROVE  Chain(evaluations)'
<1>1. \A e : EvaluationOK(e)' <=> EvaluationOK(e)
  BY DEF EvaluationOK, IsConst, ReadBy, Const
<1>2. \A k \in DOMAIN evaluations' : EvaluationOK(evaluations[k])'
  BY <1>1 DEF Chain
<1> QED BY <1>2 DEF Chain

LEMMA ChainKept ==
    ASSUME Chain(evaluations), constants' = constants, evaluations' = evaluations
    PROVE  Chain(evaluations)'
<1>1. Chain(evaluations')
  OBVIOUS
<1> QED BY <1>1, ChainPrimed

LEMMA ConstMarksKept ==
    ASSUME ConstMarksOK, UNCHANGED <<constants, constMarks, constMemo>>, Evaluating(evaluations') = Evaluating(evaluations)
    PROVE  ConstMarksOK'
<1>1. Evaluating(evaluations)' = Evaluating(evaluations')
  BY DEF Evaluating
<1> QED BY <1>1 DEF ConstMarksOK

LEMMA InTurnKept ==
    ASSUME InTurn, UNCHANGED <<constants, queue>>, stage' = "valuing" => stage = "valuing",
           \A name \in DOMAIN constants.decl : constMarks[name] = "resolved" => constMarks'[name] = "resolved",
           constants.order \in Seq(DOMAIN constants.decl)
    PROVE  InTurn'
<1>1. Position' = Position
  BY DEF Position
<1>2. Len(queue) \in Nat /\ Len(constants.order) \in Nat
  BY DEF InTurn
<1>3. \A i \in 1..Position : constants.order[i] \in DOMAIN constants.decl
  BY <1>2 DEF Position
<1> QED BY <1>1, <1>3 DEF InTurn

LEMMA CirclesKept ==
    ASSUME CirclesAreReal, constants' = constants,
           reading' = reading \/ reading'.how # "error" \/ reading'.what = <<>>
    PROVE  CirclesAreReal'
BY DEF CirclesAreReal, Const

LEMMA AtHomeKept ==
    ASSUME AtHome, Awaited, UNCHANGED <<constants, queue, evaluations, constModule>>,
           stage' = "valuing" => stage = "valuing",
           reading'.how = "error" => (reading.how = "error" /\ arose' = arose) \/ (arose' = constModule /\ evaluations # <<>>)
    PROVE  AtHome'
BY ImportedFirstKept DEF AtHome, Awaited, HomeOf, Const

LEMMA BlamedKept ==
    ASSUME Blamed, constants' = constants, stage # "refused", stage' # "refused", constBlame' = constBlame
    PROVE  Blamed'
BY DEF Blamed, BlameIsHome

\* A step that leaves evaluations and what they came to alone.
LEMMA NoneEvaluated ==
    ASSUME ConstInv, UNCHANGED <<constants, evaluations, constMarks, constMemo>>
    PROVE  /\ Chain(evaluations)' /\ ConstMarksOK' /\ constants' \in ConstPrograms
           /\ constants.order \in Seq(DOMAIN constants.decl)
<1>1. Evaluating(evaluations') = Evaluating(evaluations)
  OBVIOUS
<1> QED BY <1>1, ChainKept, ConstMarksKept, ConstShape DEF ConstInv

---------------------------------------------------------------------------
(* Steps of the evaluators.                                                *)

LEMMA UntouchedStep ==
    ASSUME ConstInv, UNCHANGED constVars
    PROVE  ConstInv'
<1>1. UNCHANGED <<constants, stage, queue, evaluations, reading, constMarks, constMemo, constModule, constBlame, arose>>
  BY DEF constVars
<1>2. Chain(evaluations)' /\ ConstMarksOK' /\ constants' \in ConstPrograms /\ constants.order \in Seq(DOMAIN constants.decl)
  BY <1>1, NoneEvaluated
<1>3. Awaited'
  BY <1>1 DEF ConstInv, Awaited
<1>4. InTurn'
  BY <1>1, <1>2, InTurnKept DEF ConstInv
<1>5. AtHome'
  BY <1>1, ImportedFirstKept DEF ConstInv, AtHome, HomeOf, Const
<1>6. CirclesAreReal' /\ Blamed'
  BY <1>1, CirclesKept, ImportedFirstKept DEF ConstInv, Blamed, BlameIsHome
<1> QED BY <1>1, <1>2, <1>3, <1>4, <1>5, <1>6 DEF ConstInv

\* Coming to the next constant in order.
LEMMA TurnSteps ==
    ASSUME ConstInv, EvaluateNext \/ PassOver \/ Evaluated
    PROVE  ConstInv'
<1>1. /\ UNCHANGED <<constants, stage, evaluations, constMarks, constMemo, constModule, constBlame, arose>>
      /\ evaluations = <<>> /\ stage \in {"folding", "valuing"}
      /\ reading'.how \in {"on", "want"}
  BY DEF EvaluateNext, PassOver, Evaluated, InOrder, Positions, Results, Modules, On, Want
<1>2. Chain(evaluations)' /\ ConstMarksOK' /\ constants' \in ConstPrograms /\ constants.order \in Seq(DOMAIN constants.decl)
  BY <1>1, NoneEvaluated
<1>3. Awaited'
  BY <1>1 DEF EvaluateNext, PassOver, Evaluated, Awaited, On, Want, Positions
<1>4. InTurn'
  <2>1. CASE EvaluateNext
    BY <1>1, <1>2, <2>1, InTurnKept DEF ConstInv, EvaluateNext, Positions
  <2>2. CASE PassOver \/ Evaluated
    <3>1. queue # <<>> /\ queue' = Tail(queue) /\ (stage = "valuing" => constMarks[Head(queue)] = "resolved")
      BY <1>1, <2>2 DEF PassOver, Evaluated, Due, ConstInv, Awaited
    <3> DEFINE n == Len(queue)
    <3>2. /\ n \in Nat /\ n > 0 /\ Len(constants.order) \in Nat /\ DOMAIN queue = 1..n
          /\ queue' \in Seq(DOMAIN constants.decl) /\ Len(queue') = n - 1 /\ DOMAIN queue' = 1..(n - 1)
          /\ \A i \in 1..(n - 1) : queue'[i] = queue[i + 1]
          /\ Head(queue) = queue[1]
      BY <1>2, <3>1 DEF ConstInv, InTurn
    <3>3. Position \in Nat /\ Position' = Position + 1
      BY <1>1, <3>2 DEF Position, ConstInv, InTurn
    <3>4. \A i \in DOMAIN queue' : queue'[i] = constants.order[Position' + i]
      <4> SUFFICES ASSUME NEW i \in 1..(n - 1) PROVE queue'[i] = constants.order[Position' + i]
        BY <3>2
      <4>1. i + 1 \in DOMAIN queue /\ Position + (i + 1) = Position' + i
        BY <3>2, <3>3
      <4>2. queue[i + 1] = constants.order[Position + (i + 1)]
        BY <4>1 DEF ConstInv, InTurn
      <4> QED BY <3>2, <4>1, <4>2
    <3>5. stage = "valuing" => \A i \in 1..Position' : constMarks[constants.order[i]] = "resolved"
      <4>1. queue[1] = constants.order[Position + 1]
        BY <3>2 DEF ConstInv, InTurn
      <4> SUFFICES ASSUME stage = "valuing", NEW i \in 1..Position' PROVE constMarks[constants.order[i]] = "resolved"
        OBVIOUS
      <4>2. i \in 1..Position \/ i = Position + 1
        BY <3>3
      <4> QED BY <3>1, <3>2, <4>1, <4>2 DEF ConstInv, InTurn
    <3> QED BY <1>1, <3>2, <3>4, <3>5 DEF InTurn, ConstInv
  <2> QED BY <2>1, <2>2
<1>5. AtHome'
  BY <1>1 DEF AtHome
<1>6. CirclesAreReal' /\ Blamed'
  BY <1>1, CirclesKept, BlamedKept DEF ConstInv
<1> QED BY <1>1, <1>2, <1>3, <1>4, <1>5, <1>6 DEF ConstInv, Readings

\* The end of a stage, well or not.
LEMMA EndSteps ==
    ASSUME ConstInv, AllFolded \/ AllValued \/ ConstError
    PROVE  ConstInv'
<1>1. /\ UNCHANGED <<constants, queue, evaluations, reading, constMarks, constMemo, constModule, arose>>
      /\ evaluations = <<>> /\ stage \in {"folding", "valuing"} /\ stage' \in {"folded", "valued", "refused"}
  BY DEF AllFolded, AllValued, ConstError, InOrder, Results, Modules
<1>2. Chain(evaluations)' /\ ConstMarksOK' /\ constants' \in ConstPrograms /\ constants.order \in Seq(DOMAIN constants.decl)
  BY <1>1, NoneEvaluated
<1>3. Awaited'
  BY <1>1 DEF AllFolded, AllValued, ConstError, Awaited, ConstInv
<1>4. InTurn'
  BY <1>1, <1>2, InTurnKept DEF ConstInv
<1>5. AtHome'
  BY <1>1 DEF AtHome
<1>6. CirclesAreReal'
  BY <1>1, CirclesKept DEF ConstInv
<1>7. Blamed'
  <2>1. CASE AllFolded \/ AllValued
    BY <1>1, <2>1, BlamedKept DEF ConstInv, AllFolded, AllValued, Modules
  <2>2. CASE ConstError
    <3>1. constBlame = NoModule
      BY <1>1 DEF ConstInv, Blamed
    <3>2. stage' = "refused" /\ reading.how = "error"
          /\ constBlame' = IF stage = "valuing" THEN Const(Head(queue)).home ELSE NoModule
      BY <2>2, <3>1 DEF ConstError
    <3>3. stage = "valuing" /\ ImportedFirst => arose = Const(Head(queue)).home
      BY <3>2 DEF ConstInv, AtHome, HomeOf
    <3> QED BY <1>1, <3>2, <3>3, ImportedFirstKept DEF Blamed, BlameIsHome
  <2> QED BY <2>1, <2>2
<1> QED BY <1>1, <1>2, <1>3, <1>4, <1>5, <1>6, <1>7 DEF ConstInv, Stages

\* The second evaluator begins anew.
LEMMA StartValuesStep ==
    ASSUME ConstInv, StartValues
    PROVE  ConstInv'
<1>1. /\ UNCHANGED <<constants, evaluations, reading, constBlame, arose>>
      /\ stage = "folded" /\ stage' = "valuing" /\ queue' = constants.order
      /\ constMemo' = [name \in {} |-> NoValue]
      /\ constMarks' = [name \in DOMAIN constMarks |-> "unvisited"]
  BY DEF StartValues, StartValuesIn
<1>2. evaluations = <<>> /\ reading.how = "on"
  BY <1>1 DEF ConstInv, Awaited
<1>3. constants.order \in Seq(DOMAIN constants.decl) /\ constants' \in ConstPrograms
  BY <1>1, ConstShape DEF ConstInv
<1>4. Chain(evaluations)'
  BY <1>1, ChainKept DEF ConstInv
<1>5. ConstMarksOK'
  BY <1>1, <1>2 DEF ConstInv, ConstMarksOK, Evaluating
<1>6. Awaited' /\ AtHome' /\ CirclesAreReal'
  BY <1>1, <1>2 DEF Awaited, AtHome, CirclesAreReal
<1>7. InTurn'
  <2>1. Position' = 0 /\ Len(constants.order) \in Nat
    BY <1>1, <1>3 DEF Position
  <2>2. \A i \in DOMAIN queue' : queue'[i] = constants.order[Position' + i]
    BY <1>1, <1>3, <2>1
  <2>3. 1..Position' = {}
    BY <2>1
  <2> QED BY <1>1, <1>3, <2>1, <2>2, <2>3 DEF InTurn
<1>8. Blamed'
  BY <1>1, BlamedKept DEF ConstInv
<1> QED BY <1>1, <1>2, <1>3, <1>4, <1>5, <1>6, <1>7, <1>8 DEF ConstInv, Stages, Readings

\* Steps that leave all but what is read next as it is.
LEMMA ReadingStep ==
    ASSUME ConstInv, stage \in {"folding", "valuing"}, reading.how # "error",
           UNCHANGED <<constants, stage, queue, evaluations, constMarks, constMemo, constModule, constBlame>>,
           reading'.how \in Readings, Awaited', CirclesAreReal',
           reading'.how = "error" => arose' = constModule /\ evaluations # <<>>
    PROVE  ConstInv'
<1>1. Chain(evaluations)' /\ ConstMarksOK' /\ constants' \in ConstPrograms /\ constants.order \in Seq(DOMAIN constants.decl)
  BY NoneEvaluated
<1>2. InTurn'
  BY <1>1, InTurnKept DEF ConstInv
<1>3. AtHome'
  BY AtHomeKept DEF ConstInv
<1>4. Blamed'
  BY BlamedKept DEF ConstInv
<1> QED BY <1>1, <1>2, <1>3, <1>4 DEF ConstInv

\* Where an error arises, a constant is being evaluated.
LEMMA ErrorStep ==
    ASSUME ConstInv, stage \in {"folding", "valuing"}, reading.how # "error", evaluations # <<>>,
           UNCHANGED <<constants, stage, queue, evaluations, constMarks, constMemo, constModule, constBlame>>,
           NEW names, reading' = Error(names), arose' = constModule, CirclesAreReal'
    PROVE  ConstInv'
<1>1. reading'.how = "error"
  BY DEF Error
<1>2. Awaited'
  BY <1>1 DEF ConstInv, Awaited
<1> QED BY <1>1, <1>2, ReadingStep DEF Readings

\* A constant that is met again while it is evaluated: the evaluations since
\* make a circle.
LEMMA CircleMet ==
    ASSUME ConstInv, NEW name, name \in Evaluating(evaluations), evaluations # <<>>,
           Head(Head(evaluations).reads).name = name, Head(evaluations).reads # <<>>
    PROVE  LET names == CircleTo(name) IN
           /\ names[1] = names[Len(names)]
           /\ \A k \in 2..Len(names) :
                  \E j \in DOMAIN Const(names[k]).operands : Const(names[k]).operands[j].name = names[k - 1]
<1> DEFINE es == evaluations
           k  == CHOOSE k \in DOMAIN es : es[k].name = name
           s  == [j \in 1..k |-> es[j].name]
           names == <<name>> \o s
<1>1. Chain(es) /\ IsSeq(es)
  BY DEF ConstInv, Chain
<1>2. DOMAIN es = 1..Len(es) /\ Len(es) \in Nat /\ Head(es) = es[1] /\ 1 \in DOMAIN es
  BY <1>1, PopFacts
<1>3. k \in DOMAIN es /\ es[k].name = name
  BY DEF Evaluating
<1>4. names = CircleTo(name)
  BY DEF CircleTo
<1> HIDE DEF k
<1>5. k \in Nat /\ k >= 1 /\ \A j \in 1..k : j \in DOMAIN es
  BY <1>2, <1>3
<1>6. s \in Seq({es[j].name : j \in 1..k}) /\ Len(s) = k /\ DOMAIN s = 1..k
  BY <1>5
<1>7. \A j \in 1..k : s[j] = es[j].name
  OBVIOUS
<1> HIDE DEF s
<1>8. /\ DOMAIN names = 1..(k + 1) /\ names[1] = name
      /\ \A j \in 1..k : names[j + 1] = es[j].name
  BY <1>6, <1>7, PushFacts DEF IsSeq
<1>9. Len(names) = k + 1
  BY <1>6
<1>10. \A m \in 2..(k + 1) : names[m] = es[m - 1].name /\ m - 1 \in DOMAIN es /\ m - 1 \in 1..k
  <2> SUFFICES ASSUME NEW m \in 2..(k + 1) PROVE names[m] = es[m - 1].name /\ m - 1 \in DOMAIN es /\ m - 1 \in 1..k
    OBVIOUS
  <2>1. m - 1 \in 1..k /\ (m - 1) + 1 = m
    BY <1>5
  <2>2. names[(m - 1) + 1] = es[m - 1].name
    BY <1>8, <2>1
  <2> QED BY <1>5, <2>1, <2>2
<1> HIDE DEF names
<1>11. names[1] = names[Len(names)]
  <2>1. k + 1 \in 2..(k + 1) /\ (k + 1) - 1 = k
    BY <1>5
  <2>2. names[k + 1] = es[k].name
    BY <1>10, <2>1
  <2> QED BY <1>3, <1>8, <1>9, <2>2
<1>12. ASSUME NEW m \in 2..(k + 1)
       PROVE  \E j \in DOMAIN Const(names[m]).operands : Const(names[m]).operands[j].name = names[m - 1]
  <2> DEFINE e == es[m - 1]
  <2>1. names[m] = e.name /\ m - 1 \in DOMAIN es
    BY <1>10
  <2>2. e.reads # <<>> /\ Head(e.reads).name = names[m - 1]
    <3>1. CASE m = 2
      BY <1>2, <1>8, <3>1
    <3>2. CASE m # 2
      <4>1. m - 1 \in 2..(k + 1) /\ m - 1 > 1
        BY <1>5, <3>2
      <4>2. names[m - 1] = es[(m - 1) - 1].name
        BY <1>10, <4>1
      <4> QED BY <1>1, <2>1, <4>1, <4>2 DEF Chain
    <3> QED BY <3>1, <3>2
  <2>3. e.reads \in Seq(ReadBy(e.name))
    BY <1>1, <2>1 DEF Chain, EvaluationOK
  <2>4. Head(e.reads) \in ReadBy(e.name)
    BY <2>2, <2>3
  <2> QED BY <2>1, <2>2, <2>4 DEF ReadBy
<1> QED BY <1>4, <1>9, <1>11, <1>12

\* Looking a constant up.
LEMMA LookupSteps ==
    ASSUME ConstInv, ReadUnknown \/ ReadResolved \/ ReadVisiting \/ ReadOperand
    PROVE  ConstInv'
<1>1. /\ UNCHANGED <<constants, stage, queue, evaluations, constMarks, constMemo, constModule, constBlame>>
      /\ stage \in {"folding", "valuing"} /\ reading.how \in {"want", "on"}
  BY DEF ReadUnknown, ReadResolved, ReadVisiting, ReadOperand, Positions, Results, Modules, Wanting, MarkedAs, Busy
<1>2. CASE ReadUnknown
  <2>1. reading.how = "want" /\ ~IsConst(Wanted) /\ reading' = Error(<<>>) /\ arose' = constModule
    BY <1>2 DEF ReadUnknown, Wanting
  <2>2. evaluations # <<>>
    <3> SUFFICES ASSUME evaluations = <<>> PROVE FALSE
      OBVIOUS
    <3>1. queue # <<>> /\ Wanted = Head(queue) /\ queue \in Seq(DOMAIN constants.decl)
      BY <2>1 DEF ConstInv, Awaited, InTurn, Wanted
    <3>2. Head(queue) \in DOMAIN constants.decl
      BY <3>1
    <3> QED BY <2>1, <3>1, <3>2 DEF IsConst
  <2>3. CirclesAreReal'
    BY <1>1, <2>1, CirclesKept DEF ConstInv, Error
  <2> QED BY <1>1, <2>1, <2>2, <2>3, ErrorStep
<1>3. CASE ReadResolved
  <2>1. reading.how = "want" /\ IsConst(Wanted) /\ constMarks[Wanted] = "resolved" /\ reading' = Have(constMemo[Wanted])
    BY <1>3 DEF ReadResolved, MarkedAs, Wanting
  <2>2. reading'.how = "have"
    BY <2>1 DEF Have
  <2>3. Awaited'
    BY <1>1, <2>1, <2>2 DEF ConstInv, Awaited, Wanted
  <2>4. CirclesAreReal'
    BY <1>1, <2>2, CirclesKept DEF ConstInv
  <2> QED BY <1>1, <2>2, <2>3, <2>4, ReadingStep DEF Readings
<1>4. CASE ReadVisiting
  <2>1. reading.how = "want" /\ IsConst(Wanted) /\ constMarks[Wanted] = "visiting" /\ reading' = Error(CircleTo(Wanted))
        /\ arose' = constModule
    BY <1>4 DEF ReadVisiting, MarkedAs, Wanting
  <2>2. Wanted \in Evaluating(evaluations)
    BY <2>1 DEF ConstInv, ConstMarksOK, IsConst
  <2>3. evaluations # <<>>
    BY <2>2 DEF Evaluating
  <2>4. Head(evaluations).reads # <<>> /\ Head(Head(evaluations).reads).name = Wanted
    BY <2>1, <2>3 DEF ConstInv, Awaited, Wanted
  <2>5. CirclesAreReal'
    <3>1. reading'.what = CircleTo(Wanted)
      BY <2>1 DEF Error
    <3>2. \A name : Const(name)' = Const(name)
      BY <1>1, SameConstants
    <3> QED BY <2>2, <2>3, <2>4, <3>1, <3>2, CircleMet DEF CirclesAreReal
  <2> QED BY <1>1, <2>1, <2>3, <2>5, ErrorStep
<1>5. CASE ReadOperand
  <2>1. evaluations # <<>> /\ Head(evaluations).reads # <<>> /\ reading' = Want(Head(Head(evaluations).reads).name)
    BY <1>5 DEF ReadOperand, Busy, Current
  <2>2. reading'.how = "want" /\ reading'.what = Head(Head(evaluations).reads).name
    BY <2>1 DEF Want
  <2>3. Awaited'
    BY <1>1, <2>1, <2>2 DEF ConstInv, Awaited
  <2>4. CirclesAreReal'
    BY <1>1, <2>2, CirclesKept DEF ConstInv
  <2> QED BY <1>1, <2>2, <2>3, <2>4, ReadingStep DEF Readings
<1> QED BY <1>1, <1>2, <1>3, <1>4, <1>5

\* Taking what was read.
LEMMA TakingStep ==
    ASSUME ConstInv, stage \in {"folding", "valuing"}, evaluations # <<>>, Current.reads # <<>>,
           UNCHANGED <<constants, stage, queue, constMarks, constMemo, constModule, constBlame, arose>>,
           NEW x, evaluations' = <<[Current EXCEPT !.reads = Tail(@), !.got = x]>> \o Others,
           reading'.how = "on"
    PROVE  ConstInv'
<1> DEFINE es == evaluations
           f  == [Current EXCEPT !.reads = Tail(@), !.got = x]
<1>1. Chain(es) /\ EvaluationOK(Current)
  BY ChainPopped DEF ConstInv, Current
<1>2. /\ f.name = Current.name /\ f.outer = Current.outer /\ f.reads = Tail(Current.reads)
      /\ {"name", "reads", "got", "outer"} \subseteq DOMAIN f
  BY <1>1 DEF EvaluationOK
<1>3. EvaluationOK(f)
  BY <1>1, <1>2 DEF EvaluationOK
<1> HIDE DEF f
<1>4. evaluations' = <<f>> \o Tail(es)
  BY DEF f, Others
<1>5. /\ Chain(evaluations') /\ Evaluating(evaluations') = Evaluating(es)
      /\ DOMAIN evaluations' = DOMAIN es /\ Len(evaluations') = Len(es) /\ evaluations' # <<>>
      /\ \A k \in DOMAIN es : evaluations'[k] = IF k = 1 THEN f ELSE es[k]
      /\ DOMAIN es = 1..Len(es) /\ Len(es) \in Nat /\ Len(es) > 0 /\ Head(es) = es[1]
  <2>1. f.name = Head(es).name
    BY <1>2 DEF Current
  <2>2. Chain(es) /\ es # <<>>
    BY <1>1
  <2> HIDE DEF es
  <2> DEFINE gs == <<f>> \o Tail(es)
  <2>3. /\ Chain(gs) /\ Evaluating(gs) = Evaluating(es) /\ DOMAIN gs = DOMAIN es /\ Len(gs) = Len(es) /\ gs # <<>>
        /\ \A k \in DOMAIN es : gs[k] = IF k = 1 THEN f ELSE es[k]
        /\ DOMAIN es = 1..Len(es) /\ Len(es) \in Nat /\ Len(es) > 0 /\ Head(es) = es[1]
    BY <1>3, <2>1, <2>2, ChainEdited
  <2> HIDE DEF gs
  <2>4. evaluations' = gs
    BY <1>4 DEF gs
  <2> QED BY <2>3, <2>4
<1>6. \A k \in DOMAIN es : evaluations'[k].name = es[k].name /\ evaluations'[k].outer = es[k].outer
  BY <1>2, <1>5 DEF Current
<1>7. Chain(evaluations)'
  BY <1>5, ChainPrimed
<1>8. ConstMarksOK'
  BY <1>5, ConstMarksKept DEF ConstInv
<1>9. Awaited'
  BY <1>5, <1>6 DEF ConstInv, Awaited
<1>10. InTurn'
  BY ConstShape, InTurnKept DEF ConstInv
<1>11. AtHome'
  BY <1>5, <1>6, ImportedFirstKept DEF ConstInv, AtHome, HomeOf, Const
<1>12. CirclesAreReal' /\ Blamed'
  BY CirclesKept, BlamedKept DEF ConstInv
<1> QED BY <1>7, <1>8, <1>9, <1>10, <1>11, <1>12 DEF ConstInv, Readings

LEMMA TakeSteps ==
    ASSUME ConstInv, TakeLiteral \/ TakeOperand
    PROVE  ConstInv'
<1>1. CASE TakeLiteral
  <2>1. stage \in {"folding", "valuing"} /\ evaluations # <<>> /\ Current.reads # <<>> /\ reading.how = "on"
    BY <1>1 DEF TakeLiteral, Busy
  <2>2. UNCHANGED <<constants, stage, queue, constMarks, constMemo, constModule, constBlame, arose>> /\ reading' = reading
    BY <1>1 DEF TakeLiteral, Positions, Results, Modules
  <2>3. \E x : evaluations' = <<[Current EXCEPT !.reads = Tail(@), !.got = x]>> \o Others
    BY <1>1 DEF TakeLiteral
  <2> QED BY <2>1, <2>2, <2>3, TakingStep
<1>2. CASE TakeOperand
  <2>1. stage \in {"folding", "valuing"} /\ evaluations # <<>> /\ reading.how = "have"
    BY <1>2 DEF TakeOperand, Busy
  <2>2. UNCHANGED <<constants, stage, queue, constMarks, constMemo, constModule, constBlame>>
    BY <1>2 DEF TakeOperand, Positions, Results
  <2>3. Current.reads # <<>>
    BY <2>1 DEF ConstInv, Awaited, Current
  <2>4. \/ /\ \E x : evaluations' = <<[Current EXCEPT !.reads = Tail(@), !.got = x]>> \o Others
           /\ reading' = On /\ arose' = arose
        \/ reading' = Error(<<>>) /\ arose' = constModule /\ evaluations' = evaluations
    BY <1>2 DEF TakeOperand
  <2>5. CASE reading' = Error(<<>>) /\ arose' = constModule /\ evaluations' = evaluations
    <3>1. CirclesAreReal'
      BY <2>2, <2>5, CirclesKept DEF ConstInv, Error
    <3> QED BY <2>1, <2>2, <2>5, <3>1, ErrorStep
  <2>6. CASE /\ \E x : evaluations' = <<[Current EXCEPT !.reads = Tail(@), !.got = x]>> \o Others
             /\ reading' = On /\ arose' = arose
    BY <2>1, <2>2, <2>3, <2>6, TakingStep DEF On
  <2> QED BY <2>4, <2>5, <2>6
<1> QED BY <1>1, <1>2

\* A constant that has no value yet, and is read, is in the file of the one
\* that reads it: those of other files came before all of this one's.
LEMMA UnvisitedIsHome ==
    ASSUME ConstInv, stage = "valuing", ImportedFirst, NEW name, IsConst(name), constMarks[name] = "unvisited", queue # <<>>,
           evaluations = <<>> => name = Head(queue),
           evaluations # <<>> => name \in {o.name : o \in ReadBy(Head(evaluations).name)}
    PROVE  HomeOf(name) = HomeOf(Head(queue))
<1> DEFINE order == constants.order
           n     == Len(queue)
           home  == HomeOf(Head(queue))
<1> SUFFICES ASSUME HomeOf(name) # home PROVE FALSE
  OBVIOUS
<1>1. evaluations # <<>> /\ name \in {o.name : o \in ReadBy(Head(evaluations).name)}
  OBVIOUS
<1> DEFINE by == Head(evaluations).name
<1>2. IsConst(by) /\ HomeOf(by) = home
  <2>1. Chain(evaluations)
    BY DEF ConstInv
  <2>2. Head(evaluations) = evaluations[1] /\ 1 \in DOMAIN evaluations
    BY <1>1, <2>1, PopFacts DEF Chain
  <2>3. EvaluationOK(evaluations[1])
    BY <2>1, <2>2 DEF Chain
  <2> QED BY <2>2, <2>3 DEF ConstInv, AtHome, EvaluationOK
<1>3. order \in Seq(DOMAIN constants.decl) /\ DOMAIN constants.decl = {order[k] : k \in DOMAIN order}
  BY ConstShape DEF ConstInv
<1>4. PICK j \in DOMAIN order : order[j] = name
  BY <1>3 DEF IsConst
<1>5. PICK k \in DOMAIN order : order[k] = by
  BY <1>2, <1>3 DEF IsConst
<1>6. \E i \in DOMAIN constants.decl[order[k]].operands : constants.decl[order[k]].operands[i].name = order[j]
  BY <1>1, <1>4, <1>5 DEF ReadBy, Const
<1>7. constants.decl[order[j]].home # constants.decl[order[k]].home
  BY <1>2, <1>4, <1>5 DEF HomeOf, Const
<1>8. \A l \in DOMAIN order : constants.decl[order[l]].home = constants.decl[order[k]].home => j < l
  BY <1>6, <1>7 DEF ImportedFirst, Const
<1>9. /\ Head(queue) = order[Position + 1] /\ Position \in Nat /\ Position + 1 \in DOMAIN order
      /\ DOMAIN order = 1..Len(order) /\ Len(order) \in Nat
  <2>1. InTurn
    BY DEF ConstInv
  <2>2. n \in Nat /\ n > 0 /\ n <= Len(order) /\ Len(order) \in Nat /\ Head(queue) = queue[1] /\ DOMAIN queue = 1..n
        /\ DOMAIN order = 1..Len(order)
    BY <1>3, <2>1 DEF InTurn
  <2>3. queue[1] = order[Position + 1]
    BY <2>1, <2>2 DEF InTurn
  <2>4. Position \in Nat /\ Position + 1 \in 1..Len(order)
    BY <2>2 DEF Position
  <2> QED BY <2>2, <2>3, <2>4
<1>10. constants.decl[order[Position + 1]].home = constants.decl[order[k]].home
  BY <1>2, <1>5, <1>9 DEF HomeOf, Const
<1>11. j \in 1..Position
  <2>1. j < Position + 1 /\ j \in 1..Len(order)
    BY <1>4, <1>8, <1>9, <1>10
  <2> QED BY <1>9, <2>1
<1>12. constMarks[order[j]] = "resolved"
  BY <1>11 DEF ConstInv, InTurn
<1> QED BY <1>4, <1>12

\* Coming to a constant for the first time.
LEMMA VisitConstStep ==
    ASSUME ConstInv, Visit
    PROVE  ConstInv'
<1> DEFINE es   == evaluations
           name == Wanted
           f    == Evaluation(name)
<1>1. /\ stage \in {"folding", "valuing"} /\ reading.how = "want" /\ reading' = On /\ IsConst(name)
      /\ constMarks[name] = "unvisited" /\ constMarks' = [constMarks EXCEPT ![name] = "visiting"]
      /\ constModule' = IF stage = "valuing" THEN Const(name).home ELSE constModule
      /\ UNCHANGED <<constants, stage, queue, constMemo, constBlame, arose>>
  BY DEF Visit, MarkedAs, Wanting, Positions
<1>2. evaluations' = <<f>> \o es
  BY DEF Visit
<1>3. /\ EvaluationOK(f) /\ f.name = name /\ f.outer = constModule
  <2>1. constants \in ConstPrograms
    BY DEF ConstInv
  <2>2. Reads(name) \in Seq(ReadBy(name))
    BY <1>1, <2>1, ReadsAreOperands
  <2> HIDE DEF name
  <2> QED BY <1>1, <2>2 DEF Evaluation, EvaluationOK
<1>4. Chain(es) /\ IsSeq(es)
  BY DEF ConstInv, Chain
<1>5. name \notin Evaluating(es)
  BY <1>1 DEF ConstInv, ConstMarksOK
<1>6. es # <<>> => Head(es).reads # <<>> /\ Head(Head(es).reads).name = name
  BY <1>1 DEF ConstInv, Awaited, Wanted
<1>7. es = <<>> => name = Head(queue)
  BY <1>1 DEF ConstInv, Awaited, Wanted
<1>8. queue # <<>>
  BY <1>1 DEF ConstInv, Awaited
<1> HIDE DEF f, name
<1>9. Chain(evaluations') /\ Evaluating(evaluations') = Evaluating(es) \cup {name}
  BY <1>2, <1>3, <1>4, <1>5, <1>6, ChainPushed
<1>10. /\ DOMAIN evaluations' = 1..(Len(es) + 1) /\ evaluations'[1] = f /\ Len(evaluations') = Len(es) + 1
       /\ \A k \in DOMAIN es : evaluations'[k + 1] = es[k]
       /\ DOMAIN es = 1..Len(es) /\ Len(es) \in Nat
  BY <1>2, <1>4, PushedFacts
<1>11. evaluations' # <<>>
  BY <1>10
<1>12. evaluations'[Len(evaluations')].name = Head(queue)
  <2>1. CASE es = <<>>
    BY <1>3, <1>7, <1>10, <2>1
  <2>2. CASE es # <<>>
    <3>1. es[Len(es)].name = Head(queue)
      BY <2>2 DEF ConstInv, Awaited
    <3>2. Len(es) \in DOMAIN es
      BY <1>4, <1>10, <2>2, PopFacts
    <3> QED BY <1>10, <3>1, <3>2
  <2> QED BY <2>1, <2>2
<1>13. Chain(evaluations)'
  BY <1>1, <1>9, ChainPrimed
<1>14. ConstMarksOK'
  <2>1. name \in DOMAIN constMarks
    BY <1>1 DEF ConstInv, ConstMarksOK, IsConst
  <2>2. constMarks' \in [DOMAIN constants.decl -> {"unvisited", "visiting", "resolved"}]
    BY <1>1 DEF ConstInv, ConstMarksOK
  <2>3. {m \in DOMAIN constMarks' : constMarks'[m] = "resolved"} = {m \in DOMAIN constMarks : constMarks[m] = "resolved"}
    BY <1>1, <2>1
  <2>4. {m \in DOMAIN constMarks' : constMarks'[m] = "visiting"} = {m \in DOMAIN constMarks : constMarks[m] = "visiting"} \cup {name}
    BY <1>1, <2>1
  <2>5. Evaluating(evaluations)' = Evaluating(evaluations')
    BY DEF Evaluating
  <2> QED BY <1>1, <1>9, <2>2, <2>3, <2>4, <2>5 DEF ConstInv, ConstMarksOK
<1>15. Awaited'
  BY <1>1, <1>8, <1>11, <1>12 DEF Awaited, On
<1>16. InTurn'
  <2>1. \A m \in DOMAIN constants.decl : constMarks[m] = "resolved" => constMarks'[m] = "resolved"
    BY <1>1 DEF ConstInv, ConstMarksOK
  <2> QED BY <1>1, <2>1, ConstShape, InTurnKept DEF ConstInv
<1>17. AtHome'
  <2> SUFFICES ASSUME stage = "valuing", ImportedFirst PROVE AtHome'
    BY <1>1, ImportedFirstKept DEF AtHome
  <2>1. HomeOf(name) = HomeOf(Head(queue))
    <3>1. es # <<>> => name \in {o.name : o \in ReadBy(Head(es).name)}
      <4> SUFFICES ASSUME es # <<>> PROVE name \in {o.name : o \in ReadBy(Head(es).name)}
        OBVIOUS
      <4>1. EvaluationOK(Head(es))
        BY <1>4, ChainPopped
      <4>2. Head(Head(es).reads) \in ReadBy(Head(es).name)
        BY <1>6, <4>1 DEF EvaluationOK
      <4> QED BY <1>6, <4>2
    <3> QED BY <1>1, <1>7, <1>8, <3>1, UnvisitedIsHome
  <2>2. constModule' = HomeOf(Head(queue))
    BY <1>1, <2>1 DEF HomeOf
  <2>3. ASSUME NEW k \in DOMAIN evaluations'
        PROVE  /\ HomeOf(evaluations'[k].name) = HomeOf(Head(queue))
               /\ k < Len(evaluations') => evaluations'[k].outer = HomeOf(Head(queue))
    <3>1. CASE k = 1
      <4>1. 1 < Len(evaluations') => es # <<>>
        BY <1>10
      <4>2. es # <<>> => constModule = HomeOf(Head(queue))
        BY DEF ConstInv, AtHome
      <4> QED BY <1>3, <1>10, <2>1, <3>1, <4>1, <4>2
    <3>2. CASE k # 1
      <4>1. k - 1 \in DOMAIN es /\ (k - 1) + 1 = k /\ (k < Len(evaluations') => k - 1 < Len(es))
        BY <1>10, <3>2
      <4>2. evaluations'[(k - 1) + 1] = es[k - 1]
        BY <1>10, <4>1
      <4>3. /\ HomeOf(es[k - 1].name) = HomeOf(Head(queue))
            /\ k - 1 < Len(es) => es[k - 1].outer = HomeOf(Head(queue))
        BY <4>1 DEF ConstInv, AtHome
      <4> QED BY <4>1, <4>2, <4>3
    <3> QED BY <3>1, <3>2
  <2>4. \A m : HomeOf(m)' = HomeOf(m)
    BY <1>1 DEF HomeOf, Const
  <2> QED BY <1>1, <2>2, <2>3 DEF AtHome, On, HomeOf, Const
<1>18. CirclesAreReal' /\ Blamed'
  BY <1>1, CirclesKept, BlamedKept DEF ConstInv, On
<1> QED BY <1>1, <1>13, <1>14, <1>15, <1>16, <1>17, <1>18 DEF ConstInv, On, Readings

\* What leaving the innermost evaluation does, whichever way.
LEMMA LeavingFacts ==
    ASSUME ConstInv, evaluations # <<>>, stage \in {"folding", "valuing"},
           UNCHANGED <<constants, stage, queue>>, evaluations' = Others, constModule' = Current.outer,
           reading'.how = "error" => reading.how = "error" /\ arose' = arose
    PROVE  /\ Chain(evaluations)' /\ AtHome'
           /\ Evaluating(evaluations') = Evaluating(evaluations) \ {Current.name}
           /\ Current.name \in Evaluating(evaluations) /\ Current.name \in DOMAIN constants.decl
           /\ queue # <<>>
           /\ evaluations' # <<>> => /\ Head(evaluations').reads # <<>>
                                     /\ evaluations'[Len(evaluations')].name = Head(queue)
           /\ evaluations' = <<>> => Current.name = Head(queue)
<1> DEFINE es == evaluations
           gs == Tail(es)
<1>1. Chain(es) /\ IsSeq(es) /\ es # <<>>
  BY DEF ConstInv, Chain
<1>2. /\ Chain(gs) /\ Evaluating(gs) = Evaluating(es) \ {Head(es).name}
      /\ Head(es).name \in Evaluating(es) /\ EvaluationOK(Head(es))
      /\ gs # <<>> => /\ Head(gs).reads # <<>> /\ gs[Len(gs)] = es[Len(es)] /\ Len(es) > 1
      /\ gs = <<>> => Head(es) = es[Len(es)]
  BY <1>1, ChainPopped
<1>3. /\ DOMAIN gs = 1..(Len(es) - 1) /\ Len(gs) = Len(es) - 1 /\ Head(es) = es[1]
      /\ \A k \in DOMAIN gs : gs[k] = es[k + 1]
      /\ DOMAIN es = 1..Len(es) /\ Len(es) \in Nat /\ 1 \in DOMAIN es
  BY <1>1, PopFacts
<1> HIDE DEF gs
<1>4. evaluations' = gs
  BY DEF gs, Others
<1>5. queue # <<>> /\ es[Len(es)].name = Head(queue)
  BY <1>1 DEF ConstInv, Awaited
<1>6. Chain(evaluations)'
  BY <1>2, <1>4, ChainPrimed
<1>7. AtHome'
  <2> SUFFICES ASSUME stage = "valuing", ImportedFirst PROVE AtHome'
    BY ImportedFirstKept DEF AtHome
  <2> DEFINE home == HomeOf(Head(queue))
  <2>1. /\ \A k \in DOMAIN es : HomeOf(es[k].name) = home
        /\ \A k \in DOMAIN es : k < Len(es) => es[k].outer = home
        /\ reading.how = "error" => arose = home
    BY DEF ConstInv, AtHome
  <2>2. \A k \in DOMAIN gs : k + 1 \in DOMAIN es /\ (k < Len(gs) => k + 1 < Len(es))
    BY <1>3
  <2>3. \A k \in DOMAIN gs : HomeOf(gs[k].name) = home /\ (k < Len(gs) => gs[k].outer = home)
    BY <1>3, <2>1, <2>2
  <2>4. gs # <<>> => constModule' = home
    <3> SUFFICES ASSUME gs # <<>> PROVE constModule' = home
      OBVIOUS
    <3>1. 1 \in DOMAIN es /\ 1 < Len(es)
      BY <1>2, <1>3
    <3>2. es[1].outer = home
      BY <2>1, <3>1
    <3> QED BY <1>3, <3>2 DEF Current
  <2>5. reading'.how = "error" => arose' = home
    BY <2>1
  <2> QED BY <1>4, <1>5, <2>3, <2>4, <2>5 DEF AtHome, HomeOf, Const
<1>8. Current.name \in DOMAIN constants.decl
  BY <1>2 DEF Current, EvaluationOK, IsConst
<1> QED BY <1>2, <1>4, <1>5, <1>6, <1>7, <1>8 DEF Current

\* A constant is left with a value, or with an error that arises there.
LEMMA LeaveStep ==
    ASSUME ConstInv, Leave
    PROVE  ConstInv'
<1> DEFINE name == Current.name
           v    == Result(name, Current.got)
<1>1. /\ stage \in {"folding", "valuing"} /\ evaluations # <<>> /\ reading.how = "on"
      /\ UNCHANGED <<constants, stage, queue, constBlame>>
  BY DEF Leave, Busy, Positions
<1>2. CASE v.is = "none"
  <2>1. reading' = Error(<<>>) /\ arose' = constModule /\ UNCHANGED <<evaluations, constMarks, constMemo, constModule>>
    BY <1>2 DEF Leave
  <2>2. CirclesAreReal'
    BY <1>1, <2>1, CirclesKept DEF ConstInv, Error
  <2> QED BY <1>1, <2>1, <2>2, ErrorStep
<1>3. CASE v.is # "none"
  <2>1. /\ constMarks' = [constMarks EXCEPT ![name] = "resolved"]
        /\ constMemo' = [n \in DOMAIN constMemo \cup {name} |-> IF n = name THEN v ELSE constMemo[n]]
        /\ reading' = Have(v) /\ evaluations' = Others /\ constModule' = Current.outer
    BY <1>3 DEF Leave
  <2>2. reading'.how = "have"
    BY <2>1 DEF Have
  <2> HIDE DEF v
  <2>3. /\ Chain(evaluations)' /\ AtHome'
        /\ Evaluating(evaluations') = Evaluating(evaluations) \ {name}
        /\ name \in Evaluating(evaluations) /\ name \in DOMAIN constants.decl
        /\ queue # <<>>
        /\ evaluations' # <<>> => /\ Head(evaluations').reads # <<>>
                                  /\ evaluations'[Len(evaluations')].name = Head(queue)
        /\ evaluations' = <<>> => name = Head(queue)
    BY <1>1, <2>1, <2>2, LeavingFacts
  <2> HIDE DEF name
  <2>4. /\ constMarks' \in [DOMAIN constants.decl -> {"unvisited", "visiting", "resolved"}]
        /\ DOMAIN constMarks = DOMAIN constants.decl /\ DOMAIN constMarks' = DOMAIN constMarks
        /\ constMarks'[name] = "resolved"
        /\ \A m \in DOMAIN constMarks : m # name => constMarks'[m] = constMarks[m]
    BY <2>1, <2>3 DEF ConstInv, ConstMarksOK
  <2>5. ConstMarksOK'
    <3>1. DOMAIN constMemo' = {m \in DOMAIN constMarks' : constMarks'[m] = "resolved"}
      BY <2>1, <2>3, <2>4 DEF ConstInv, ConstMarksOK
    <3>2. {m \in DOMAIN constMarks' : constMarks'[m] = "visiting"} = Evaluating(evaluations')
      BY <2>3, <2>4 DEF ConstInv, ConstMarksOK
    <3>3. Evaluating(evaluations)' = Evaluating(evaluations')
      BY DEF Evaluating
    <3> QED BY <1>1, <2>4, <3>1, <3>2, <3>3 DEF ConstMarksOK
  <2>6. Awaited'
    BY <1>1, <2>2, <2>3, <2>4 DEF Awaited
  <2>7. InTurn'
    <3>1. \A m \in DOMAIN constants.decl : constMarks[m] = "resolved" => constMarks'[m] = "resolved"
      BY <2>4
    <3> QED BY <1>1, <3>1, ConstShape, InTurnKept DEF ConstInv
  <2>8. CirclesAreReal' /\ Blamed'
    BY <1>1, <2>2, CirclesKept, BlamedKept DEF ConstInv
  <2> QED BY <1>1, <2>2, <2>3, <2>5, <2>6, <2>7, <2>8 DEF ConstInv, Readings
<1> QED BY <1>2, <1>3

\* An error leaves no constant marked as being visited.
LEMMA LeaveByErrorStep ==
    ASSUME ConstInv, LeaveByError
    PROVE  ConstInv'
<1> DEFINE name == Current.name
<1>1. /\ stage \in {"folding", "valuing"} /\ evaluations # <<>> /\ reading.how = "error"
      /\ UNCHANGED <<constants, stage, queue, constMemo, constBlame, reading, arose>>
      /\ constMarks' = [constMarks EXCEPT ![name] = "unvisited"]
      /\ evaluations' = Others /\ constModule' = Current.outer
  BY DEF LeaveByError, Busy, Positions
<1>2. /\ Chain(evaluations)' /\ AtHome'
      /\ Evaluating(evaluations') = Evaluating(evaluations) \ {name}
      /\ name \in Evaluating(evaluations) /\ name \in DOMAIN constants.decl
      /\ queue # <<>>
      /\ evaluations' # <<>> => evaluations'[Len(evaluations')].name = Head(queue)
  BY <1>1, LeavingFacts
<1> HIDE DEF name
<1>3. /\ constMarks' \in [DOMAIN constants.decl -> {"unvisited", "visiting", "resolved"}]
      /\ DOMAIN constMarks = DOMAIN constants.decl /\ DOMAIN constMarks' = DOMAIN constMarks
      /\ constMarks[name] = "visiting" /\ constMarks'[name] = "unvisited"
      /\ \A m \in DOMAIN constMarks : m # name => constMarks'[m] = constMarks[m]
  BY <1>1, <1>2 DEF ConstInv, ConstMarksOK
<1>4. ConstMarksOK'
  <2>1. DOMAIN constMemo' = {m \in DOMAIN constMarks' : constMarks'[m] = "resolved"}
    BY <1>1, <1>3 DEF ConstInv, ConstMarksOK
  <2>2. {m \in DOMAIN constMarks' : constMarks'[m] = "visiting"} = Evaluating(evaluations')
    BY <1>2, <1>3 DEF ConstInv, ConstMarksOK
  <2>3. Evaluating(evaluations)' = Evaluating(evaluations')
    BY DEF Evaluating
  <2> QED BY <1>1, <1>3, <2>1, <2>2, <2>3 DEF ConstMarksOK
<1>5. Awaited'
  BY <1>1, <1>2 DEF Awaited
<1>6. InTurn'
  <2>1. \A m \in DOMAIN constants.decl : constMarks[m] = "resolved" => constMarks'[m] = "resolved"
    BY <1>3
  <2> QED BY <1>1, <2>1, ConstShape, InTurnKept DEF ConstInv
<1>7. CirclesAreReal' /\ Blamed'
  BY <1>1, CirclesKept, BlamedKept DEF ConstInv
<1> QED BY <1>1, <1>2, <1>4, <1>5, <1>6, <1>7 DEF ConstInv

---------------------------------------------------------------------------
(* The specification of a run over a program's declarations.               *)

LEMMA ConstInvInit ==
    ASSUME DeclInit
    PROVE  ConstInv
<1>1. PICK d \in Declarations : ConstInitFor(d.consts)
  BY DEF DeclInit
<1> DEFINE p == d.consts
<1>2. p \in ConstPrograms
  BY DeclarationAssumption
<1> HIDE DEF p
<1>3. /\ constants = p /\ stage = "folding" /\ queue = p.order /\ evaluations = <<>> /\ reading = On
      /\ constMarks = [name \in DOMAIN p.decl |-> "unvisited"] /\ constMemo = [name \in {} |-> NoValue]
      /\ constBlame = NoModule
  BY <1>1 DEF ConstInitFor, p
<1>4. reading.how = "on"
  BY <1>3 DEF On
<1>5. constants.order \in Seq(DOMAIN constants.decl)
  BY <1>2, <1>3, ConstShape
<1>6. Chain(evaluations)
  <2>1. IsSeq(<<>>)
    BY DEF IsSeq
  <2> QED BY <1>3, <2>1 DEF Chain
<1>7. ConstMarksOK
  BY <1>3 DEF ConstMarksOK, Evaluating
<1>8. InTurn
  <2>1. Len(constants.order) \in Nat /\ Position = 0 /\ DOMAIN queue = 1..Len(constants.order)
    BY <1>3, <1>5 DEF Position
  <2> QED BY <1>3, <1>5, <2>1 DEF InTurn
<1>9. Awaited /\ AtHome /\ CirclesAreReal /\ Blamed
  BY <1>3, <1>4 DEF Awaited, AtHome, CirclesAreReal, Blamed, BlameIsHome
<1> QED BY <1>2, <1>3, <1>4, <1>6, <1>7, <1>8, <1>9 DEF ConstInv, Stages, Readings

LEMMA ConstInvNext ==
    ASSUME ConstInv, [DeclNext]_<<vars, constVars>>
    PROVE  ConstInv'
<1>1. CASE EvaluateConstants
  <2>1. ConstStep
    BY <1>1 DEF EvaluateConstants
  <2>2. CASE EvaluateNext \/ PassOver \/ Evaluated
    BY <2>2, TurnSteps
  <2>3. CASE AllFolded \/ AllValued \/ ConstError
    BY <2>3, EndSteps
  <2>4. CASE ReadUnknown \/ ReadResolved \/ ReadVisiting \/ ReadOperand
    BY <2>4, LookupSteps
  <2>5. CASE Visit
    BY <2>5, VisitConstStep
  <2>6. CASE TakeLiteral \/ TakeOperand
    BY <2>6, TakeSteps
  <2>7. CASE Leave
    BY <2>7, LeaveStep
  <2>8. CASE LeaveByError
    BY <2>8, LeaveByErrorStep
  <2> QED BY <2>1, <2>2, <2>3, <2>4, <2>5, <2>6, <2>7, <2>8 DEF ConstStep
<1>2. CASE ResolveTypes \/ RunEnded \/ UNCHANGED <<vars, constVars>>
  <2>1. UNCHANGED constVars
    BY <1>2 DEF ResolveTypes, RunEnded
  <2> QED BY <2>1, UntouchedStep
<1>3. CASE ValueConstants
  <2>1. StartValues
    BY <1>3 DEF ValueConstants
  <2> QED BY <2>1, StartValuesStep
<1> QED BY <1>1, <1>2, <1>3 DEF DeclNext

LEMMA ConstInvAlways == DeclSpec => []ConstInv
<1>1. DeclInit => ConstInv
  BY ConstInvInit
<1>2. ConstInv /\ [DeclNext]_<<vars, constVars>> => ConstInv'
  BY ConstInvNext
<1> QED BY <1>1, <1>2, PTL DEF DeclSpec

(* In every state of a run the constants marked as being visited are those *)
(* whose evaluation goes on, each once, and those with a value the ones    *)
(* marked resolved: `evaluate` and `resolve_const_value` leave no mark     *)
(* behind, whichever way they return.                                      *)
THEOREM ConstantsTypeCorrect == DeclSpec => []ConstTypeOK
<1>1. ConstInv => ConstTypeOK
  <2> SUFFICES ASSUME ConstInv PROVE ConstTypeOK
    OBVIOUS
  <2>1. \A j, k \in DOMAIN evaluations : evaluations[j].name = evaluations[k].name => j = k
    BY DEF ConstInv, Chain
  <2> QED BY <2>1 DEF ConstInv, ConstMarksOK, Evaluating, ConstTypeOK, Stages, Readings
<1> QED BY <1>1, ConstInvAlways, PTL

(* The circle the evaluators report (`cycle_error` of consts.rs and        *)
(* values.rs) is one: it ends where it began, and each constant in it      *)
(* reads the next.                                                         *)
THEOREM ConstantsCirclesAreReal == DeclSpec => []CirclesAreReal
<1>1. ConstInv => CirclesAreReal
  BY DEF ConstInv
<1> QED BY <1>1, ConstInvAlways, PTL

(* `resolve_all_const_values` names the file of the constant it had come   *)
(* to.  If files import before they declare, whatever chain of constants   *)
(* the error arose at the end of, it arose in that file.                   *)
THEOREM ConstantsBlameIsHome == DeclSpec => [](ImportedFirst => BlameIsHome)
<1>1. ConstInv => (ImportedFirst => BlameIsHome)
  BY DEF ConstInv, Blamed
<1> QED BY <1>1, ConstInvAlways, PTL

(* A run over a program's declarations (`resolve_and_expand`,              *)
(* `resolve_structs_and_aliases`) is a run of the type resolver: between   *)
(* the two evaluations of constants it takes its own steps, and neither    *)
(* evaluation touches its state.  What is proved of Spec holds of it.      *)
THEOREM DeclarationsResolveTypes == DeclSpec => Spec
<1>1. DeclInit => Init
  BY DeclarationAssumption DEF DeclInit, Init
<1>2. [DeclNext]_<<vars, constVars>> => [Next]_vars
  BY DEF DeclNext, EvaluateConstants, ResolveTypes, ValueConstants, RunEnded, Next
<1> QED BY <1>1, <1>2, PTL DEF DeclSpec, Spec

===========================================================================
