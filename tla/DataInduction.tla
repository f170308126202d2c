---------------------------- MODULE DataInduction -------------------------
(* Induction in a form the provers can use: over sets of numbers, where    *)
(* the library's theorems range over predicates.  From it, that functions  *)
(* recursive on an interval exist, and what flattening a sequence yields;  *)
(* and the facts about sequences that the proofs of stacks and of counts   *)
(* rest on.                                                                *)
EXTENDS Integers, Sequences, SequencesExt, FiniteSets, TLAPS, WellFoundedInduction, SequenceTheorems,
        FiniteSetTheorems

\* A set of numbers has a least one.
LEMMA LeastNumber ==
    ASSUME NEW T, T \subseteq Nat, T # {}
    PROVE  \E x \in T : \A y \in T : ~(y < x)
<1> DEFINE R == OpToRel(<, Nat)
<1>1. IsWellFoundedOn(R, Nat)
  BY NatLessThanWellFounded
<1>2. PICK x \in T : \A y \in T : ~(<<y, x>> \in R)
  <2> HIDE DEF R
  <2> QED BY <1>1, WFMin
<1>3. \A y \in T : y < x => <<y, x>> \in R
  BY DEF OpToRel
<1> QED BY <1>2, <1>3

\* A set with 0 and every successor holds every number.
LEMMA Induction ==
    ASSUME NEW S, 0 \in S, \A m \in Nat : m \in S => m + 1 \in S
    PROVE  Nat \subseteq S
<1> DEFINE T == {m \in Nat : m \notin S}
<1> SUFFICES ASSUME T # {} PROVE FALSE
  OBVIOUS
<1>1. PICK x \in T : \A y \in T : ~(y < x)
  <2> T \subseteq Nat
    OBVIOUS
  <2> HIDE DEF T
  <2> QED BY LeastNumber
<1>2. x \in Nat /\ x # 0 /\ x - 1 \in Nat
  OBVIOUS
<1>3. x - 1 \in S
  BY <1>1, <1>2
<1> QED BY <1>2, <1>3

\* The same up to a number.
LEMMA IntervalInduction ==
    ASSUME NEW n \in Nat, NEW S, 0 \in S, \A m \in 0..n : m # n /\ m \in S => m + 1 \in S
    PROVE  0..n \subseteq S
<1> DEFINE T == {m \in Nat : m <= n => m \in S}
<1>1. 0 \in T
  OBVIOUS
<1>2. ASSUME NEW m \in Nat, m \in T PROVE m + 1 \in T
  BY <1>2
<1>3. Nat \subseteq T
  <2> HIDE DEF T
  <2> QED BY <1>1, <1>2, Induction
<1> QED BY <1>3

\* f is the function to T recursive on 0..n that starts at base.
RecursionOn(f, n, T, base, step) ==
    /\ f \in [0..n -> T]
    /\ f[0] = base
    /\ \A k \in 1..n : f[k] = step[<<k, f[k - 1]>>]

\* A function given where its recursion starts, and by its step, exists.
LEMMA RecursionExists ==
    ASSUME NEW n \in Nat, NEW T, NEW base \in T, NEW step \in [(1..n) \X T -> T]
    PROVE  \E f : RecursionOn(f, n, T, base, step)
<1> DEFINE Upto(m) == \E f : RecursionOn(f, m, T, base, step)
           S       == {m \in 0..n : Upto(m)}
<1>1. 0 \in S
  <2> DEFINE f == [k \in 0..0 |-> base]
  <2>1. f \in [0..0 -> T] /\ f[0] = base
    OBVIOUS
  <2>2. \A k \in 1..0 : FALSE
    OBVIOUS
  <2> HIDE DEF f
  <2>3. Upto(0)
    BY <2>1, <2>2 DEF RecursionOn
  <2> QED BY <2>3
<1>2. ASSUME NEW m \in 0..n, m # n, m \in S PROVE m + 1 \in S
  <2>1. PICK f : RecursionOn(f, m, T, base, step)
    BY <1>2
  <2> USE DEF RecursionOn
  <2> DEFINE g == [k \in 0..(m + 1) |-> IF k = m + 1 THEN step[<<m + 1, f[m]>>] ELSE f[k]]
  <2>2. f[m] \in T /\ m + 1 \in 1..n
    BY <1>2, <2>1
  <2>3. step[<<m + 1, f[m]>>] \in T
    BY <2>2
  <2>4. g \in [0..(m + 1) -> T]
    BY <1>2, <2>1, <2>3
  <2>5. \A k \in 0..m : g[k] = f[k]
    BY <1>2
  <2>6. g[m + 1] = step[<<m + 1, f[m]>>]
    BY <1>2
  <2> HIDE DEF g
  <2>7. g[0] = base
    BY <1>2, <2>1, <2>5
  <2>8. ASSUME NEW k \in 1..(m + 1) PROVE g[k] = step[<<k, g[k - 1]>>]
    <3>1. CASE k \in 1..m
      <4>1. g[k] = f[k] /\ g[k - 1] = f[k - 1] /\ f[k] = step[<<k, f[k - 1]>>]
        BY <2>1, <2>5, <3>1
      <4> QED BY <4>1
    <3>2. CASE k = m + 1
      <4>1. k - 1 = m /\ g[m] = f[m]
        BY <1>2, <2>5, <3>2
      <4> QED BY <2>6, <3>2, <4>1
    <3> QED BY <1>2, <3>1, <3>2
  <2>9. Upto(m + 1)
    BY <2>4, <2>7, <2>8
  <2> QED BY <2>2, <2>9
<1>3. 0..n \subseteq S
  <2> HIDE DEF S
  <2> QED BY <1>1, <1>2, IntervalInduction
<1> QED BY <1>3

\* Joined sequences have the elements of both.
LEMMA JoinedElements ==
    ASSUME NEW S, NEW s \in Seq(S), NEW t \in Seq(S)
    PROVE  ToSet(s \o t) = ToSet(s) \cup ToSet(t)
<1> DEFINE r == s \o t
<1>1. /\ Len(s) \in Nat /\ Len(t) \in Nat /\ Len(r) = Len(s) + Len(t)
      /\ DOMAIN s = 1..Len(s) /\ DOMAIN t = 1..Len(t) /\ DOMAIN r = 1..Len(r)
      /\ \A i \in 1..Len(s) : r[i] = s[i]
      /\ \A i \in 1..Len(t) : r[i + Len(s)] = t[i]
  OBVIOUS
<1> HIDE DEF r
<1>2. ASSUME NEW i \in 1..Len(r) PROVE r[i] \in ToSet(s) \cup ToSet(t)
  <2>1. CASE i <= Len(s)
    BY <1>1, <2>1 DEF ToSet
  <2>2. CASE ~(i <= Len(s))
    <3>1. i - Len(s) \in 1..Len(t) /\ (i - Len(s)) + Len(s) = i
      BY <1>1, <2>2
    <3> QED BY <1>1, <3>1 DEF ToSet
  <2> QED BY <2>1, <2>2
<1>3. ASSUME NEW i \in 1..Len(s) PROVE s[i] \in ToSet(r)
  BY <1>1 DEF ToSet
<1>4. ASSUME NEW i \in 1..Len(t) PROVE t[i] \in ToSet(r)
  BY <1>1 DEF ToSet
<1>5. ToSet(r) = ToSet(s) \cup ToSet(t)
  BY <1>1, <1>2, <1>3, <1>4 DEF ToSet
<1> QED BY <1>5 DEF r

\* h is the flattening of the first k of the sequences ss, for every k.
Flattening(h, S, ss) ==
    /\ h[0] = <<>> /\ \A k \in 0..Len(ss) : h[k] \in Seq(S)
    /\ \A k \in 1..Len(ss) : h[k] = h[k - 1] \o ss[k]
    /\ FlattenSeq(ss) = h[Len(ss)]

\* Flattening appends one sequence after the other.
LEMMA FlattenSeqUnfolds ==
    ASSUME NEW S, NEW ss \in Seq(Seq(S))
    PROVE  \E h : Flattening(h, S, ss)
<1> DEFINE n    == Len(ss)
           step == [p \in (1..n) \X Seq(S) |-> p[2] \o ss[p[1]]]
           eq(f) == f = [i \in 1..n |-> IF i = 1 THEN ss[i] ELSE f[i - 1] \o ss[i]]
<1>0. n \in Nat /\ \A i \in 1..n : ss[i] \in Seq(S)
  OBVIOUS
<1>1. CASE n = 0
  <2> DEFINE h == [k \in 0..0 |-> <<>>]
  <2>1. ss = <<>> /\ FlattenSeq(ss) = ss
    BY <1>1 DEF FlattenSeq
  <2>2. h[0] = <<>> /\ <<>> \in Seq(S)
    OBVIOUS
  <2>3. Len(ss) = 0 /\ (\A k \in 0..0 : k = 0) /\ \A k \in 1..0 : FALSE
    BY <1>1
  <2> HIDE DEF h
  <2>4. Flattening(h, S, ss)
    <3>1. \A k \in 0..0 : h[k] \in Seq(S)
      BY <2>2, <2>3
    <3> QED BY <2>1, <2>2, <2>3, <3>1 DEF Flattening
  <2> QED BY <2>4
<1>2. CASE n # 0
  <2>1. step \in [(1..n) \X Seq(S) -> Seq(S)]
    BY <1>0
  <2>2. <<>> \in Seq(S)
    OBVIOUS
  <2>3. PICK f : RecursionOn(f, n, Seq(S), <<>>, step)
    <3> HIDE DEF step, n
    <3> QED BY <1>0, <2>1, <2>2, RecursionExists
  <2> HIDE DEF n
  <2>31. /\ f[0] = <<>> /\ \A k \in 0..n : f[k] \in Seq(S)
         /\ \A k \in 1..n : f[k] = step[<<k, f[k - 1]>>]
    BY <2>3 DEF RecursionOn
  <2> DEFINE g == [i \in 1..n |-> f[i]]
  <2>4. ASSUME NEW i \in 1..n PROVE f[i] = f[i - 1] \o ss[i]
    <3>0. i - 1 \in 0..n
      BY <1>0
    <3>1. f[i - 1] \in Seq(S)
      BY <2>31, <3>0
    <3>2. step[<<i, f[i - 1]>>] = f[i - 1] \o ss[i]
      BY <3>1
    <3> HIDE DEF step
    <3> QED BY <2>31, <3>2
  <2>5. ASSUME NEW i \in 1..n PROVE g[i] = IF i = 1 THEN ss[i] ELSE g[i - 1] \o ss[i]
    <3>1. CASE i = 1
      <4>1. f[1] = f[0] \o ss[1]
        <5>1. f[i] = f[i - 1] \o ss[i]
          BY <2>4
        <5>2. i - 1 = 0
          BY <3>1
        <5> QED BY <3>1, <5>1, <5>2
      <4>2. ss[1] \in Seq(S)
        BY <1>0, <3>1
      <4>3. <<>> \o ss[1] = ss[1]
        BY <4>2
      <4> QED BY <2>31, <3>1, <4>1, <4>3
    <3>2. CASE i # 1
      <4>1. i - 1 \in 1..n
        BY <1>0, <3>2
      <4> QED BY <2>4, <3>2, <4>1
    <3> QED BY <3>1, <3>2
  <2>6. eq(g)
    BY <2>5
  <2> DEFINE h == CHOOSE h : eq(h)
  <2>7. eq(h)
    <3> HIDE DEF eq, g
    <3> QED BY <2>6
  <2>8. FlattenSeq(ss) = h[n]
    BY <1>2 DEF FlattenSeq, n
  <2> HIDE DEF h
  <2>9. /\ h[1] \in Seq(S)
        /\ \A i \in 1..n : i # n /\ h[i] \in Seq(S) => h[i + 1] \in Seq(S)
    <3>1. h[1] = ss[1]
      BY <1>0, <1>2, <2>7
    <3>2. ASSUME NEW i \in 1..n, i # n, h[i] \in Seq(S) PROVE h[i + 1] \in Seq(S)
      <4>1. i + 1 \in 1..n /\ i + 1 # 1 /\ (i + 1) - 1 = i
        BY <1>0, <3>2
      <4>2. h[i + 1] = h[i] \o ss[i + 1]
        BY <2>7, <4>1
      <4> QED BY <1>0, <3>2, <4>1, <4>2
    <3> QED BY <1>0, <1>2, <3>1, <3>2
  <2> DEFINE U == {i \in 0..n : i # 0 => h[i] \in Seq(S)}
  <2>10. 0 \in U /\ \A i \in 0..n : i # n /\ i \in U => i + 1 \in U
    BY <1>0, <1>2, <2>9
  <2>11. 0..n \subseteq U
    <3> HIDE DEF U
    <3> QED BY <1>0, <2>10, IntervalInduction
  <2> DEFINE d == [k \in 0..n |-> IF k = 0 THEN <<>> ELSE h[k]]
  <2>12. \A k \in 1..n : h[k] \in Seq(S) /\ (k # 1 => h[k] = h[k - 1] \o ss[k]) /\ (k = 1 => h[k] = ss[k])
    <3>1. \A k \in 1..n : h[k] = IF k = 1 THEN ss[k] ELSE h[k - 1] \o ss[k]
      BY <2>7
    <3>2. \A k \in 1..n : h[k] \in Seq(S)
      BY <1>0, <2>11
    <3> QED BY <3>1, <3>2
  <2>13. d[0] = <<>> /\ \A k \in 1..n : d[k] = h[k]
    BY <1>0
  <2> HIDE DEF d, U, eq
  <2>14. ASSUME NEW k \in 1..n PROVE d[k] = d[k - 1] \o ss[k]
    <3>1. CASE k = 1
      <4>1. ss[k] \in Seq(S) /\ d[k - 1] = <<>>
        BY <1>0, <2>13, <3>1
      <4>2. <<>> \o ss[k] = ss[k]
        BY <4>1
      <4> QED BY <2>12, <2>13, <3>1, <4>1, <4>2
    <3>2. CASE k # 1
      <4>1. k - 1 \in 1..n
        BY <1>0, <3>2
      <4> QED BY <2>12, <2>13, <3>2, <4>1
    <3> QED BY <3>1, <3>2
  <2>15. \A k \in 0..n : d[k] \in Seq(S)
    <3>1. \A k \in 0..n : k = 0 \/ k \in 1..n
      BY <1>0
    <3> QED BY <2>2, <2>12, <2>13, <3>1
  <2>16. n \in 1..n
    BY <1>0, <1>2
  <2> QED BY <2>8, <2>13, <2>14, <2>15, <2>16 DEF Flattening, n
<1> QED BY <1>1, <1>2

\* Flattening sequences of members of S gives one.
LEMMA FlattenSeqType ==
    ASSUME NEW S, NEW ss \in Seq(Seq(S))
    PROVE  FlattenSeq(ss) \in Seq(S)
<1>1. PICK h : Flattening(h, S, ss)
  BY FlattenSeqUnfolds
<1>2. Len(ss) \in 0..Len(ss)
  OBVIOUS
<1> QED BY <1>1, <1>2 DEF Flattening

\* And it has their elements.
LEMMA FlattenSeqElements ==
    ASSUME NEW S, NEW ss \in Seq(Seq(S))
    PROVE  \A x : x \in ToSet(FlattenSeq(ss)) <=> \E i \in 1..Len(ss) : x \in ToSet(ss[i])
<1> DEFINE n == Len(ss)
<1>0. n \in Nat /\ \A i \in 1..n : ss[i] \in Seq(S)
  OBVIOUS
<1>1. PICK h : Flattening(h, S, ss)
  BY FlattenSeqUnfolds
<1>2. /\ h[0] = <<>> /\ \A k \in 0..n : h[k] \in Seq(S)
      /\ \A k \in 1..n : h[k] = h[k - 1] \o ss[k]
      /\ FlattenSeq(ss) = h[n]
  BY <1>1 DEF Flattening
<1> HIDE DEF n
<1> DEFINE U == {k \in 0..n : ToSet(h[k]) = UNION {ToSet(ss[i]) : i \in 1..k}}
<1>3. 0 \in U
  BY <1>0, <1>2 DEF ToSet
<1>4. ASSUME NEW k \in 0..n, k # n, k \in U PROVE k + 1 \in U
  <2>1. k + 1 \in 1..n /\ k + 1 \in 0..n /\ (k + 1) - 1 = k
    BY <1>0, <1>4
  <2>2. h[k] \in Seq(S) /\ ss[k + 1] \in Seq(S) /\ h[k + 1] = h[k] \o ss[k + 1]
    BY <1>0, <1>2, <2>1
  <2>3. ToSet(h[k + 1]) = ToSet(h[k]) \cup ToSet(ss[k + 1])
    BY <2>2, JoinedElements
  <2>4. 1..(k + 1) = 1..k \cup {k + 1}
    BY <1>0
  <2>5. UNION {ToSet(ss[i]) : i \in 1..(k + 1)} = (UNION {ToSet(ss[i]) : i \in 1..k}) \cup ToSet(ss[k + 1])
    BY <2>4
  <2> QED BY <1>4, <2>1, <2>3, <2>5
<1>5. 0..n \subseteq U
  <2> HIDE DEF U
  <2> QED BY <1>0, <1>3, <1>4, IntervalInduction
<1>6. n \in U
  <2>1. n \in 0..n
    BY <1>0
  <2> HIDE DEF U
  <2> QED BY <1>5, <2>1
<1> QED BY <1>2, <1>6 DEF n

---------------------------------------------------------------------------
(* Sequences.                                                              *)

\* A sequence, whatever its elements.
IsSequence(s) == s \in Seq(ToSet(s))

\* The indexes of a sequence and its elements.
LEMMA SequenceShape ==
    ASSUME NEW s, IsSequence(s)
    PROVE  Len(s) \in Nat /\ DOMAIN s = 1..Len(s) /\ \A k \in 1..Len(s) : s[k] \in ToSet(s)
BY DEF IsSequence, ToSet

\* What appending, dropping the last and replacing an element do.
LEMMA SequenceAppended ==
    ASSUME NEW s, IsSequence(s), NEW e
    PROVE  /\ IsSequence(Append(s, e)) /\ Len(Append(s, e)) = Len(s) + 1
           /\ Append(s, e)[Len(s) + 1] = e
           /\ \A k \in 1..Len(s) : Append(s, e)[k] = s[k]
<1> DEFINE S == ToSet(s) \cup {e}
           t == Append(s, e)
<1>1. s \in Seq(S)
  BY SequenceShape DEF IsSequence
<1>2. /\ t \in Seq(S) /\ Len(t) = Len(s) + 1 /\ t[Len(s) + 1] = e
      /\ \A k \in 1..Len(s) : t[k] = s[k]
  BY <1>1
<1> HIDE DEF t
<1>3. IsSequence(t)
  BY <1>2 DEF IsSequence, ToSet
<1> QED BY <1>2, <1>3 DEF t

\* A sequence without its last element is one.
LEMMA SequencePopped ==
    ASSUME NEW s, IsSequence(s), s # <<>>
    PROVE  LET t == SubSeq(s, 1, Len(s) - 1) IN
           /\ IsSequence(t) /\ Len(t) = Len(s) - 1
           /\ \A k \in 1..(Len(s) - 1) : t[k] = s[k]
<1> DEFINE t == SubSeq(s, 1, Len(s) - 1)
<1>1. s \in Seq(ToSet(s)) /\ Len(s) \in Nat /\ Len(s) # 0
  BY DEF IsSequence
<1>2. /\ t \in Seq(ToSet(s)) /\ Len(t) = Len(s) - 1
      /\ \A k \in 1..(Len(s) - 1) : t[k] = s[k]
  <2>1. \A i \in 1..(Len(s) - 1) : s[i] \in ToSet(s)
    BY <1>1, SequenceShape
  <2> DEFINE m == Len(s) - 1
  <2>2. m \in Nat
    BY <1>1
  <2>3. /\ t \in Seq(ToSet(s)) /\ Len(t) = (IF 1 <= m THEN m - 1 + 1 ELSE 0)
        /\ \A i \in 1..(m - 1 + 1) : t[i] = s[1 + i - 1]
    <3> DEFINE S == ToSet(s)
    <3>1. \A i \in 1..m : s[i] \in S
      BY <2>1
    <3> HIDE DEF S, m
    <3>2. /\ SubSeq(s, 1, m) \in Seq(S) /\ Len(SubSeq(s, 1, m)) = (IF 1 <= m THEN m - 1 + 1 ELSE 0)
          /\ \A i \in 1..(m - 1 + 1) : SubSeq(s, 1, m)[i] = s[1 + i - 1]
      BY <2>2, <3>1, SubSeqProperties
    <3> QED BY <3>2 DEF S, m
  <2> HIDE DEF m, t
  <2>4. \A i \in 1..m : i \in 1..(m - 1 + 1) /\ 1 + i - 1 = i
    BY <2>2
  <2>5. Len(t) = m
    BY <2>2, <2>3
  <2>6. \A i \in 1..m : t[i] = s[i]
    BY <2>3, <2>4
  <2> QED BY <2>3, <2>5, <2>6 DEF m
<1> HIDE DEF t
<1>3. IsSequence(t)
  BY <1>2 DEF IsSequence, ToSet
<1> QED BY <1>2, <1>3 DEF t

\* A sequence with another element in one place is one.
LEMMA SequenceReplaced ==
    ASSUME NEW s, IsSequence(s), NEW k \in 1..Len(s), NEW e
    PROVE  LET t == [s EXCEPT ![k] = e] IN
           /\ IsSequence(t) /\ Len(t) = Len(s) /\ t[k] = e
           /\ \A h \in 1..Len(s) : h # k => t[h] = s[h]
<1> DEFINE S == ToSet(s) \cup {e}
           t == [s EXCEPT ![k] = e]
<1>1. s \in Seq(S)
  BY SequenceShape DEF IsSequence
<1>2. /\ t \in Seq(S) /\ Len(t) = Len(s) /\ t[k] = e
      /\ \A h \in 1..Len(s) : h # k => t[h] = s[h]
  BY <1>1
<1> HIDE DEF t
<1>3. IsSequence(t)
  BY <1>2 DEF IsSequence, ToSet
<1> QED BY <1>2, <1>3 DEF t

\* A sequence over any set is one.
LEMMA SequenceOver ==
    ASSUME NEW S, NEW s \in Seq(S) PROVE IsSequence(s)
BY DEF IsSequence, ToSet

\* Two sequences, one after the other.
LEMMA SequencesJoined ==
    ASSUME NEW s, IsSequence(s), NEW t, IsSequence(t)
    PROVE  IsSequence(s \o t) /\ Len(s \o t) = Len(s) + Len(t)
<1> DEFINE S == ToSet(s) \cup ToSet(t)
<1>1. s \in Seq(S) /\ t \in Seq(S)
  BY SequenceShape DEF IsSequence
<1> HIDE DEF S
<1>2. s \o t \in Seq(S) /\ Len(s \o t) = Len(s) + Len(t)
  BY <1>1
<1> QED BY <1>2, SequenceOver

---------------------------------------------------------------------------
(* Counting elements of sequences.                                         *)

\* Where x is in s.
Places(s, x) == {i \in DOMAIN s : s[i] = x}

LEMMA PlacesFinite ==
    ASSUME NEW S, NEW s \in Seq(S), NEW x
    PROVE  IsFiniteSet(Places(s, x)) /\ Cardinality(Places(s, x)) \in Nat
<1>1. Places(s, x) \in SUBSET (1..Len(s)) /\ Len(s) \in Nat
  BY DEF Places
<1>2. IsFiniteSet(1..Len(s))
  BY <1>1, FS_Interval
<1>3. IsFiniteSet(Places(s, x))
  BY <1>1, <1>2, FS_Subset
<1> QED BY <1>3, FS_CardinalityType

\* A sequence without x has it nowhere, one with x somewhere.
LEMMA PlacesOfElements ==
    ASSUME NEW S, NEW s \in Seq(S), NEW x
    PROVE  Cardinality(Places(s, x)) = 0 <=> x \notin ToSet(s)
<1>1. Cardinality(Places(s, x)) = 0 <=> Places(s, x) = {}
  BY PlacesFinite, FS_EmptySet
<1>2. Places(s, x) = {} <=> x \notin ToSet(s)
  BY DEF Places, ToSet
<1> QED BY <1>1, <1>2

\* Joined sequences have x as often as both together.
LEMMA PlacesJoined ==
    ASSUME NEW S, NEW s \in Seq(S), NEW t \in Seq(S), NEW x
    PROVE  Cardinality(Places(s \o t, x)) = Cardinality(Places(s, x)) + Cardinality(Places(t, x))
<1> DEFINE l == Len(s)
           r == s \o t
           P == Places(s, x)
           Q == Places(t, x)
           R == {i + l : i \in Q}
           f == [i \in Q |-> i + l]
<1>1. /\ l \in Nat /\ Len(t) \in Nat /\ DOMAIN s = 1..l /\ DOMAIN t = 1..Len(t)
      /\ DOMAIN r = 1..(l + Len(t))
      /\ \A i \in 1..l : r[i] = s[i]
      /\ \A i \in 1..Len(t) : r[i + l] = t[i]
  OBVIOUS
<1>2. IsFiniteSet(P) /\ IsFiniteSet(Q) /\ Cardinality(P) \in Nat /\ Cardinality(Q) \in Nat
  BY PlacesFinite
<1>3. P \subseteq 1..l /\ Q \subseteq 1..Len(t)
  BY <1>1 DEF Places
<1>4. Places(r, x) = P \cup R
  <2> HIDE DEF r, l
  <2>1. ASSUME NEW i \in Places(r, x) PROVE i \in P \cup R
    <3>1. CASE i <= l
      BY <1>1, <2>1, <3>1 DEF Places
    <3>2. CASE ~(i <= l)
      <4>1. i - l \in 1..Len(t) /\ (i - l) + l = i
        BY <1>1, <2>1, <3>2 DEF Places
      <4>2. i - l \in Q
        BY <1>1, <2>1, <4>1 DEF Places
      <4> QED BY <4>1, <4>2
    <3> QED BY <3>1, <3>2
  <2>2. P \subseteq Places(r, x)
    BY <1>1 DEF Places
  <2>3. R \subseteq Places(r, x)
    BY <1>1 DEF Places
  <2> QED BY <2>1, <2>2, <2>3
<1> HIDE DEF r, l, P, Q
<1>5. f \in Bijection(Q, R)
  <2>1. \A i, j \in Q : f[i] = f[j] => i = j
    BY <1>1, <1>3
  <2>2. f \in [Q -> R] /\ DOMAIN f = Q
    OBVIOUS
  <2>3. \A k \in R : \E i \in Q : f[i] = k
    OBVIOUS
  <2> HIDE DEF f, R
  <2>4. f \in Injection(Q, R)
    BY <2>1, <2>2 DEF Injection, IsInjective
  <2>5. f \in Surjection(Q, R)
    BY <2>2, <2>3 DEF Surjection
  <2> QED BY <2>4, <2>5 DEF Bijection
<1>6. IsFiniteSet(R) /\ Cardinality(R) = Cardinality(Q)
  <2>1. ExistsBijection(Q, R)
    BY <1>5 DEF ExistsBijection
  <2> HIDE DEF R
  <2> QED BY <1>2, <2>1, FS_Bijection
<1>7. P \cap R = {}
  BY <1>1, <1>3
<1>8. Cardinality(P \cup R) = Cardinality(P) + Cardinality(R) - Cardinality(P \cap R)
  <2> HIDE DEF R
  <2> QED BY <1>2, <1>6, FS_Union
<1>9. Cardinality(P \cap R) = 0
  BY <1>7, FS_EmptySet
<1>10. Cardinality(Places(r, x)) = Cardinality(P) + Cardinality(Q)
  BY <1>2, <1>4, <1>6, <1>8, <1>9
<1> QED BY <1>10 DEF r, P, Q

\* Some of the elements of e, in their order.
Selection(e, n, K) == FlattenSeq([i \in 1..n |-> IF i \in K THEN <<e[i]>> ELSE <<>>])

\* The chosen places of x.
Hits(e, K, x) == {i \in K : e[i] = x}

\* Choosing elements keeps each of them.
LEMMA PlacesChosen ==
    ASSUME NEW S, NEW n \in Nat, NEW e \in [1..n -> S], NEW K \in SUBSET (1..n), NEW x
    PROVE  /\ Selection(e, n, K) \in Seq(S)
           /\ Cardinality(Places(Selection(e, n, K), x)) = Cardinality(Hits(e, K, x))
<1> DEFINE piece(i) == IF i \in K THEN <<e[i]>> ELSE <<>>
           ss == [i \in 1..n |-> piece(i)]
           Hit(k) == {i \in K : i <= k /\ e[i] = x}
<1>0. /\ \A i \in K : i \in 1..n
      /\ \A k \in 0..n : \A i \in Hit(k + 1) : i \in Hit(k) \/ i = k + 1
      /\ \A k \in 0..n : \A i \in Hit(k) : i \in Hit(k + 1) /\ i # k + 1 /\ i \in 1..n
      /\ Hit(0) = {} /\ Hit(n) = {i \in K : e[i] = x}
  <2>1. \A i \in K : i \in 1..n
    OBVIOUS
  <2>2. ASSUME NEW k \in 0..n, NEW i \in Hit(k + 1) PROVE i \in Hit(k) \/ i = k + 1
    <3>1. i \in 1..n /\ i <= k + 1
      OBVIOUS
    <3>2. i <= k \/ i = k + 1
      BY <3>1
    <3> QED BY <3>2
  <2>3. ASSUME NEW k \in 0..n, NEW i \in Hit(k) PROVE i \in Hit(k + 1) /\ i # k + 1 /\ i \in 1..n
    <3>1. i \in 1..n /\ i <= k
      OBVIOUS
    <3>2. i <= k + 1 /\ i # k + 1
      BY <3>1
    <3> QED BY <3>1, <3>2
  <2>4. Hit(0) = {}
    <3> SUFFICES ASSUME NEW i \in Hit(0) PROVE FALSE
      OBVIOUS
    <3>1. i \in 1..n /\ i <= 0
      OBVIOUS
    <3> QED BY <3>1
  <2>5. \A i \in K : i <= n
    BY <2>1
  <2>6. Hit(n) = {i \in K : e[i] = x}
    BY <2>5
  <2> QED BY <2>1, <2>2, <2>3, <2>4, <2>6
<1>1. \A i \in 1..n : piece(i) \in Seq(S)
  OBVIOUS
<1>2. ss \in Seq(Seq(S)) /\ Len(ss) = n /\ \A i \in 1..n : ss[i] = piece(i)
  <2> HIDE DEF piece
  <2> QED BY <1>1
<1>3. Selection(e, n, K) = FlattenSeq(ss)
  BY DEF Selection
<1> HIDE DEF ss
<1>4. PICK h : Flattening(h, S, ss)
  BY <1>2, FlattenSeqUnfolds
<1>5. /\ h[0] = <<>> /\ (\A k \in 0..n : h[k] \in Seq(S)) /\ FlattenSeq(ss) = h[n]
      /\ \A k \in 1..n : h[k] = h[k - 1] \o piece(k)
  BY <1>2, <1>4 DEF Flattening
<1> DEFINE U == {k \in 0..n : Cardinality(Places(h[k], x)) = Cardinality(Hit(k))}
<1>6. 0 \in U
  <2>1. Hit(0) = {}
    BY <1>0
  <2>2. Places(h[0], x) = {}
    BY <1>5 DEF Places
  <2>3. 0 \in 0..n
    OBVIOUS
  <2> HIDE DEF Hit
  <2> QED BY <2>1, <2>2, <2>3
<1>7. ASSUME NEW k \in 0..n, k # n, k \in U PROVE k + 1 \in U
  <2>1. k + 1 \in 1..n /\ k + 1 \in 0..n /\ (k + 1) - 1 = k
    BY <1>7
  <2> DEFINE p == piece(k + 1)
             A == Hit(k)
             B == Hit(k + 1)
  <2>2. p \in Seq(S) /\ h[k] \in Seq(S) /\ h[k + 1] = h[k] \o p
    <3> HIDE DEF piece
    <3> QED BY <1>1, <1>5, <2>1
  <2>3. Cardinality(Places(h[k + 1], x)) = Cardinality(Places(h[k], x)) + Cardinality(Places(p, x))
    <3> HIDE DEF p
    <3> QED BY <2>2, PlacesJoined
  <2>4. IsFiniteSet(A) /\ Cardinality(A) \in Nat
    <3>1. A \in SUBSET (1..n)
      BY <1>0
    <3>2. IsFiniteSet(1..n)
      BY FS_Interval
    <3> HIDE DEF A
    <3>3. IsFiniteSet(A)
      BY <3>1, <3>2, FS_Subset
    <3> QED BY <3>3, FS_CardinalityType
  <2>5. CASE k + 1 \in K /\ e[k + 1] = x
    <3>1. B = A \cup {k + 1} /\ k + 1 \notin A
      <4>0. k + 1 <= k + 1
        OBVIOUS
      <4>1. k + 1 \in B
        BY <2>5, <4>0
      <4> HIDE DEF Hit
      <4> QED BY <1>0, <1>7, <4>1
    <3>2. Cardinality(B) = Cardinality(A) + 1
      <4> HIDE DEF A, B
      <4> QED BY <2>4, <3>1, FS_AddElement
    <3>3. Places(p, x) = {1}
      BY <2>5 DEF Places
    <3>4. Cardinality(Places(p, x)) = 1
      BY <3>3, FS_Singleton
    <3> HIDE DEF p
    <3> QED BY <1>7, <2>1, <2>3, <3>2, <3>4
  <2>6. CASE ~(k + 1 \in K /\ e[k + 1] = x)
    <3>1. B = A
      <4>1. k + 1 \notin B
        BY <2>6
      <4>2. (\A i \in B : i \in A \/ i = k + 1) /\ \A i \in A : i \in B
        BY <1>0
      <4> HIDE DEF A, B
      <4> QED BY <4>1, <4>2
    <3>2. Places(p, x) = {}
      BY <2>6 DEF Places
    <3>3. Cardinality(Places(p, x)) = 0
      BY <3>2, FS_EmptySet
    <3> HIDE DEF p, Hit
    <3> QED BY <1>7, <2>1, <2>3, <2>4, <3>1, <3>3
  <2> QED BY <2>5, <2>6
<1>8. 0..n \subseteq U
  <2> HIDE DEF U
  <2> QED BY <1>6, <1>7, IntervalInduction
<1>9. n \in 0..n /\ Hit(n) = {i \in K : e[i] = x}
  BY <1>0
<1>10. Cardinality(Places(h[n], x)) = Cardinality({i \in K : e[i] = x})
  BY <1>8, <1>9
<1>11. FlattenSeq(ss) \in Seq(S)
  BY <1>5, <1>9
<1> QED BY <1>3, <1>5, <1>10, <1>11 DEF Hits

===========================================================================
