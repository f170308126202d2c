----------------------------- MODULE PackProofs ---------------------------
(* Pack for every stream of values: the first pass's offsets are where the *)
(* second one puts the bytes, what is padded is padded where it says, and  *)
(* the streams that pack are the well-formed ones.                         *)
EXTENDS Pack, DataInduction

---------------------------------------------------------------------------
(* Widths.                                                                 *)

\* A sum is reached an addend at a time.
LEMMA SumUnfolds ==
    ASSUME NEW s \in Seq(Nat)
    PROVE  \E h : /\ SumOf(s) = h[Len(s)] /\ h[0] = 0 /\ \A k \in 0..Len(s) : h[k] \in Nat
                 /\ \A k \in 1..Len(s) : h[k] = h[k - 1] + s[k]
<1> DEFINE n    == Len(s)
           step == [p \in (1..n) \X Nat |-> p[2] + s[p[1]]]
           eq(f) == f = [k \in 0..n |-> IF k = 0 THEN 0 ELSE f[k - 1] + s[k]]
<1>0. n \in Nat /\ \A k \in 1..n : s[k] \in Nat
  OBVIOUS
<1>1. step \in [(1..n) \X Nat -> Nat]
  BY <1>0
<1>2. PICK f : RecursionOn(f, n, Nat, 0, step)
  <2> HIDE DEF step, n
  <2> QED BY <1>0, <1>1, RecursionExists
<1> HIDE DEF n
<1>3. /\ f = [k \in 0..n |-> f[k]] /\ f[0] = 0 /\ \A k \in 0..n : f[k] \in Nat
      /\ \A k \in 1..n : f[k] = step[<<k, f[k - 1]>>]
  BY <1>2 DEF RecursionOn
<1>4. ASSUME NEW k \in 0..n PROVE f[k] = IF k = 0 THEN 0 ELSE f[k - 1] + s[k]
  <2>1. CASE k = 0
    BY <1>3, <2>1
  <2>2. CASE k # 0
    <3>1. k \in 1..n /\ k - 1 \in 0..n
      BY <1>0, <2>2
    <3>2. f[k - 1] \in Nat
      BY <1>3, <3>1
    <3>3. step[<<k, f[k - 1]>>] = f[k - 1] + s[k]
      BY <3>1, <3>2
    <3> HIDE DEF step
    <3> QED BY <1>3, <2>2, <3>1, <3>3
  <2> QED BY <2>1, <2>2
<1>5. eq(f)
  BY <1>3, <1>4
<1> DEFINE h == CHOOSE h : eq(h)
<1>6. eq(h)
  <2> HIDE DEF eq
  <2> QED BY <1>5
<1>7. SumOf(s) = h[n]
  BY DEF SumOf, n
<1> HIDE DEF h
<1> DEFINE U == {k \in 0..n : h[k] \in Nat}
<1>8. 0 \in U
  <2>1. h[0] = 0
    BY <1>0, <1>6
  <2> QED BY <1>0, <2>1
<1>9. \A k \in 0..n : k # n /\ k \in U => k + 1 \in U
  <2>1. ASSUME NEW k \in 0..n, k # n, h[k] \in Nat PROVE k + 1 \in U
    <3>1. k + 1 \in 0..n /\ k + 1 # 0 /\ (k + 1) - 1 = k /\ k + 1 \in 1..n
      BY <1>0, <2>1
    <3>2. h[k + 1] = h[k] + s[k + 1]
      BY <1>6, <3>1
    <3>3. s[k + 1] \in Nat
      BY <1>0, <3>1
    <3> QED BY <2>1, <3>1, <3>2, <3>3
  <2> QED BY <2>1
<1>10. 0..n \subseteq U
  <2> HIDE DEF U
  <2> QED BY <1>0, <1>8, <1>9, IntervalInduction
<1>11. \A k \in 1..n : h[k] = h[k - 1] + s[k]
  BY <1>0, <1>6
<1>12. h[0] = 0
  BY <1>0, <1>6
<1> QED BY <1>7, <1>10, <1>11, <1>12 DEF n

\* A sum of natural numbers is one.
LEMMA SumType ==
    ASSUME NEW s \in Seq(Nat) PROVE SumOf(s) \in Nat
<1>1. Len(s) \in 0..Len(s)
  OBVIOUS
<1> QED BY <1>1, SumUnfolds

\* A value has a number of bits.
LEMMA BitsType ==
    ASSUME NEW v \in Value, v.kind = "data" PROVE ValueBits(v) \in Nat
<1>1. v.groups \in Seq(Group)
  BY DEF Value
<1>2. ASSUME NEW g \in Group PROVE GroupBits(g) \in Nat
  <2>1. g.fields \in Seq(Field)
    BY DEF Group
  <2>2. \A i \in DOMAIN g.fields : g.fields[i].width \in Nat
    BY <2>1 DEF Field
  <2>3. [i \in DOMAIN g.fields |-> g.fields[i].width] \in Seq(Nat)
    BY <2>1, <2>2
  <2> QED BY <2>3, SumType DEF GroupBits
<1>3. [i \in DOMAIN v.groups |-> GroupBits(v.groups[i])] \in Seq(Nat)
  <2>1. \A i \in DOMAIN v.groups : GroupBits(v.groups[i]) \in Nat
    BY <1>1, <1>2
  <2> QED BY <1>1, <2>1
<1> QED BY <1>3, SumType DEF ValueBits

\* The arithmetic of divisions, in the form the solver finds.
LEMMA Multiple ==
    ASSUME NEW n \in Nat \ {0}, NEW m \in Nat PROVE (n * m) % n = 0
OBVIOUS

\* The way to the next multiple.
LEMMA AlignType ==
    ASSUME NEW n \in Nat \ {0}, NEW offset \in Nat
    PROVE  /\ (n - (offset % n)) % n \in Nat
           /\ (offset + ((n - (offset % n)) % n)) % n = 0
<1> DEFINE r == offset % n
           q == offset \div n
<1>1. r \in 0..(n - 1) /\ q \in Nat /\ offset = n * q + r
  OBVIOUS
<1> HIDE DEF r, q
<1> DEFINE w == (n - r) % n
<1>2. w \in Nat /\ \E m \in Nat : offset + w = n * m
  <2>1. CASE r = 0
    <3>1. w = 0
      <4>1. n - r = n /\ n % n = 0
        BY <2>1
      <4> QED BY <4>1
    <3> HIDE DEF w
    <3>2. offset + w = n * q
      BY <1>1, <2>1, <3>1
    <3> QED BY <1>1, <3>1, <3>2
  <2>2. CASE r # 0
    <3>1. n - r \in 0..(n - 1)
      BY <1>1, <2>2
    <3>2. w = n - r
      BY <3>1
    <3> HIDE DEF w
    <3> DEFINE m == q + 1
    <3>3. m \in Nat /\ w \in Nat
      BY <1>1, <3>1, <3>2
    <3>4. offset + w = n * m
      BY <1>1, <3>2
    <3> HIDE DEF m
    <3> QED BY <3>3, <3>4
  <2> QED BY <2>1, <2>2
<1> HIDE DEF w
<1>3. (offset + w) % n = 0
  <2>1. PICK m \in Nat : offset + w = n * m
    BY <1>2
  <2> QED BY <2>1, Multiple
<1>4. (n - (offset % n)) % n = w
  BY Zenon DEF w, r
<1> QED BY <1>2, <1>3, <1>4, Zenon

\* What an entry adds, when it has a width, is that width.
LEMMA WidthType ==
    ASSUME NEW v \in Value, ~Misplaced(v), NEW offset \in Nat
    PROVE  /\ WidthOf(v, offset) \in Nat
           /\ v.kind \in {"data", "align", "pad"}
           /\ v.kind \in {"align", "pad"} => v.n \in Nat \ {0}
           /\ v.kind = "align" => (offset + WidthOf(v, offset)) % v.n = 0
           /\ v.kind = "pad" => WidthOf(v, offset) = 0
           /\ v.kind = "data" => WidthOf(v, offset) = CeilDiv(ValueBits(v), 8)
<1>1. v.kind \in {"data", "align", "pad"} /\ (v.kind \in {"align", "pad"} => v.n \in Nat \ {0})
  BY DEF Value, Misplaced
<1>2. CASE v.kind = "data"
  <2>1. WidthOf(v, offset) = CeilDiv(ValueBits(v), 8)
    BY <1>2 DEF WidthOf
  <2>2. CeilDiv(ValueBits(v), 8) \in Nat
    BY <1>2, BitsType DEF CeilDiv
  <2> QED BY <1>2, <2>1, <2>2
<1>3. CASE v.kind = "pad"
  BY <1>1, <1>3 DEF WidthOf
<1>4. CASE v.kind = "align"
  <2>1. WidthOf(v, offset) = (v.n - (offset % v.n)) % v.n
    BY <1>4 DEF WidthOf
  <2>2. v.n \in Nat \ {0}
    BY <1>1, <1>4
  <2>3. WidthOf(v, offset) \in Nat /\ (offset + WidthOf(v, offset)) % v.n = 0
    BY <2>1, <2>2, AlignType
  <2> QED BY <1>4, <2>2, <2>3
<1> QED BY <1>1, <1>2, <1>3, <1>4

\* A division is known by its quotient and remainder.
LEMMA Division ==
    ASSUME NEW n \in Nat \ {0}, NEW q \in Nat, NEW r \in 0..(n - 1) PROVE (n * q + r) \div n = q
OBVIOUS

\* Rounding up to a multiple takes the fewest steps.
LEMMA RoundedUp ==
    ASSUME NEW n \in Nat \ {0}, NEW len \in Nat
    PROVE  LET size == CeilDiv(len, n) * n IN
           size \in Nat /\ size - len \in 0..(n - 1) /\ size % n = 0 /\ (len % n = 0 => size = len)
<1> DEFINE r == len % n
           q == len \div n
           c == CeilDiv(len, n)
<1>1. r \in 0..(n - 1) /\ q \in Nat /\ len = n * q + r
  OBVIOUS
<1>2. c = (len + n - 1) \div n
  BY DEF CeilDiv
<1> HIDE DEF r, q, c
<1>3. CASE r = 0
  <2>1. len + n - 1 = n * q + (n - 1) /\ n - 1 \in 0..(n - 1)
    BY <1>1, <1>3
  <2>2. c = q
    BY <1>1, <1>2, <2>1, Division
  <2>3. c * n = n * q /\ c * n = len
    BY <1>1, <1>3, <2>2
  <2>4. (c * n) % n = 0
    BY <1>1, <2>3, Multiple
  <2> QED BY <1>1, <2>3, <2>4 DEF c
<1>4. CASE r # 0
  <2> DEFINE m == q + 1
             s == r - 1
  <2>1. m \in Nat /\ s \in 0..(n - 1)
    BY <1>1, <1>4
  <2>2. len + n - 1 = n * m + s
    BY <1>1
  <2> HIDE DEF m, s
  <2>3. c = m
    BY <1>2, <2>1, <2>2, Division
  <2>4. c * n = n * m
    BY <2>1, <2>3
  <2>5. (c * n) % n = 0
    BY <2>1, <2>4, Multiple
  <2>6. c * n = len + (n - r)
    <3>1. n * m = n * q + n
      BY <1>1 DEF m
    <3> QED BY <1>1, <2>4, <3>1
  <2>7. c * n \in Nat /\ (c * n) - len \in 0..(n - 1)
    BY <1>1, <1>4, <2>6
  <2>8. len % n # 0
    BY <1>4 DEF r
  <2> QED BY <2>5, <2>7, <2>8 DEF c
<1> QED BY <1>1, <1>3, <1>4

---------------------------------------------------------------------------
(* What is written for an entry.                                           *)

\* What a concatenation holds, whatever the elements are.
LEMMA Concatenation ==
    ASSUME NEW s, IsSequence(s), NEW t, IsSequence(t)
    PROVE  /\ IsSequence(s \o t) /\ Len(s \o t) = Len(s) + Len(t)
           /\ \A i \in 1..Len(s) : (s \o t)[i] = s[i]
           /\ \A i \in 1..Len(t) : (s \o t)[Len(s) + i] = t[i]
           /\ Len(s) \in Nat /\ Len(t) \in Nat
<1> DEFINE S == ToSet(s) \cup ToSet(t)
<1>1. s \in Seq(S) /\ t \in Seq(S)
  BY SequenceShape DEF IsSequence
<1>2. /\ s \o t \in Seq(S) /\ Len(s \o t) = Len(s) + Len(t)
      /\ \A i \in 1..Len(s) : (s \o t)[i] = s[i]
      /\ \A i \in 1..Len(t) : (s \o t)[Len(s) + i] = t[i]
  <2> HIDE DEF S
  <2> QED BY <1>1
<1>3. IsSequence(s \o t)
  <2> DEFINE u == s \o t
  <2>1. \A i \in 1..Len(u) : u[i] \in ToSet(u)
    <3>1. u \in Seq(S)
      BY <1>2
    <3> HIDE DEF u, S
    <3> QED BY <3>1 DEF ToSet
  <2>2. u \in Seq(S)
    BY <1>2
  <2> HIDE DEF u, S
  <2>3. u \in Seq(ToSet(u))
    BY <2>1, <2>2
  <2> QED BY <2>3 DEF IsSequence, u
<1> QED BY <1>1, <1>2, <1>3

\* Padding is zeros.
LEMMA ZeroBytes ==
    ASSUME NEW n \in Nat
    PROVE  IsSequence(Zeros(n)) /\ Len(Zeros(n)) = n /\ \A i \in 1..n : Zeros(n)[i] = 0
<1> DEFINE z == Zeros(n)
<1>1. z \in Seq({0}) /\ Len(z) = n /\ \A i \in 1..n : z[i] = 0
  BY DEF Zeros
<1> HIDE DEF z
<1>2. \A i \in 1..Len(z) : z[i] \in ToSet(z)
  BY <1>1 DEF ToSet
<1>3. z \in Seq(ToSet(z))
  BY <1>1, <1>2
<1> QED BY <1>1, <1>3 DEF IsSequence, z

\* As many bytes as the first pass counted, and one for a value of no bits.
LEMMA PackedLength ==
    ASSUME NEW v \in Value, v.kind = "data", NEW here
    PROVE  /\ IsSequence(PackedBytes(v, here))
           /\ Len(PackedBytes(v, here)) = IF ValueBits(v) = 0 THEN 1 ELSE CeilDiv(ValueBits(v), 8)
<1> DEFINE w == Concatenated([i \in DOMAIN v.groups |-> GroupBits(v.groups[i])],
                             [i \in DOMAIN v.groups |-> GroupValue(v.groups[i], here)])
           n == CeilDiv(ValueBits(v), 8)
           len == IF n = 0 THEN 1 ELSE n
           bs == ToBytes(w, n)
<1>1. n \in Nat /\ len \in Nat /\ len = IF ValueBits(v) = 0 THEN 1 ELSE CeilDiv(ValueBits(v), 8)
  BY BitsType DEF CeilDiv
<1>2. PackedBytes(v, here) = bs
  BY DEF PackedBytes
<1> HIDE DEF w
<1>3. bs = [i \in 1..len |-> (w \div 256^(len - i)) % 256]
  BY DEF ToBytes
<1> HIDE DEF bs, len, n
<1>4. DOMAIN bs = 1..len /\ bs = [i \in 1..len |-> bs[i]]
  BY <1>3
<1>5. bs \in Seq({bs[i] : i \in 1..len}) /\ Len(bs) = len
  BY <1>1, <1>4
<1>6. bs \in Seq(ToSet(bs))
  BY <1>1, <1>4, <1>5 DEF ToSet
<1> QED BY <1>1, <1>2, <1>5, <1>6 DEF IsSequence

---------------------------------------------------------------------------
(* The inductive invariant.                                                *)

Measured ==
    /\ stream \in Seq(Value)
    /\ widths \in Seq(Nat) /\ Len(widths) <= Len(stream)
    /\ offsets \in Seq(Nat) /\ Len(offsets) = Len(widths) + 1 /\ offsets[1] = 0
    /\ \A k \in 1..Len(widths) :
           /\ ~Misplaced(stream[k])
           /\ widths[k] = WidthOf(stream[k], offsets[k]) /\ offsets[k + 1] = offsets[k] + widths[k]

Placed ==
    /\ phase \in {"widths", "pack", "pad", "done", "failed"}
    /\ IsSequence(bytes) /\ starts \in Seq(Nat) /\ padTo \in Seq(Nat \ {0})
    /\ phase = "widths" => starts = <<>> /\ bytes = <<>> /\ padTo = <<>>
    /\ phase \in {"pack", "pad", "done"} \/ starts # <<>> => Len(widths) = Len(stream)
    /\ Len(starts) <= Len(stream) + 1
    /\ phase = "pack" => Len(starts) <= Len(stream)
    /\ phase \in {"pad", "done"} => Len(starts) = Len(stream) + 1

\* While the values are packed, the image ends where the next one goes.
Matched ==
    /\ PassesAgree
    /\ phase \in {"widths", "pack"} => Len(bytes) = offsets[Len(starts) + 1]

Sorted ==
    /\ \A k \in 1..Len(stream) : k <= Len(starts) => EntryInOrder(stream[k], k - 1)
    /\ phase = "failed" => ~WellFormed

\* What is to be padded, and how far that is done.
Noted ==
    /\ ToSet(padTo) \subseteq PadSizes
    /\ phase = "pack" =>
           \A k \in 1..Len(starts) :
               /\ stream[k].kind = "pad" => stream[k].n \in ToSet(padTo)
               /\ LastPad(k, Len(starts)) => padTo # <<>> /\ padTo[Len(padTo)] = stream[k].n
    /\ phase = "done" => padTo = <<>>

\* The multiple of n that a size is rounded up to.
Ceiling(n, size, c) == c \in Nat /\ Divides(n, c) /\ size <= c /\ c < size + n

PaddedSoFar ==
    LET size == starts[Len(stream) + 1] IN
    /\ size <= Len(bytes) /\ \A i \in (size + 1)..Len(bytes) : bytes[i] = 0
    /\ PadSizes = {} => Len(bytes) = size
    /\ \A k \in 1..Len(stream) : LastPad(k, Len(stream)) =>
           IF padTo = <<>> THEN Divides(stream[k].n, Len(bytes)) ELSE padTo[Len(padTo)] = stream[k].n
    /\ \A n \in PadSizes : (\A m \in PadSizes : Divides(m, n)) =>
           /\ \E c : Ceiling(n, size, c) /\ Len(bytes) <= c
           /\ n \in ToSet(padTo) \/ Divides(n, Len(bytes))

Padding == Noted /\ (phase \in {"pad", "done"} => PaddedSoFar)

IInv == Measured /\ Placed /\ (NoEmptyValue => Matched) /\ Sorted /\ Padding

---------------------------------------------------------------------------
(* Packing is refused exactly where the stream is not well-formed.         *)

\* The bytes between two positions, summed from the widths, are the
\* difference of their offsets.
LEMMA SpanIsDistance ==
    ASSUME Measured, NEW from \in 0..Len(widths), NEW to \in 0..Len(widths)
    PROVE  Span(from, to) = offsets[to + 1] - offsets[from + 1]
<1>0. /\ widths \in Seq(Nat) /\ Len(widths) \in Nat /\ offsets \in Seq(Nat) /\ Len(offsets) = Len(widths) + 1
      /\ \A k \in 1..Len(widths) : offsets[k + 1] = offsets[k] + widths[k] /\ widths[k] \in Nat
  BY DEF Measured
<1>1. ASSUME NEW a \in 0..Len(widths), NEW b \in a..Len(widths)
      PROVE  SumOf(SubSeq(widths, a + 1, b)) = offsets[b + 1] - offsets[a + 1]
  <2> DEFINE s == SubSeq(widths, a + 1, b)
             n == b - a
  <2>1. n \in Nat /\ a \in Nat /\ a + n = b /\ b \in 0..Len(widths) /\ \A k \in 1..n : a + k \in 1..Len(widths)
    BY <1>0, <1>1
  <2>2. s \in Seq(Nat) /\ Len(s) = n /\ \A k \in 1..n : s[k] = widths[a + k]
    <3>1. a + 1 \in Int /\ b \in Int /\ \A i \in (a + 1)..b : widths[i] \in Nat
      BY <1>0, <2>1
    <3>2. /\ s \in Seq(Nat) /\ Len(s) = IF a + 1 <= b THEN b - (a + 1) + 1 ELSE 0
          /\ \A i \in 1..(b - (a + 1) + 1) : s[i] = widths[(a + 1) + i - 1]
      BY <3>1, SubSeqProperties
    <3> HIDE DEF s
    <3>3. b - (a + 1) + 1 = n /\ \A i \in 1..n : (a + 1) + i - 1 = a + i
      BY <2>1
    <3>4. Len(s) = n
      BY <2>1, <3>2
    <3> QED BY <3>2, <3>3, <3>4
  <2> HIDE DEF s, n
  <2>3. PICK h : /\ SumOf(s) = h[n] /\ h[0] = 0 /\ \A k \in 0..n : h[k] \in Nat
                 /\ \A k \in 1..n : h[k] = h[k - 1] + s[k]
    BY <2>2, SumUnfolds
  <2> DEFINE S == {k \in 0..n : h[k] = offsets[(a + k) + 1] - offsets[a + 1]}
  <2>4. \A k \in 0..n : offsets[(a + k) + 1] \in Nat
    BY <1>0, <2>1
  <2>5. 0 \in S
    <3>1. 0 \in 0..n /\ (a + 0) + 1 = a + 1
      BY <2>1
    <3>2. offsets[a + 1] \in Nat
      BY <2>4, <3>1
    <3>3. h[0] = offsets[(a + 0) + 1] - offsets[a + 1]
      BY <2>3, <3>1, <3>2
    <3> QED BY <3>1, <3>3
  <2>6. ASSUME NEW k \in 0..n, k # n, k \in S PROVE k + 1 \in S
    <3>1. k + 1 \in 1..n /\ k + 1 \in 0..n /\ (k + 1) - 1 = k /\ a + (k + 1) = (a + k) + 1 /\ 0 \in 0..n /\ a + 0 = a
          /\ a + (k + 1) \in 1..Len(widths)
      BY <2>1, <2>6
    <3>2. h[k + 1] = h[k] + widths[a + (k + 1)]
      BY <2>2, <2>3, <3>1
    <3>3. offsets[(a + (k + 1)) + 1] = offsets[(a + k) + 1] + widths[a + (k + 1)]
      BY <1>0, <3>1
    <3>4. offsets[(a + k) + 1] \in Nat /\ offsets[a + 1] \in Nat /\ widths[a + (k + 1)] \in Nat
      <4>1. offsets[(a + 0) + 1] \in Nat
        BY <2>4, <3>1
      <4>2. widths[a + (k + 1)] \in Nat
        BY <1>0, <3>1
      <4> QED BY <2>4, <3>1, <4>1, <4>2
    <3>5. h[k] = offsets[(a + k) + 1] - offsets[a + 1]
      BY <2>6
    <3>6. h[k + 1] = offsets[(a + (k + 1)) + 1] - offsets[a + 1]
      BY <3>2, <3>3, <3>4, <3>5
    <3> QED BY <3>1, <3>6
  <2>7. 0..n \subseteq S
    <3> HIDE DEF S
    <3> QED BY <2>1, <2>5, <2>6, IntervalInduction
  <2>8. n \in S
    BY <2>1, <2>7
  <2> QED BY <2>1, <2>3, <2>8 DEF s
<1>2. offsets[to + 1] \in Nat /\ offsets[from + 1] \in Nat
  BY <1>0
<1>3. CASE from <= to
  <2>1. to \in from..Len(widths)
    BY <1>0, <1>3
  <2>2. SumOf(SubSeq(widths, from + 1, to)) = offsets[to + 1] - offsets[from + 1]
    BY <1>1, <2>1
  <2> QED BY <1>3, <2>2 DEF Span
<1>4. CASE ~(from <= to)
  <2>1. from \in to..Len(widths)
    BY <1>0, <1>4
  <2>2. SumOf(SubSeq(widths, to + 1, from)) = offsets[from + 1] - offsets[to + 1]
    BY <1>1, <2>1
  <2> QED BY <1>2, <1>4, <2>2 DEF Span
<1> QED BY <1>3, <1>4

\* The shape of an expression.
LEMMA ExprShape ==
    ASSUME NEW e \in Expr
    PROVE  /\ Len(e) \in Nat \ {0} /\ \A i \in 1..Len(e) : e[i] \in Node /\ Operands(e[i]) \subseteq 1..(i - 1)
           /\ \A i \in 1..(Len(e) - 1) : \E k \in (i + 1)..Len(e) : i \in Operands(e[k])
<1>1. e \in Seq(Node) /\ e # <<>>
  BY DEF Expr
<1> QED BY <1>1 DEF Expr

\* Each node resolves to what its operands make of it, and the last one is
\* the expression.
LEMMA ResolveUnfolds ==
    ASSUME NEW e \in Expr, NEW here
    PROVE  \E value : /\ \A i \in 1..Len(e) : value[i] = ResolveNode(e[i], value, here)
                      /\ ResolveDeferred(e, here) = value[Len(e)]
<1> DEFINE n == Len(e)
           Right(g, m) == g = [i \in 1..n |-> g[i]] /\ \A i \in 1..m : g[i] = ResolveNode(e[i], g, here)
           S == {m \in 0..n : \E g : Right(g, m)}
           eq(f) == f = [i \in 1..Len(e) |-> ResolveNode(e[i], f, here)]
<1>0. n \in Nat \ {0} /\ \A i \in 1..n : Operands(e[i]) \subseteq 1..(i - 1)
  BY ExprShape
<1> HIDE DEF n
<1>1. 0 \in S
  <2> DEFINE g == [i \in 1..n |-> 0]
  <2>1. g = [i \in 1..n |-> g[i]]
    OBVIOUS
  <2> HIDE DEF g
  <2>2. Right(g, 0)
    BY <2>1
  <2> QED BY <1>0, <2>2
<1>2. ASSUME NEW m \in 0..n, m # n, m \in S PROVE m + 1 \in S
  <2>1. PICK g : Right(g, m)
    BY <1>2
  <2> DEFINE v == ResolveNode(e[m + 1], g, here)
             f == [i \in 1..n |-> IF i = m + 1 THEN v ELSE g[i]]
  <2> HIDE DEF v
  <2>2. f = [i \in 1..n |-> f[i]] /\ (\A i \in 1..m : f[i] = g[i]) /\ f[m + 1] = v
    BY <1>0, <1>2
  <2> HIDE DEF f
  <2>3. ASSUME NEW i \in 1..(m + 1) PROVE ResolveNode(e[i], f, here) = ResolveNode(e[i], g, here)
    <3>1. i \in 1..n /\ 1..(i - 1) \subseteq 1..m
      BY <1>0, <1>2
    <3>2. \A j \in Operands(e[i]) : f[j] = g[j]
      BY <1>0, <2>2, <3>1
    <3>3. e[i].kind = "op" => f[e[i].left] = g[e[i].left] /\ f[e[i].right] = g[e[i].right]
      BY <3>2 DEF Operands
    <3> QED BY <3>3, Zenon DEF ResolveNode
  <2>4. ASSUME NEW i \in 1..(m + 1) PROVE f[i] = ResolveNode(e[i], f, here)
    <3>1. CASE i = m + 1
      BY <2>2, <2>3, <3>1 DEF v
    <3>2. CASE i # m + 1
      <4>1. i \in 1..m
        BY <1>2, <3>2
      <4> QED BY <2>1, <2>2, <2>3, <4>1
    <3> QED BY <3>1, <3>2
  <2>5. Right(f, m + 1)
    BY <2>2, <2>4
  <2> HIDE DEF Right
  <2> QED BY <1>0, <1>2, <2>5
<1>3. n \in S
  <2> HIDE DEF S
  <2>1. 0..n \subseteq S
    BY <1>0, <1>1, <1>2, IntervalInduction
  <2> QED BY <1>0, <2>1
<1>4. PICK g : Right(g, n)
  BY <1>3
<1>5. eq(g)
  <2>1. g = [i \in 1..n |-> g[i]] /\ \A i \in 1..n : g[i] = ResolveNode(e[i], g, here)
    BY <1>4
  <2>2. [i \in 1..n |-> g[i]] = [i \in 1..n |-> ResolveNode(e[i], g, here)]
    BY <2>1, Zenon
  <2> QED BY <2>1, <2>2, Zenon DEF n
<1> DEFINE value == CHOOSE f : eq(f)
<1>6. eq(value)
  <2> HIDE DEF eq
  <2> QED BY <1>5
<1>7. ResolveDeferred(e, here) = value[Len(e)]
  BY DEF ResolveDeferred
<1> HIDE DEF value
<1>8. \A i \in 1..Len(e) : value[i] = ResolveNode(e[i], value, here)
  BY <1>6, Zenon
<1> QED BY <1>7, <1>8

\* The same of the reference.
LEMMA MeansUnfolds ==
    ASSUME NEW e \in Expr, NEW place, NEW here
    PROVE  \A i \in 1..Len(e) : Means(e, place, here)[i] = NodeMeans(e[i], Means(e, place, here), place, here)
<1> DEFINE n == Len(e)
           Right(g, m) == g = [i \in 1..n |-> g[i]] /\ \A i \in 1..m : g[i] = NodeMeans(e[i], g, place, here)
           S == {m \in 0..n : \E g : Right(g, m)}
           eq(f) == f = [i \in 1..Len(e) |-> NodeMeans(e[i], f, place, here)]
<1>0. n \in Nat \ {0} /\ \A i \in 1..n : Operands(e[i]) \subseteq 1..(i - 1)
  BY ExprShape
<1> HIDE DEF n
<1>1. 0 \in S
  <2> DEFINE g == [i \in 1..n |-> 0]
  <2>1. g = [i \in 1..n |-> g[i]]
    OBVIOUS
  <2> HIDE DEF g
  <2>2. Right(g, 0)
    BY <2>1
  <2> QED BY <1>0, <2>2
<1>2. ASSUME NEW m \in 0..n, m # n, m \in S PROVE m + 1 \in S
  <2>1. PICK g : Right(g, m)
    BY <1>2
  <2> DEFINE v == NodeMeans(e[m + 1], g, place, here)
             f == [i \in 1..n |-> IF i = m + 1 THEN v ELSE g[i]]
  <2> HIDE DEF v
  <2>2. f = [i \in 1..n |-> f[i]] /\ (\A i \in 1..m : f[i] = g[i]) /\ f[m + 1] = v
    BY <1>0, <1>2
  <2> HIDE DEF f
  <2>3. ASSUME NEW i \in 1..(m + 1) PROVE NodeMeans(e[i], f, place, here) = NodeMeans(e[i], g, place, here)
    <3>1. i \in 1..n /\ 1..(i - 1) \subseteq 1..m
      BY <1>0, <1>2
    <3>2. \A j \in Operands(e[i]) : f[j] = g[j]
      BY <1>0, <2>2, <3>1
    <3>3. e[i].kind = "op" => f[e[i].left] = g[e[i].left] /\ f[e[i].right] = g[e[i].right]
      BY <3>2 DEF Operands
    <3> QED BY <3>3, Zenon DEF NodeMeans
  <2>4. ASSUME NEW i \in 1..(m + 1) PROVE f[i] = NodeMeans(e[i], f, place, here)
    <3>1. CASE i = m + 1
      BY <2>2, <2>3, <3>1 DEF v
    <3>2. CASE i # m + 1
      <4>1. i \in 1..m
        BY <1>2, <3>2
      <4> QED BY <2>1, <2>2, <2>3, <4>1
    <3> QED BY <3>1, <3>2
  <2>5. Right(f, m + 1)
    BY <2>2, <2>4
  <2> HIDE DEF Right
  <2> QED BY <1>0, <1>2, <2>5
<1>3. n \in S
  <2> HIDE DEF S
  <2>1. 0..n \subseteq S
    BY <1>0, <1>1, <1>2, IntervalInduction
  <2> QED BY <1>0, <2>1
<1>4. PICK g : Right(g, n)
  BY <1>3
<1>5. eq(g)
  <2>1. g = [i \in 1..n |-> g[i]] /\ \A i \in 1..n : g[i] = NodeMeans(e[i], g, place, here)
    BY <1>4
  <2>2. [i \in 1..n |-> g[i]] = [i \in 1..n |-> NodeMeans(e[i], g, place, here)]
    BY <2>1, Zenon
  <2> QED BY <2>1, <2>2, Zenon DEF n
<1> DEFINE means == CHOOSE f : eq(f)
<1>6. eq(means)
  <2> HIDE DEF eq
  <2> QED BY <1>5
<1>7. Means(e, place, here) = means
  BY DEF Means
<1> HIDE DEF means
<1> QED BY <1>6, <1>7, Zenon

\* A node whose operands resolve to what they mean resolves to what it
\* means if it is in order, and to nothing otherwise.
LEMMA NodeResolves ==
    ASSUME Measured, Len(widths) = Len(stream), NEW node \in Node, NEW value, NEW means, NEW here,
           \A j \in Operands(node) : value[j] = <<means[j]>>
    PROVE  /\ NodeInOrder(node, means) => ResolveNode(node, value, here) = <<NodeMeans(node, means, offsets, here)>>
           /\ ~NodeInOrder(node, means) => ResolveNode(node, value, here) = <<>>
<1>1. node.kind \in {"leaf", "here", "op", "malformed"} /\ (node.kind = "op" => node.op \in Operator \cup {"other"})
  BY DEF Node
<1>2. CASE node.kind # "op"
  BY <1>1, <1>2 DEF ResolveNode, NodeMeans, NodeInOrder
<1>3. CASE node.kind = "op"
  <2> DEFINE l == means[node.left]
             r == means[node.right]
  <2>1. value[node.left] = <<l>> /\ value[node.right] = <<r>>
    BY <1>3 DEF Operands
  <2> HIDE DEF l, r
  <2>2. value[node.left] # <<>> /\ value[node.right] # <<>> /\ value[node.left][1] = l /\ value[node.right][1] = r
    BY <2>1
  <2>3. CASE node.op = "Span"
    <3>1. ResolveNode(node, value, here) = ResolveOp("Span", l, r)
      BY <1>3, <2>2, <2>3 DEF ResolveNode, Operator
    <3>2. NodeMeans(node, means, offsets, here) = Distance(offsets, l, r)
      BY <1>3, <2>3 DEF NodeMeans, l, r
    <3>3. NodeInOrder(node, means) <=> {l, r} \subseteq Positions
      BY <1>3, <2>3 DEF NodeInOrder, l, r
    <3>4. SpanEndpointsOk(l, r) <=> {l, r} \subseteq Positions
      BY DEF SpanEndpointsOk, Positions
    <3>5. {l, r} \subseteq Positions => Span(l, r) = Distance(offsets, l, r)
      BY SpanIsDistance DEF Positions, Distance
    <3> QED BY <3>1, <3>2, <3>3, <3>4, <3>5 DEF ResolveOp
  <2>4. CASE node.op \in Operator \ {"Span"}
    <3>1. ResolveNode(node, value, here) = ResolveOp(node.op, l, r)
      BY <1>3, <2>2, <2>4 DEF ResolveNode
    <3>2. NodeMeans(node, means, offsets, here) = Arithmetic(node.op, l, r)
      BY <1>3, <2>4 DEF NodeMeans, l, r
    <3>3. NodeInOrder(node, means)
      BY <1>3, <2>4 DEF NodeInOrder, Operator
    <3> QED BY <2>4, <3>1, <3>2, <3>3 DEF ResolveOp
  <2>5. CASE node.op = "other"
    BY <1>3, <2>5 DEF ResolveNode, NodeInOrder, Operator
  <2> QED BY <1>1, <1>3, <2>3, <2>4, <2>5 DEF Operator
<1> QED BY <1>2, <1>3

\* An error in an operand is one of the whole.
LEMMA ErrorPasses ==
    ASSUME NEW node, NEW value, NEW here, \E j \in Operands(node) : value[j] = <<>>
    PROVE  ResolveNode(node, value, here) = <<>>
<1>1. node.kind = "op" /\ (value[node.left] = <<>> \/ value[node.right] = <<>>)
  BY DEF Operands
<1> QED BY <1>1 DEF ResolveNode

\* An expression resolves exactly when all its nodes are in order.
LEMMA ExpressionResolves ==
    ASSUME Measured, Len(widths) = Len(stream), NEW e \in Expr, NEW here
    PROVE  ResolveDeferred(e, here) = <<>>
               <=> ~\A i \in 1..Len(e) : NodeInOrder(e[i], Means(e, offsets, here))
<1> DEFINE n == Len(e)
           means == Means(e, offsets, here)
           Ok(i) == NodeInOrder(e[i], means)
<1>0. /\ n \in Nat \ {0} /\ \A i \in 1..n : e[i] \in Node /\ Operands(e[i]) \subseteq 1..(i - 1)
      /\ \A i \in 1..(n - 1) : \E k \in (i + 1)..n : i \in Operands(e[k])
  BY ExprShape
<1>1. PICK value : (\A i \in 1..n : value[i] = ResolveNode(e[i], value, here)) /\ ResolveDeferred(e, here) = value[n]
  BY ResolveUnfolds
<1>2. \A i \in 1..n : means[i] = NodeMeans(e[i], means, offsets, here)
  BY MeansUnfolds
<1> HIDE DEF n, means
<1>3. ASSUME NEW i \in 1..n, \A j \in 1..(i - 1) : value[j] = <<means[j]>>
      PROVE  (Ok(i) => value[i] = <<means[i]>>) /\ (~Ok(i) => value[i] = <<>>)
  <2>1. e[i] \in Node /\ \A j \in Operands(e[i]) : value[j] = <<means[j]>>
    BY <1>0, <1>3
  <2>2. value[i] = ResolveNode(e[i], value, here) /\ means[i] = NodeMeans(e[i], means, offsets, here)
    BY <1>1, <1>2
  <2> QED BY <2>1, <2>2, NodeResolves
<1> HIDE DEF Ok
<1>4. ASSUME NEW b \in 0..n, \A i \in 1..b : Ok(i) PROVE \A i \in 1..b : value[i] = <<means[i]>>
  <2> DEFINE S == {m \in 0..b : \A i \in 1..m : value[i] = <<means[i]>>}
  <2>1. 0 \in S
    BY <1>0, <1>4
  <2>2. ASSUME NEW m \in 0..b, m # b, m \in S PROVE m + 1 \in S
    <3>1. m + 1 \in 1..b /\ m + 1 \in 1..n /\ (m + 1) - 1 = m /\ m + 1 \in 0..b
      BY <1>0, <1>4, <2>2
    <3>2. \A j \in 1..m : value[j] = <<means[j]>>
      BY <2>2
    <3>3. value[m + 1] = <<means[m + 1]>>
      BY <1>3, <1>4, <3>1, <3>2
    <3>4. \A i \in 1..(m + 1) : i = m + 1 \/ i \in 1..m
      BY <3>1
    <3>5. \A i \in 1..(m + 1) : value[i] = <<means[i]>>
      BY <3>2, <3>3, <3>4
    <3> QED BY <3>1, <3>5
  <2>3. 0..b \subseteq S
    <3> HIDE DEF S
    <3>1. b \in Nat
      BY <1>0, <1>4
    <3> QED BY <2>1, <2>2, <3>1, IntervalInduction
  <2>4. b \in S
    BY <1>0, <1>4, <2>3
  <2> QED BY <2>4
<1>5. CASE \A i \in 1..n : Ok(i)
  <2>1. n \in 0..n /\ n \in 1..n
    BY <1>0
  <2>2. value[n] = <<means[n]>>
    BY <1>4, <1>5, <2>1
  <2>3. value[n] # <<>>
    BY <2>2
  <2> QED BY <1>1, <1>5, <2>3 DEF Ok, n, means
<1>6. CASE ~\A i \in 1..n : Ok(i)
  <2> DEFINE T == {i \in 1..n : ~Ok(i)}
  <2>1. T \subseteq Nat /\ T # {}
    BY <1>0, <1>6
  <2>2. PICK j \in T : \A i \in T : ~(i < j)
    <3> HIDE DEF T
    <3> QED BY <2>1, LeastNumber
  <2>3. j \in 1..n /\ ~Ok(j) /\ j - 1 \in 0..n /\ \A i \in 1..(j - 1) : Ok(i)
    BY <1>0, <2>2
  <2>4. value[j] = <<>>
    BY <1>3, <1>4, <2>3
  <2> DEFINE U == {n - i : i \in {i \in 1..n : value[i] = <<>>}}
  <2>5. U \subseteq Nat /\ n - j \in U
    BY <1>0, <2>3, <2>4
  <2>6. PICK x \in U : \A y \in U : ~(y < x)
    <3> HIDE DEF U
    <3> QED BY <2>5, LeastNumber
  <2>7. PICK k \in 1..n : value[k] = <<>> /\ x = n - k
    BY <2>6
  <2>8. k = n
    <3> SUFFICES ASSUME k # n PROVE FALSE
      OBVIOUS
    <3>1. k \in 1..(n - 1)
      BY <1>0, <2>7
    <3>2. PICK p \in (k + 1)..n : k \in Operands(e[p])
      BY <1>0, <3>1
    <3>3. p \in 1..n /\ n - p < n - k
      BY <1>0, <3>1, <3>2
    <3>4. value[p] = <<>>
      BY <1>1, <2>7, <3>2, <3>3, ErrorPasses
    <3>5. n - p \in U
      BY <3>3, <3>4
    <3> QED BY <2>6, <2>7, <3>3, <3>5
  <2> QED BY <1>1, <1>6, <2>7, <2>8 DEF Ok, n, means
<1> QED BY <1>5, <1>6

\* The second pass refuses what is not in order, and nothing else.
LEMMA UnpackableMeans ==
    ASSUME Measured, Len(widths) = Len(stream), NEW v \in Value, v.kind = "data", NEW here
    PROVE  Unpackable(v, here) <=> ~EntryInOrder(v, here)
<1>1. \A g \in Range(v.groups) : g \in Group
  <2>1. v.groups \in Seq(Group)
    BY DEF Value
  <2> QED BY <2>1 DEF Range
<1>2. ASSUME NEW g \in Group, NEW f \in Range(g.fields) PROVE FieldRefused(f, here) <=> ~FieldInOrder(f, here)
  <2>1. f \in Field
    <3>1. g.fields \in Seq(Field)
      BY DEF Group
    <3> QED BY <3>1 DEF Range
  <2>2. CASE f.kind = "bits"
    BY <2>2 DEF FieldRefused, FieldInOrder
  <2>3. CASE f.kind = "positioned"
    <3>1. f.expr \in Expr
      BY <2>1, <2>3 DEF Field
    <3>2. FieldRefused(f, here) <=> ResolveDeferred(f.expr, here) = <<>>
      BY <2>3 DEF FieldRefused
    <3>3. FieldInOrder(f, here) <=> \A i \in 1..Len(f.expr) : NodeInOrder(f.expr[i], Means(f.expr, offsets, here))
      BY <2>3 DEF FieldInOrder
    <3> QED BY <3>1, <3>2, <3>3, ExpressionResolves
  <2>4. f.kind = "bits" \/ f.kind = "positioned"
    BY <2>1 DEF Field
  <2> QED BY <2>2, <2>3, <2>4
<1>3. \A g : (g.little /\ (GroupBits(g) # g.declared \/ g.declared % 8 # 0)) <=>
             ~(g.little => GroupBits(g) = g.declared /\ GroupBits(g) % 8 = 0)
  OBVIOUS
<1> QED BY <1>1, <1>2, <1>3 DEF Unpackable, EntryInOrder

\* What is in order depends only on the stream and on the offsets.
LEMMA OrderStays ==
    ASSUME UNCHANGED <<stream, offsets>>
    PROVE  WellFormed' = WellFormed /\ \A v, here : EntryInOrder(v, here)' = EntryInOrder(v, here)
<1>0. stream' = stream /\ offsets' = offsets
  OBVIOUS
<1>1. Positions' = Positions
  BY <1>0 DEF Positions
<1>2. \A e, here : Means(e, offsets, here)' = Means(e, offsets, here)
  BY <1>0 DEF Means, NodeMeans, Distance, Positions
<1>3. \A node, means : NodeInOrder(node, means)' = NodeInOrder(node, means)
  BY <1>1 DEF NodeInOrder
<1>4. \A f, here : FieldInOrder(f, here)' = FieldInOrder(f, here)
  BY <1>2, <1>3 DEF FieldInOrder
<1>5. \A v, here : EntryInOrder(v, here)' = EntryInOrder(v, here)
  BY <1>4 DEF EntryInOrder
<1>6. WellFormed' = WellFormed
  BY <1>0, <1>5 DEF WellFormed
<1> QED BY <1>5, <1>6

\* Nothing is measured or packed at first.
LEMMA PackInit == Init => IInv
<1> SUFFICES ASSUME Init PROVE IInv
  OBVIOUS
<1>1. stream \in Seq(Value) /\ Len(stream) \in Nat
  BY StreamSpaceAssumption DEF Init
<1>2. Measured
  <2>1. widths \in Seq(Nat) /\ Len(widths) = 0 /\ offsets \in Seq(Nat) /\ Len(offsets) = 1 /\ offsets[1] = 0
    BY DEF Init
  <2> QED BY <1>1, <2>1 DEF Measured
<1>3. /\ starts = <<>> /\ bytes = <<>> /\ padTo = <<>> /\ phase = "widths" /\ Len(starts) = 0 /\ Len(bytes) = 0
      /\ offsets[1] = 0 /\ DOMAIN starts = {} /\ ToSet(padTo) = {}
  BY DEF Init, ToSet
<1>4. IsSequence(bytes)
  <2>1. <<>> \in Seq({}) /\ ToSet(<<>>) = {}
    BY DEF ToSet
  <2> QED BY <1>3, <2>1 DEF IsSequence
<1>5. Placed
  BY <1>1, <1>3, <1>4 DEF Placed
<1>6. Matched
  BY <1>3 DEF Matched, PassesAgree
<1>7. Sorted
  BY <1>1, <1>3 DEF Sorted
<1>8. Padding
  BY <1>1, <1>3 DEF Padding, Noted
<1> QED BY <1>2, <1>5, <1>6, <1>7, <1>8 DEF IInv

\* The first pass.
LEMMA MeasureEntryKeeps ==
    ASSUME IInv, MeasureEntry PROVE IInv'
<1> DEFINE n == Len(widths)
           v == stream[n + 1]
           w == WidthOf(v, Offset)
<1>1. /\ phase = "widths" /\ n < Len(stream) /\ n \in Nat /\ Len(stream) \in Nat /\ v \in Value
      /\ Len(offsets) = n + 1 /\ Offset = offsets[n + 1] /\ Offset \in Nat /\ n + 1 \in 1..Len(stream)
  BY DEF MeasureEntry, IInv, Measured, Offset
<1>2. starts = <<>> /\ bytes = <<>> /\ padTo = <<>> /\ Len(starts) = 0 /\ starts' = <<>> /\ bytes' = <<>> /\ padTo' = <<>>
      /\ DOMAIN starts = {} /\ stream' = stream
  BY <1>1 DEF IInv, Placed, MeasureEntry
<1>3. CASE Misplaced(v)
  <2>1. phase' = "failed" /\ UNCHANGED <<stream, widths, offsets, bytes, starts, padTo>>
    BY <1>3 DEF MeasureEntry, Fail
  <2>2. ~WellFormed /\ WellFormed' = WellFormed
    BY <1>1, <1>3, <2>1, OrderStays DEF WellFormed
  <2>3. Measured' /\ Placed'
    BY <1>2, <2>1 DEF IInv, Measured, Placed
  <2>4. Matched'
    BY <1>2, <2>1 DEF Matched, PassesAgree
  <2>5. Sorted'
    BY <1>1, <1>2, <2>1, <2>2 DEF Sorted
  <2>6. Padding'
    BY <1>1, <2>1 DEF IInv, Padding, Noted, PadSizes
  <2> QED BY <2>3, <2>4, <2>5, <2>6 DEF IInv
<1>4. CASE ~Misplaced(v)
  <2>1. /\ widths' = Append(widths, w) /\ offsets' = Append(offsets, Offset + w)
        /\ UNCHANGED <<stream, phase, bytes, starts, padTo>>
    BY <1>4 DEF MeasureEntry
  <2>2. w \in Nat
    BY <1>1, <1>4, WidthType
  <2>3. /\ widths \in Seq(Nat) /\ offsets \in Seq(Nat) /\ stream \in Seq(Value) /\ offsets[1] = 0
        /\ \A k \in 1..n : /\ ~Misplaced(stream[k])
                           /\ widths[k] = WidthOf(stream[k], offsets[k]) /\ offsets[k + 1] = offsets[k] + widths[k]
    BY DEF IInv, Measured
  <2> HIDE DEF w
  <2>4. /\ widths' \in Seq(Nat) /\ Len(widths') = n + 1 /\ widths'[n + 1] = w /\ \A k \in 1..n : widths'[k] = widths[k]
    BY <2>1, <2>2, <2>3
  <2>5. /\ offsets' \in Seq(Nat) /\ Len(offsets') = (n + 1) + 1 /\ offsets'[(n + 1) + 1] = Offset + w
        /\ \A k \in 1..(n + 1) : offsets'[k] = offsets[k]
    BY <1>1, <2>1, <2>2, <2>3
  <2>6. ASSUME NEW k \in 1..(n + 1)
        PROVE  /\ ~Misplaced(stream[k]) /\ widths'[k] = WidthOf(stream[k], offsets'[k])
               /\ offsets'[k + 1] = offsets'[k] + widths'[k]
    <3>1. CASE k = n + 1
      BY <1>1, <1>4, <2>4, <2>5, <3>1 DEF w
    <3>2. CASE k # n + 1
      <4>1. k \in 1..n /\ k + 1 \in 1..(n + 1)
        BY <1>1, <3>2
      <4> QED BY <2>3, <2>4, <2>5, <4>1
    <3> QED BY <3>1, <3>2
  <2>7. Measured'
    <3>1. offsets'[1] = 0 /\ n + 1 <= Len(stream)
      BY <1>1, <2>3, <2>5
    <3> HIDE DEF n
    <3> QED BY <2>1, <2>3, <2>4, <2>5, <2>6, <3>1 DEF Measured
  <2>8. Placed'
    BY <1>1, <1>2, <2>1 DEF IInv, Placed
  <2>9. Matched'
    <3>1. offsets'[1] = 0 /\ Len(bytes') = 0
      BY <1>1, <1>2, <2>3, <2>5
    <3> QED BY <1>1, <1>2, <2>1, <3>1 DEF Matched, PassesAgree
  <2>10. Sorted' /\ Padding'
    BY <1>1, <1>2, <2>1 DEF IInv, Sorted, Padding, Noted, PadSizes
  <2> QED BY <2>7, <2>8, <2>9, <2>10 DEF IInv
<1> QED BY <1>3, <1>4

LEMMA AllMeasuredKeeps ==
    ASSUME IInv, AllMeasured PROVE IInv'
<1>1. phase = "widths" /\ phase' = "pack" /\ Len(widths) = Len(stream)
      /\ UNCHANGED <<stream, offsets, widths, bytes, starts, padTo>>
  BY DEF AllMeasured
<1>2. starts = <<>> /\ Len(starts) = 0 /\ Len(stream) \in Nat
  BY <1>1 DEF IInv, Placed, Measured
<1>3. Measured' /\ Placed'
  BY <1>1, <1>2 DEF IInv, Measured, Placed
<1>4. NoEmptyValue' => Matched'
  BY <1>1 DEF IInv, Matched, PassesAgree, NoEmptyValue
<1>5. Sorted'
  BY <1>1, <1>2 DEF Sorted
<1>6. Padding'
  BY <1>1, <1>2 DEF IInv, Padding, Noted, PadSizes
<1> QED BY <1>3, <1>4, <1>5, <1>6 DEF IInv

\* The entry being packed.
LEMMA CurrentEntry ==
    ASSUME IInv, Packing
    PROVE  /\ HereIndex = Len(starts) /\ HereIndex \in Nat /\ HereIndex + 1 \in 1..Len(stream)
           /\ Len(stream) \in Nat /\ Len(widths) = Len(stream) /\ HereIndex \in 0..Len(stream)
           /\ Current = stream[HereIndex + 1] /\ Current \in Value /\ ~Misplaced(Current)
           /\ offsets[HereIndex + 1] \in Nat /\ widths[HereIndex + 1] = WidthOf(Current, offsets[HereIndex + 1])
           /\ widths[HereIndex + 1] \in Nat
           /\ offsets[HereIndex + 2] = offsets[HereIndex + 1] + widths[HereIndex + 1]
<1>1. /\ HereIndex = Len(starts) /\ HereIndex \in Nat /\ Len(stream) \in Nat /\ HereIndex < Len(stream)
      /\ Len(widths) = Len(stream) /\ Current = stream[HereIndex + 1]
  BY DEF HereIndex, Packing, Current, IInv, Placed, Measured
<1>2. HereIndex + 1 \in 1..Len(stream) /\ HereIndex \in 0..Len(stream) /\ HereIndex + 1 \in 1..(Len(stream) + 1)
      /\ (HereIndex + 1) + 1 = HereIndex + 2
  BY <1>1
<1>3. /\ widths \in Seq(Nat) /\ offsets \in Seq(Nat) /\ Len(offsets) = Len(stream) + 1
      /\ stream \in Seq(Value) /\ HereIndex + 1 \in 1..Len(widths)
  BY <1>1, <1>2 DEF IInv, Measured
<1>4. offsets[HereIndex + 1] \in Nat /\ widths[HereIndex + 1] \in Nat /\ stream[HereIndex + 1] \in Value
  BY <1>1, <1>2, <1>3
<1>5. /\ ~Misplaced(stream[HereIndex + 1])
      /\ widths[HereIndex + 1] = WidthOf(stream[HereIndex + 1], offsets[HereIndex + 1])
      /\ offsets[(HereIndex + 1) + 1] = offsets[HereIndex + 1] + widths[HereIndex + 1]
  BY <1>3 DEF IInv, Measured
<1> QED BY <1>1, <1>2, <1>4, <1>5

\* An entry is packed where the image ends.
LEMMA EntryPacked ==
    ASSUME IInv, Packing, IsSequence(bytes'), NoEmptyValue => Len(bytes') = Len(bytes) + widths[HereIndex + 1],
           starts' = Append(starts, Len(bytes)), UNCHANGED <<stream, phase, offsets, widths>>,
           EntryInOrder(Current, HereIndex),
           padTo' \in Seq(Nat \ {0}),
           padTo' = IF Current.kind = "pad" THEN Append(padTo, Current.n) ELSE padTo
    PROVE  IInv'
<1> DEFINE h == HereIndex
<1>0. /\ h = Len(starts) /\ h \in Nat /\ h + 1 \in 1..Len(stream) /\ Len(stream) \in Nat
      /\ Current = stream[h + 1] /\ Len(widths) = Len(stream)
      /\ offsets[h + 2] = offsets[h + 1] + widths[h + 1]
      /\ offsets[h + 1] \in Nat /\ widths[h + 1] \in Nat
  BY CurrentEntry
<1>1. phase = "pack" /\ starts \in Seq(Nat) /\ Len(bytes) \in Nat
  BY DEF Packing, IInv, Placed, IsSequence
<1> HIDE DEF h
<1>2. /\ starts' \in Seq(Nat) /\ Len(starts') = h + 1 /\ DOMAIN starts' = 1..(h + 1) /\ DOMAIN starts = 1..h
      /\ starts'[h + 1] = Len(bytes) /\ \A k \in 1..h : starts'[k] = starts[k]
  BY <1>0, <1>1
<1>3. \A k \in 1..(h + 1) : k = h + 1 \/ k \in 1..h
  BY <1>0
<1>4. Measured'
  BY DEF IInv, Measured
<1>5. Placed'
  BY <1>0, <1>1, <1>2 DEF IInv, Placed
<1>6. ASSUME NoEmptyValue PROVE Matched'
  <2>1. Len(bytes) = offsets[h + 1] /\ \A k \in 1..h : starts[k] = offsets[k]
    BY <1>0, <1>1, <1>2, <1>6 DEF IInv, Matched, PassesAgree
  <2>2. \A k \in 1..(h + 1) : starts'[k] = offsets[k]
    BY <1>2, <1>3, <2>1
  <2>3. Len(bytes') = offsets[h + 2] /\ Len(starts') + 1 = h + 2
    BY <1>0, <1>2, <1>6, <2>1 DEF h
  <2> QED BY <1>2, <2>2, <2>3 DEF Matched, PassesAgree
<1>7. NoEmptyValue' => Matched'
  BY <1>6 DEF NoEmptyValue
<1>8. Sorted'
  <2>1. \A k \in 1..Len(stream) : k <= h + 1 => EntryInOrder(stream[k], k - 1)
    <3>1. \A k \in 1..Len(stream) : k <= h + 1 => k = h + 1 \/ k <= h
      BY <1>0
    <3>2. (h + 1) - 1 = h /\ h = HereIndex
      BY <1>0 DEF h
    <3> QED BY <1>0, <3>1, <3>2 DEF IInv, Sorted
  <2>2. \A k \in 1..Len(stream) : EntryInOrder(stream[k], k - 1)' = EntryInOrder(stream[k], k - 1)
    BY OrderStays
  <2> QED BY <1>1, <1>2, <2>1, <2>2 DEF Sorted
<1>9. Padding'
  <2> DEFINE m == Len(padTo)
  <2>0. padTo \in Seq(Nat \ {0}) /\ m \in Nat /\ DOMAIN padTo = 1..m
    BY DEF IInv, Placed
  <2>1. PadSizes' = PadSizes
    BY DEF PadSizes
  <2>2. CASE Current.kind # "pad"
    <3>1. \A k \in 1..(h + 1) : LastPad(k, h + 1) => k \in 1..h /\ LastPad(k, h)
      <4>1. \A k \in 1..(h + 1) : stream[k].kind = "pad" => k \in 1..h
        BY <1>0, <1>3, <2>2
      <4>2. \A k, j : j \in (k + 1)..h /\ k \in 1..h => j \in (k + 1)..(h + 1)
        BY <1>0
      <4> QED BY <4>1, <4>2 DEF LastPad
    <3>2. \A k \in 1..(h + 1) : stream[k].kind = "pad" => k \in 1..h
      BY <1>0, <1>3, <2>2
    <3>3. \A k, n : LastPad(k, n)' = LastPad(k, n)
      BY DEF LastPad
    <3>4. Noted /\ padTo' = padTo
      BY <2>2 DEF IInv, Padding
    <3> QED BY <1>0, <1>1, <1>2, <2>1, <3>1, <3>2, <3>3, <3>4 DEF Padding, Noted
  <2>3. CASE Current.kind = "pad"
    <3>1. /\ Len(padTo') = m + 1 /\ padTo'[m + 1] = Current.n /\ padTo' # <<>>
          /\ \A i \in 1..m : padTo'[i] = padTo[i]
          /\ DOMAIN padTo' = 1..(m + 1)
      <4>1. Current.n \in Nat \ {0} /\ padTo' = Append(padTo, Current.n)
        BY <2>3, CurrentEntry, WidthType
      <4> QED BY <2>0, <4>1
    <3>2. ToSet(padTo') = ToSet(padTo) \cup {Current.n}
      <4>1. \A i : i \in 1..(m + 1) <=> i = m + 1 \/ i \in 1..m
        BY <2>0
      <4>2. ToSet(padTo') = {padTo'[i] : i \in 1..(m + 1)} /\ ToSet(padTo) = {padTo[i] : i \in 1..m}
        BY <2>0, <3>1 DEF ToSet
      <4> HIDE DEF m
      <4>3. padTo'[m + 1] = Current.n /\ \A i \in 1..m : padTo'[i] = padTo[i]
        BY <3>1
      <4>4. {padTo'[i] : i \in 1..(m + 1)} = {padTo[i] : i \in 1..m} \cup {padTo'[m + 1]}
        <5> DEFINE g == padTo'
        <5> HIDE DEF g
        <5>1. \A i \in 1..m : g[i] = padTo[i]
          BY <4>3 DEF g
        <5>2. {g[i] : i \in 1..(m + 1)} = {padTo[i] : i \in 1..m} \cup {g[m + 1]}
          BY <4>1, <5>1
        <5> QED BY <5>2 DEF g
      <4> QED BY <4>2, <4>3, <4>4, Zenon
    <3>3. Current.n \in PadSizes
      <4>1. h + 1 \in DOMAIN stream
        BY <1>0 DEF IInv, Measured
      <4> QED BY <1>0, <2>3, <4>1 DEF PadSizes
    <3>4. ToSet(padTo') \subseteq PadSizes'
      BY <2>1, <3>2, <3>3 DEF IInv, Padding, Noted
    <3>5. \A k \in 1..(h + 1) : stream[k].kind = "pad" => stream[k].n \in ToSet(padTo')
      BY <1>0, <1>1, <1>3, <3>2 DEF IInv, Padding, Noted
    <3>6. \A k \in 1..(h + 1) : LastPad(k, h + 1) => k = h + 1
      <4>1. \A k \in 1..h : h + 1 \in (k + 1)..(h + 1)
        BY <1>0
      <4> QED BY <1>0, <1>3, <2>3, <4>1 DEF LastPad
    <3>7. \A k, n : LastPad(k, n)' = LastPad(k, n)
      BY DEF LastPad
    <3>8. \A k \in 1..(h + 1) : LastPad(k, h + 1) => padTo' # <<>> /\ padTo'[Len(padTo')] = stream[k].n
      BY <1>0, <3>1, <3>6
    <3> HIDE DEF m
    <3> QED BY <1>1, <1>2, <3>4, <3>5, <3>7, <3>8 DEF Padding, Noted
  <2> QED BY <2>2, <2>3
<1> QED BY <1>4, <1>5, <1>7, <1>8, <1>9 DEF IInv

\* The second pass, by the kind of the entry.
LEMMA PackAlignKeeps ==
    ASSUME IInv, PackAlign PROVE IInv'
<1>1. /\ Packing /\ Current.kind = "align" /\ bytes' = bytes \o Zeros(widths[HereIndex + 1])
      /\ starts' = Append(starts, Len(bytes)) /\ UNCHANGED <<stream, phase, offsets, widths, padTo>>
  BY DEF PackAlign
<1>2. IsSequence(bytes) /\ padTo \in Seq(Nat \ {0})
  BY DEF IInv, Placed
<1>3. IsSequence(bytes') /\ Len(bytes') = Len(bytes) + widths[HereIndex + 1]
  <2> DEFINE w == widths[HereIndex + 1]
  <2>1. w \in Nat
    BY <1>1, CurrentEntry
  <2> HIDE DEF w
  <2>2. IsSequence(Zeros(w)) /\ Len(Zeros(w)) = w
    BY <2>1, ZeroBytes
  <2>3. bytes' = bytes \o Zeros(w)
    BY <1>1 DEF w
  <2>4. IsSequence(bytes') /\ Len(bytes') = Len(bytes) + Len(Zeros(w))
    BY <1>2, <2>2, <2>3, Concatenation
  <2> QED BY <2>2, <2>4 DEF w
<1>4. EntryInOrder(Current, HereIndex)
  BY <1>1 DEF EntryInOrder
<1> QED BY <1>1, <1>2, <1>3, <1>4, EntryPacked

LEMMA NotePadImageKeeps ==
    ASSUME IInv, NotePadImage PROVE IInv'
<1>1. /\ Packing /\ Current.kind = "pad" /\ padTo' = Append(padTo, Current.n)
      /\ starts' = Append(starts, Len(bytes)) /\ UNCHANGED <<stream, phase, offsets, widths, bytes>>
  BY DEF NotePadImage
<1>2. IsSequence(bytes) /\ padTo \in Seq(Nat \ {0}) /\ Len(bytes) \in Nat
  BY DEF IInv, Placed, IsSequence
<1>3. widths[HereIndex + 1] = 0 /\ Current.n \in Nat \ {0}
  BY <1>1, CurrentEntry, WidthType
<1>4. EntryInOrder(Current, HereIndex)
  BY <1>1 DEF EntryInOrder
<1>5. padTo' \in Seq(Nat \ {0})
  BY <1>1, <1>2, <1>3
<1> QED BY <1>1, <1>2, <1>3, <1>4, <1>5, EntryPacked

LEMMA PackValueKeeps ==
    ASSUME IInv, PackValue PROVE IInv'
<1> DEFINE n == Len(stream)
<1>1. Packing /\ Current.kind = "data" /\ UNCHANGED <<stream, offsets, widths, padTo>>
  BY DEF PackValue
<1>2. Unpackable(Current, HereIndex) <=> ~EntryInOrder(Current, HereIndex)
  BY <1>1, CurrentEntry, UnpackableMeans DEF IInv
<1>3. CASE Unpackable(Current, HereIndex)
  <2>1. phase' = "failed" /\ UNCHANGED <<bytes, starts>> /\ phase = "pack"
    BY <1>1, <1>3 DEF PackValue, Fail, Packing
  <2>2. ~WellFormed
    <3>1. HereIndex + 1 \in 1..Len(stream) /\ Current = stream[HereIndex + 1] /\ (HereIndex + 1) - 1 = HereIndex
      BY <1>1, CurrentEntry
    <3> QED BY <1>2, <1>3, <3>1 DEF WellFormed
  <2>3. WellFormed' = WellFormed /\ \A k \in 1..Len(stream) : EntryInOrder(stream[k], k - 1)' = EntryInOrder(stream[k], k - 1)
    BY <1>1, OrderStays
  <2>4. Measured' /\ Placed'
    BY <1>1, <2>1 DEF IInv, Measured, Placed
  <2>5. NoEmptyValue' => Matched'
    BY <1>1, <2>1 DEF IInv, Matched, PassesAgree, NoEmptyValue
  <2>6. Sorted'
    BY <1>1, <2>1, <2>2, <2>3 DEF IInv, Sorted
  <2>7. Padding'
    BY <1>1, <2>1 DEF IInv, Padding, Noted, PadSizes
  <2> QED BY <2>4, <2>5, <2>6, <2>7 DEF IInv
<1>4. CASE ~Unpackable(Current, HereIndex)
  <2>1. /\ bytes' = bytes \o PackedBytes(Current, HereIndex) /\ starts' = Append(starts, Len(bytes))
        /\ UNCHANGED phase
    BY <1>4 DEF PackValue
  <2>2. IsSequence(bytes) /\ padTo \in Seq(Nat \ {0})
    BY DEF IInv, Placed
  <2>3. /\ IsSequence(PackedBytes(Current, HereIndex))
        /\ Len(PackedBytes(Current, HereIndex)) = IF ValueBits(Current) = 0 THEN 1 ELSE CeilDiv(ValueBits(Current), 8)
    BY <1>1, CurrentEntry, PackedLength
  <2>4. IsSequence(bytes') /\ Len(bytes') = Len(bytes) + Len(PackedBytes(Current, HereIndex))
    BY <2>1, <2>2, <2>3, Concatenation
  <2>5. widths[HereIndex + 1] = CeilDiv(ValueBits(Current), 8)
    BY <1>1, CurrentEntry, WidthType
  <2>6. NoEmptyValue => ValueBits(Current) # 0
    <3>1. HereIndex + 1 \in DOMAIN stream /\ Current = stream[HereIndex + 1]
      BY <1>1, CurrentEntry DEF IInv, Measured
    <3> QED BY <1>1, <3>1 DEF NoEmptyValue, IsEmptyValue
  <2>7. NoEmptyValue => Len(bytes') = Len(bytes) + widths[HereIndex + 1]
    BY <2>3, <2>4, <2>5, <2>6
  <2> QED BY <1>1, <1>2, <1>4, <2>1, <2>2, <2>4, <2>7, EntryPacked
<1> QED BY <1>3, <1>4

\* What divides a divisor divides.
LEMMA DividesOn ==
    ASSUME NEW m \in Nat \ {0}, NEW n \in Nat \ {0}, NEW c \in Nat, Divides(m, n), Divides(n, c)
    PROVE  Divides(m, c)
<1>1. PICK p \in Nat : n = m * p
  <2>1. n = m * (n \div m) + (n % m) /\ n \div m \in Nat /\ n % m = 0
    BY DEF Divides
  <2> QED BY <2>1
<1>2. PICK q \in Nat : c = n * q
  <2> DEFINE d == c \div n
  <2>1. c = n * d + (c % n) /\ d \in Nat
    OBVIOUS
  <2>2. c % n = 0
    BY DEF Divides
  <2> HIDE DEF d
  <2>3. c = n * d
    BY <2>1, <2>2
  <2> QED BY <2>1, <2>3
<1>3. c = m * (p * q) /\ p * q \in Nat
  BY <1>1, <1>2
<1> DEFINE r == p * q
<1>4. c = m * r /\ r \in Nat
  BY <1>3
<1> HIDE DEF r
<1> QED BY <1>4, Multiple DEF Divides

\* Rounding up what is below a multiple stays below it.
LEMMA RoundsBelow ==
    ASSUME NEW n \in Nat \ {0}, NEW len \in Nat, NEW more \in 0..(n - 1), NEW c \in Nat,
           (len + more) % n = 0, c % n = 0, len <= c
    PROVE  len + more <= c
<1> DEFINE to == len + more
<1>1. to \in Nat /\ to % n = 0 /\ to < c + n
  OBVIOUS
<1> HIDE DEF to
<1>2. PICK a \in Nat : to = n * a
  <2>1. to = n * (to \div n) + (to % n) /\ to \div n \in Nat
    BY <1>1
  <2> QED BY <1>1, <2>1
<1>3. PICK b \in Nat : c = n * b
  <2> DEFINE d == c \div n
  <2>1. c = n * d + (c % n) /\ d \in Nat
    OBVIOUS
  <2>2. c % n = 0
    OBVIOUS
  <2> HIDE DEF d
  <2>3. c = n * d
    BY <2>1, <2>2
  <2> QED BY <2>1, <2>3
<1>4. CASE a <= b
  <2>1. n * a <= n * b
    BY <1>4
  <2> QED BY <1>2, <1>3, <2>1 DEF to
<1>5. CASE ~(a <= b)
  <2>1. b + 1 <= a
    BY <1>5
  <2>2. n * (b + 1) <= n * a /\ n * (b + 1) = n * b + n
    BY <2>1
  <2> QED BY <1>1, <1>2, <1>3, <2>2
<1> QED BY <1>4, <1>5

\* Every size has a multiple it is rounded up to.
LEMMA CeilingExists ==
    ASSUME NEW n \in Nat \ {0}, NEW size \in Nat
    PROVE  \E c : Ceiling(n, size, c) /\ size <= c
<1> DEFINE c == CeilDiv(size, n) * n
<1>1. c \in Nat /\ c - size \in 0..(n - 1) /\ c % n = 0
  BY RoundedUp
<1> HIDE DEF c
<1>2. Ceiling(n, size, c)
  BY <1>1 DEF Ceiling, Divides
<1> QED BY <1>1, <1>2

\* What is asked to be padded to is a positive number.
LEMMA PadSizesType ==
    ASSUME Measured, Placed, phase = "pad"
    PROVE  PadSizes \subseteq Nat \ {0}
<1>0. 0 \in Nat
  OBVIOUS
<1>1. \A k \in 1..Len(stream) : ~Misplaced(stream[k]) /\ stream[k] \in Value
  BY DEF Measured, Placed
<1>2. DOMAIN stream = 1..Len(stream)
  BY DEF Measured
<1>3. \A k \in DOMAIN stream : stream[k].kind = "pad" => stream[k].n \in Nat \ {0}
  BY <1>1, <1>2, WidthType, <1>0
<1> QED BY <1>3 DEF PadSizes

\* The end of the second pass: the image ends where the last offset says.
LEMMA AllPackedKeeps ==
    ASSUME IInv, AllPacked PROVE IInv'
<1> DEFINE n == Len(stream)
<1>1. /\ phase = "pack" /\ Len(starts) = n /\ phase' = "pad" /\ starts' = Append(starts, Len(bytes))
      /\ UNCHANGED <<stream, offsets, widths, bytes, padTo>>
  BY DEF AllPacked
<1>2. starts \in Seq(Nat) /\ Len(bytes) \in Nat /\ n \in Nat
  BY DEF IInv, Placed, Measured, IsSequence
<1> HIDE DEF n
<1>3. /\ starts' \in Seq(Nat) /\ Len(starts') = n + 1 /\ DOMAIN starts' = 1..(n + 1) /\ DOMAIN starts = 1..n
      /\ starts'[n + 1] = Len(bytes) /\ \A k \in 1..n : starts'[k] = starts[k]
  BY <1>1, <1>2
<1>4. \A k \in 1..(n + 1) : k = n + 1 \/ k \in 1..n
  BY <1>2
<1>5. Measured'
  BY <1>1 DEF IInv, Measured
<1>6. Placed'
  <2>1. Len(widths) = n
    BY <1>1 DEF IInv, Placed, n
  <2> QED BY <1>1, <1>3, <2>1 DEF IInv, Placed, n
<1>7. NoEmptyValue' => Matched'
  <2>1. NoEmptyValue' => NoEmptyValue
    BY <1>1 DEF NoEmptyValue
  <2>2. ASSUME NoEmptyValue PROVE \A k \in 1..(n + 1) : starts'[k] = offsets[k]
    <3>1. Len(bytes) = offsets[n + 1] /\ \A k \in 1..n : starts[k] = offsets[k]
      BY <1>1, <1>3, <2>2 DEF IInv, Matched, PassesAgree
    <3> QED BY <1>3, <1>4, <3>1
  <2> QED BY <1>1, <1>3, <2>1, <2>2 DEF Matched, PassesAgree
<1>8. Sorted'
  <2>1. \A k \in 1..n : EntryInOrder(stream[k], k - 1)
    BY <1>1, <1>2 DEF IInv, Sorted, n
  <2>2. \A k \in 1..n : EntryInOrder(stream[k], k - 1)' = EntryInOrder(stream[k], k - 1)
    BY <1>1, OrderStays
  <2> QED BY <1>1, <2>1, <2>2 DEF Sorted, n
<1>9. Padding'
  <2>1. PadSizes' = PadSizes
    BY <1>1 DEF PadSizes
  <2>2. /\ ToSet(padTo) \subseteq PadSizes
        /\ \A k \in 1..n : /\ stream[k].kind = "pad" => stream[k].n \in ToSet(padTo)
                           /\ LastPad(k, n) => padTo # <<>> /\ padTo[Len(padTo)] = stream[k].n
    BY <1>1 DEF IInv, Padding, Noted
  <2>3. DOMAIN stream = 1..n
    BY DEF IInv, Measured, n
  <2>4. PadSizes \subseteq ToSet(padTo)
    BY <2>2, <2>3 DEF PadSizes
  <2>5. PadSizes \subseteq Nat \ {0}
    <3>1. ToSet(padTo) \subseteq Nat \ {0}
      BY DEF IInv, Placed, ToSet
    <3> QED BY <2>4, <3>1
  <2>6. starts'[Len(stream') + 1] = Len(bytes')
    BY <1>1, <1>3 DEF n
  <2>7. \A m \in PadSizes : \E c : Ceiling(m, Len(bytes), c) /\ Len(bytes) <= c
    BY <1>2, <2>5, CeilingExists
  <2>8. \A i \in (Len(bytes) + 1)..Len(bytes) : FALSE
    BY <1>2
  <2>9. \A k, j : LastPad(k, j)' = LastPad(k, j)
    BY <1>1 DEF LastPad
  <2>10. PaddedSoFar'
    <3>1. Len(bytes') = Len(bytes) /\ bytes' = bytes /\ padTo' = padTo /\ stream' = stream /\ Len(stream) = n
      BY <1>1 DEF n
    <3> QED BY <1>2, <2>1, <2>2, <2>4, <2>6, <2>7, <2>8, <2>9, <3>1 DEF PaddedSoFar
  <2>11. Noted'
    BY <1>1, <2>1, <2>2 DEF Noted
  <2> QED BY <2>10, <2>11 DEF Padding
<1> QED BY <1>5, <1>6, <1>7, <1>8, <1>9 DEF IInv

\* Padding: each request adds zeros up to its multiple.
LEMMA PadImageKeeps ==
    ASSUME IInv, PadImage PROVE IInv'
<1> DEFINE n    == Head(padTo)
           len  == Len(bytes)
           more == (CeilDiv(len, n) * n) - len
           size == starts[Len(stream) + 1]
<1>1. /\ phase = "pad" /\ padTo # <<>> /\ bytes' = bytes \o Zeros(more) /\ padTo' = Tail(padTo)
      /\ UNCHANGED <<stream, phase, offsets, widths, starts>>
  BY DEF PadImage, PaddedTo
<1>2. padTo \in Seq(Nat \ {0}) /\ IsSequence(bytes) /\ starts \in Seq(Nat) /\ Len(starts) = Len(stream) + 1
      /\ Len(stream) \in Nat
  BY <1>1 DEF IInv, Placed, Measured
<1>3. n \in Nat \ {0} /\ len \in Nat /\ n \in ToSet(padTo) /\ padTo' \in Seq(Nat \ {0}) /\ size \in Nat
  <2>1. n = padTo[1] /\ 1 \in DOMAIN padTo /\ padTo' \in Seq(Nat \ {0})
    BY <1>1, <1>2
  <2>2. len \in Nat
    BY <1>2 DEF IsSequence
  <2>3. n \in ToSet(padTo) /\ n \in Nat \ {0}
    BY <1>2, <2>1 DEF ToSet
  <2>4. size \in Nat
    <3>1. Len(stream) + 1 \in 1..Len(starts)
      BY <1>2
    <3> QED BY <1>2, <3>1
  <2> QED BY <2>1, <2>2, <2>3, <2>4
<1>4. ToSet(padTo) = ToSet(padTo') \cup {n}
  <2> DEFINE m == Len(padTo)
  <2>1. /\ m \in Nat \ {0} /\ Len(padTo') = m - 1 /\ \A i \in 1..(m - 1) : padTo'[i] = padTo[i + 1]
        /\ n = padTo[1] /\ DOMAIN padTo = 1..m /\ DOMAIN padTo' = 1..(m - 1)
    BY <1>1, <1>2, <1>3
  <2>2. \A i \in 1..m : i = 1 \/ (i - 1 \in 1..(m - 1) /\ (i - 1) + 1 = i)
    BY <2>1
  <2>3. \A i \in 1..(m - 1) : i + 1 \in 1..m
    BY <2>1
  <2>4. 1 \in 1..m
    BY <2>1
  <2> HIDE DEF m, n
  <2>5. ASSUME NEW x \in ToSet(padTo) PROVE x \in ToSet(padTo') \cup {n}
    <3>1. PICK i \in 1..m : x = padTo[i]
      BY <2>1 DEF ToSet
    <3>2. CASE i = 1
      BY <2>1, <3>1, <3>2
    <3>3. CASE i # 1
      <4>1. i - 1 \in 1..(m - 1) /\ (i - 1) + 1 = i
        BY <2>2, <3>3
      <4>2. x = padTo'[i - 1] /\ i - 1 \in DOMAIN padTo'
        BY <2>1, <3>1, <4>1
      <4> QED BY <4>2 DEF ToSet
    <3> QED BY <3>2, <3>3
  <2>6. \A x \in ToSet(padTo') \cup {n} : x \in ToSet(padTo)
    BY <2>1, <2>3, <2>4 DEF ToSet
  <2> QED BY <2>5, <2>6
<1>5. more \in 0..(n - 1) /\ (len + more) % n = 0 /\ (len % n = 0 => more = 0)
  <2> DEFINE to == CeilDiv(len, n) * n
  <2> HIDE DEF n, len
  <2>1. to \in Nat /\ to - len \in 0..(n - 1) /\ to % n = 0 /\ (len % n = 0 => to = len)
    BY <1>3, RoundedUp
  <2> HIDE DEF to
  <2>2. more = to - len
    BY DEF to
  <2> HIDE DEF more
  <2>3. len + more = to
    BY <1>3, <2>1, <2>2
  <2> QED BY <1>3, <2>1, <2>2, <2>3
<1> HIDE DEF more, n, size
<1>6. IsSequence(Zeros(more)) /\ Len(Zeros(more)) = more /\ \A i \in 1..more : Zeros(more)[i] = 0
  <2>1. more \in Nat
    BY <1>3, <1>5
  <2> QED BY <2>1, ZeroBytes
<1>7. /\ IsSequence(bytes') /\ Len(bytes') = len + more
      /\ \A i \in 1..len : bytes'[i] = bytes[i]
      /\ \A i \in 1..more : bytes'[len + i] = 0
  <2> DEFINE z == Zeros(more)
  <2>1. IsSequence(z) /\ Len(z) = more /\ bytes' = bytes \o z
    BY <1>1, <1>6
  <2>2. \A i \in 1..more : z[i] = 0
    BY <1>6
  <2>0. Len(bytes) = len
    OBVIOUS
  <2> HIDE DEF z, len
  <2>3. /\ IsSequence(bytes') /\ Len(bytes') = Len(bytes) + Len(z)
        /\ \A i \in 1..Len(bytes) : bytes'[i] = bytes[i]
        /\ \A i \in 1..Len(z) : bytes'[Len(bytes) + i] = z[i]
    <3>1. IsSequence(bytes) /\ IsSequence(z)
      BY <1>2, <2>1
    <3> DEFINE all == bytes \o z
    <3>2. /\ IsSequence(all) /\ Len(all) = Len(bytes) + Len(z)
          /\ \A i \in 1..Len(bytes) : all[i] = bytes[i]
          /\ \A i \in 1..Len(z) : all[Len(bytes) + i] = z[i]
      BY <3>1, Concatenation
    <3>3. bytes' = all
      BY <2>1
    <3> HIDE DEF all
    <3> QED BY <3>2, <3>3
  <2> QED BY <2>0, <2>1, <2>2, <2>3
<1>8. /\ padTo' = <<>> => n = padTo[Len(padTo)]
      /\ padTo' # <<>> => padTo'[Len(padTo')] = padTo[Len(padTo)]
  <2> DEFINE m == Len(padTo)
  <2>0. /\ m \in Nat \ {0} /\ Len(padTo') = m - 1 /\ \A i \in 1..(m - 1) : padTo'[i] = padTo[i + 1]
        /\ n = padTo[1]
    <3> DEFINE s == padTo
               t == Tail(s)
    <3>1. s \in Seq(Nat \ {0}) /\ s # <<>> /\ padTo' = t /\ n = Head(s)
      BY <1>1, <1>2 DEF n
    <3> HIDE DEF s
    <3>2. /\ Len(s) \in Nat \ {0} /\ Len(t) = Len(s) - 1 /\ \A i \in 1..(Len(s) - 1) : t[i] = s[i + 1]
          /\ n = s[1]
      BY <3>1
    <3> QED BY <3>1, <3>2 DEF s
  <2>1. padTo' = <<>> => m = 1
    <3>1. padTo' = <<>> => Len(padTo') = 0
      OBVIOUS
    <3> QED BY <2>0, <3>1
  <2>3. padTo' # <<>> => Len(padTo') # 0
    BY <1>3
  <2> HIDE DEF m
  <2>4. padTo' # <<>> => m # 1 /\ m - 1 \in 1..(m - 1) /\ (m - 1) + 1 = m
    BY <2>0, <2>3
  <2> QED BY <2>0, <2>1, <2>4 DEF m
<1>9. Measured' /\ Placed'
  BY <1>1, <1>3, <1>7 DEF IInv, Measured, Placed
<1>10. NoEmptyValue' => Matched'
  BY <1>1 DEF IInv, Matched, PassesAgree, NoEmptyValue
<1>11. Sorted'
  BY <1>1, OrderStays DEF IInv, Sorted
<1>12. Padding'
  <2>0. PadSizes' = PadSizes /\ size' = size /\ \A k : LastPad(k, Len(stream))' = LastPad(k, Len(stream))
    BY <1>1 DEF PadSizes, size, LastPad
  <2>1. /\ ToSet(padTo) \subseteq PadSizes /\ size <= len
        /\ \A i \in (size + 1)..len : bytes[i] = 0
        /\ \A k \in 1..Len(stream) : LastPad(k, Len(stream)) => padTo[Len(padTo)] = stream[k].n
        /\ \A k \in PadSizes : (\A m \in PadSizes : Divides(m, k)) =>
               /\ \E c : Ceiling(k, size, c) /\ len <= c
               /\ k \in ToSet(padTo) \/ Divides(k, len)
    BY <1>1 DEF IInv, Padding, Noted, PaddedSoFar, size
  <2> HIDE DEF len
  <2>2. n \in PadSizes
    BY <1>3, <2>1
  <2>3. size <= Len(bytes')
    BY <1>3, <1>5, <1>7, <2>1
  <2>4. ASSUME NEW i \in (size + 1)..Len(bytes') PROVE bytes'[i] = 0
    <3>1. CASE i <= len
      <4>1. i \in (size + 1)..len /\ i \in 1..len
        BY <1>3, <2>4, <3>1
      <4> QED BY <1>7, <2>1, <4>1
    <3>2. CASE ~(i <= len)
      <4> DEFINE j == i - len
      <4>1. j \in 1..more /\ len + j = i
        BY <1>3, <1>5, <1>7, <2>4, <3>2
      <4> HIDE DEF j
      <4> QED BY <1>7, <4>1
    <3> QED BY <3>1, <3>2
  <2>5. ASSUME NEW k \in PadSizes, \A m \in PadSizes : Divides(m, k)
        PROVE  /\ \E c : Ceiling(k, size, c) /\ Len(bytes') <= c
               /\ k \in ToSet(padTo') \/ Divides(k, Len(bytes'))
    <3>1. Divides(n, k) /\ k \in Nat \ {0}
      <4>1. PadSizes \subseteq Nat \ {0}
        BY <1>1, PadSizesType DEF IInv
      <4> QED BY <2>2, <2>5, <4>1
    <3>2. PICK c : Ceiling(k, size, c) /\ len <= c
      BY <2>1, <2>5
    <3>3. Divides(n, c)
      BY <1>3, <3>1, <3>2, DividesOn DEF Ceiling
    <3>4. len + more <= c
      BY <1>3, <1>5, <3>2, <3>3, RoundsBelow DEF Divides, Ceiling
    <3>5. ASSUME k \notin ToSet(padTo') PROVE Divides(k, Len(bytes'))
      <4>1. CASE k = n
        BY <1>5, <1>7, <4>1 DEF Divides
      <4>2. CASE k # n
        <5>1. k \notin ToSet(padTo)
          BY <1>4, <3>5, <4>2
        <5>2. Divides(k, len)
          BY <2>1, <2>5, <5>1
        <5>3. Divides(n, len)
          BY <1>3, <3>1, <5>2, DividesOn
        <5>4. Len(bytes') = len
          BY <1>3, <1>5, <1>7, <5>3 DEF Divides
        <5> QED BY <5>2, <5>4
      <4> QED BY <4>1, <4>2
    <3> QED BY <1>7, <3>2, <3>4, <3>5
  <2>6. ToSet(padTo') \subseteq PadSizes
    BY <1>4, <2>1
  <2>7. ASSUME NEW k \in 1..Len(stream), LastPad(k, Len(stream))
        PROVE  IF padTo' = <<>> THEN Divides(stream[k].n, Len(bytes')) ELSE padTo'[Len(padTo')] = stream[k].n
    <3>1. padTo[Len(padTo)] = stream[k].n
      BY <2>1, <2>7
    <3>2. CASE padTo' = <<>>
      <4>1. n = stream[k].n
        BY <1>8, <3>1, <3>2
      <4> QED BY <1>5, <1>7, <3>2, <4>1 DEF Divides
    <3>3. CASE padTo' # <<>>
      BY <1>8, <3>1, <3>3
    <3> QED BY <3>2, <3>3
  <2>8. PadSizes # {}
    BY <2>2
  <2>9. PaddedSoFar'
    BY <1>1, <2>0, <2>3, <2>4, <2>5, <2>7, <2>8 DEF PaddedSoFar, size
  <2>10. Noted'
    BY <1>1, <2>0, <2>6 DEF Noted
  <2> QED BY <2>9, <2>10 DEF Padding
<1> QED BY <1>9, <1>10, <1>11, <1>12 DEF IInv

\* The end.
LEMMA PackedKeeps ==
    ASSUME IInv, Packed PROVE IInv'
<1>1. /\ phase = "pad" /\ padTo = <<>> /\ phase' = "done"
      /\ UNCHANGED <<stream, offsets, widths, bytes, starts, padTo>>
  BY DEF Packed
<1>2. Measured'
  BY <1>1 DEF IInv, Measured
<1>3. Placed'
  BY <1>1 DEF IInv, Placed
<1>4. (NoEmptyValue => Matched)'
  BY <1>1 DEF IInv, Matched, PassesAgree, NoEmptyValue
<1>5. Sorted'
  BY <1>1, OrderStays DEF IInv, Sorted
<1>6. Padding'
  <2>1. PadSizes' = PadSizes /\ \A k, n : LastPad(k, n)' = LastPad(k, n)
    BY <1>1 DEF PadSizes, LastPad
  <2>2. Noted' /\ PaddedSoFar'
    BY <1>1, <2>1 DEF IInv, Padding, Noted, PaddedSoFar
  <2> QED BY <2>2 DEF Padding
<1> QED BY <1>2, <1>3, <1>4, <1>5, <1>6 DEF IInv

\* Steps that change nothing.
LEMMA PackStutters ==
    ASSUME IInv, UNCHANGED vars PROVE IInv'
<1>1. UNCHANGED <<stream, phase, offsets, widths, bytes, starts, padTo>>
  BY DEF vars
<1>2. Measured'
  BY <1>1 DEF IInv, Measured
<1>3. Placed'
  BY <1>1 DEF IInv, Placed
<1>4. (NoEmptyValue => Matched)'
  BY <1>1 DEF IInv, Matched, PassesAgree, NoEmptyValue
<1>5. Sorted'
  BY <1>1, OrderStays DEF IInv, Sorted
<1>6. Padding'
  <2>1. PadSizes' = PadSizes /\ \A k, n : LastPad(k, n)' = LastPad(k, n)
    BY <1>1 DEF PadSizes, LastPad
  <2>2. Noted' /\ (PaddedSoFar' <=> PaddedSoFar)
    BY <1>1, <2>1 DEF IInv, Padding, Noted, PaddedSoFar
  <2> QED BY <1>1, <2>2 DEF IInv, Padding
<1> QED BY <1>2, <1>3, <1>4, <1>5, <1>6 DEF IInv

\* So the invariant holds at every moment.
LEMMA PackInvariant == Spec => []IInv
<1>1. IInv /\ [Next]_vars => IInv'
  <2> SUFFICES ASSUME IInv, [Next]_vars PROVE IInv'
    OBVIOUS
  <2> QED BY MeasureEntryKeeps, AllMeasuredKeeps, PackAlignKeeps, NotePadImageKeeps, PackValueKeeps,
             AllPackedKeeps, PadImageKeeps, PackedKeeps, PackStutters DEF Next, Stopped
<1> QED BY <1>1, PackInit, PTL DEF Spec

---------------------------------------------------------------------------
(* What is proved of every stream.                                         *)

\* The widths worked out from the types alone are the bytes the values come
\* to: both passes of pack.rs place every entry on the same byte, if no
\* value is empty.
THEOREM PackWidthsMatchBytes == Spec => []WidthsMatchBytes
<1>1. IInv => WidthsMatchBytes
  BY DEF IInv, Matched, WidthsMatchBytes
<1> QED BY <1>1, PackInvariant, PTL

\* What follows an Align<n> starts at a multiple of n, and PadImage adds
\* zeros after everything else, the fewest when one size is asked for.
THEOREM PackPaddingAligns == Spec => []PaddingAligns
<1>1. IInv => AlignAligns
  <2> SUFFICES ASSUME IInv, NoEmptyValue, NEW k \in DOMAIN stream, k + 1 \in DOMAIN starts, stream[k].kind = "align"
               PROVE  starts[k + 1] % stream[k].n = 0
    BY DEF AlignAligns, AlignedStart
  <2>0. starts \in Seq(Nat) /\ stream \in Seq(Value)
    BY DEF IInv, Placed, Measured
  <2>1. starts # <<>> /\ k \in 1..Len(stream)
    <3>1. DOMAIN stream = 1..Len(stream) /\ DOMAIN starts = 1..Len(starts)
      BY <2>0
    <3>2. starts = <<>> => DOMAIN starts = {}
      OBVIOUS
    <3> QED BY <3>1, <3>2
  <2>2. k \in 1..Len(widths) /\ k \in 1..(Len(widths) + 1)
    BY <2>0, <2>1 DEF IInv, Placed, Measured
  <2>3. /\ ~Misplaced(stream[k]) /\ offsets[k + 1] = offsets[k] + WidthOf(stream[k], offsets[k])
        /\ offsets[k] \in Nat /\ stream[k] \in Value
    <3>1. ~Misplaced(stream[k]) /\ widths[k] = WidthOf(stream[k], offsets[k]) /\ offsets[k + 1] = offsets[k] + widths[k]
      BY <2>2 DEF IInv, Measured
    <3>2. offsets \in Seq(Nat) /\ Len(offsets) = Len(widths) + 1
      BY DEF IInv, Measured
    <3> QED BY <2>0, <2>1, <2>2, <3>1, <3>2
  <2>4. offsets[k + 1] % stream[k].n = 0
    BY <2>3, WidthType
  <2>5. starts[k + 1] = offsets[k + 1]
    BY DEF IInv, Matched, PassesAgree
  <2> QED BY <2>4, <2>5
<1>2. IInv => PaddingIsMinimal
  <2> SUFFICES ASSUME IInv, phase = "done"
               PROVE  PaddingIsMinimal
    BY DEF PaddingIsMinimal
  <2>1. padTo = <<>> /\ ToSet(padTo) = {} /\ PaddedSoFar
    BY DEF IInv, Padding, Noted, ToSet
  <2>2. starts[Len(stream) + 1] \in Nat /\ Len(bytes) \in Nat
    BY DEF IInv, Placed, Measured, IsSequence
  <2>3. PadSizes \subseteq Nat
    <3>1. \A k \in DOMAIN stream : stream[k].kind = "pad" => stream[k].n \in Nat
      BY DEF IInv, Measured, Value
    <3> QED BY <3>1 DEF PadSizes
  <2> QED BY <2>1, <2>2, <2>3 DEF PaddedSoFar, PaddingIsMinimal, Ceiling
<1>3. IInv => PaddingAligns
  BY <1>1, <1>2 DEF PaddingAligns
<1> QED BY <1>3, PackInvariant, PTL

\* The streams that pack are those the first pass can measure and the
\* second can resolve, whatever their values.
THEOREM PackPacksWhenWellFormed == Spec => []PacksWhenWellFormed
<1>1. IInv => PacksWhenWellFormed
  <2> SUFFICES ASSUME IInv PROVE PacksWhenWellFormed
    OBVIOUS
  <2>1. phase = "failed" => ~WellFormed
    BY DEF IInv, Sorted
  <2>2. ASSUME phase = "done" PROVE WellFormed
    <3>1. Len(widths) = Len(stream) /\ Len(starts) = Len(stream) + 1 /\ stream \in Seq(Value) /\ Len(stream) \in Nat
      BY <2>2 DEF IInv, Placed, Measured
    <3>2. \A k \in 1..Len(stream) : ~Misplaced(stream[k])
      BY <3>1 DEF IInv, Measured
    <3>3. \A k \in 1..Len(stream) : EntryInOrder(stream[k], k - 1)
      BY <3>1 DEF IInv, Sorted
    <3> QED BY <3>2, <3>3 DEF WellFormed
  <2> QED BY <2>1, <2>2 DEF PacksWhenWellFormed
<1> QED BY <1>1, PackInvariant, PTL

===========================================================================
