----------------------------- MODULE LinkProofs ---------------------------
(* Link for every command line: its types, that placement keeps every      *)
(* entry exactly once, and that the loops implement LinkSpec.  The first   *)
(* two are proved together, as the merged position of a label is in range  *)
(* only because every entry is placed.                                     *)
EXTENDS Link, FiniteSetTheorems, TLAPS

\* Entries the placement loop has passed: of an earlier section, or of this
\* one and before the loop's place in the files.
Passed(e) ==
    \E r \in 1..Len(sectionOrder) :
        /\ sectionOrder[r] = SectionAt(e)
        /\ \/ r < cur.s
           \/ r = cur.s /\ (e[1] < cur.i \/ (e[1] = cur.i /\ e[2] < cur.l))

Known(e) == \E r \in 1..Len(sectionOrder) : sectionOrder[r] = SectionAt(e)

SectionsDistinct ==
    \A r, q \in 1..Len(sectionOrder) : sectionOrder[r] = sectionOrder[q] => r = q

\* How far the first two loops have come.
Progress ==
    /\ phase = "sections" =>
           /\ merged = <<>> /\ DOMAIN globalIndex = {}
           /\ \A e \in Entries : (e[1] < cur.i \/ (e[1] = cur.i /\ e[2] < cur.l)) => Known(e)
    /\ phase # "sections" => \A e \in Entries : Known(e)
    /\ phase = "place" => DOMAIN globalIndex = {e \in Entries : Passed(e)}
    /\ phase \in {"symbols", "values", "done", "failed"} => DOMAIN globalIndex = Entries

IInv == TypeOK /\ IndexMatchesStream /\ SectionsDistinct /\ Progress

---------------------------------------------------------------------------
(* Facts about the inputs.                                                 *)

\* An entry is an input and an index below its number of entries.
LEMMA EntryIff ==
    ASSUME IsCommandLine(inputs)
    PROVE  \A i, l : <<i, l>> \in Entries <=>
              i \in 1..Len(inputs) /\ l \in Nat /\ l < NumEntries(i)
<1>1. \A i \in 1..Len(inputs) : NumEntries(i) \in Nat
  BY DEF IsCommandLine, IsLinkInput, NumEntries
<1>2. SUFFICES ASSUME NEW i, NEW l
               PROVE  <<i, l>> \in Entries <=> i \in 1..Len(inputs) /\ l \in Nat /\ l < NumEntries(i)
  OBVIOUS
<1>3. ASSUME <<i, l>> \in Entries
      PROVE  i \in 1..Len(inputs) /\ l \in Nat /\ l < NumEntries(i)
  <2>1. i \in 1..Len(inputs) /\ l < NumEntries(i)
    BY <1>3 DEF Entries
  <2>2. PICK h \in 1..Len(inputs) : l \in 0..(NumEntries(h) - 1)
    BY <1>3 DEF Entries
  <2> QED BY <2>1, <2>2, <1>1
<1>4. ASSUME i \in 1..Len(inputs), l \in Nat, l < NumEntries(i)
      PROVE  <<i, l>> \in Entries
  <2>1. l \in 0..(NumEntries(i) - 1)
    BY <1>4, <1>1
  <2> QED BY <2>1, <1>4 DEF Entries
<1> QED BY <1>3, <1>4

\* An entry is a pair, and it has a section and a value.
LEMMA EntryShape ==
    ASSUME IsCommandLine(inputs)
    PROVE  \A e \in Entries : /\ e = <<e[1], e[2]>>
                              /\ e[1] \in 1..Len(inputs)
                              /\ e[2] \in Nat
                              /\ SectionAt(e) \in Sections
                              /\ ValueAt(e) \in Value
<1> SUFFICES ASSUME NEW e \in Entries
             PROVE  /\ e = <<e[1], e[2]>>
                    /\ e[1] \in 1..Len(inputs)
                    /\ e[2] \in Nat
                    /\ SectionAt(e) \in Sections
                    /\ ValueAt(e) \in Value
  OBVIOUS
<1>1. e = <<e[1], e[2]>>
  BY DEF Entries
<1>2. e[1] \in 1..Len(inputs) /\ e[2] \in Nat /\ e[2] < NumEntries(e[1])
  BY <1>1, EntryIff
<1>3. inputs[e[1]].entries \in Seq(Entry)
  BY <1>2 DEF IsCommandLine, IsLinkInput
<1>4. e[2] + 1 \in 1..Len(inputs[e[1]].entries)
  BY <1>2, <1>3 DEF NumEntries
<1>5. inputs[e[1]].entries[e[2] + 1] \in Entry
  BY <1>3, <1>4
<1> QED BY <1>1, <1>2, <1>5 DEF Entry, SectionAt, ValueAt

\* The cursor's entry is an entry.
LEMMA CursorEntry ==
    ASSUME TypeOK, AtEntry
    PROVE  <<cur.i, cur.l>> \in Entries
BY EntryIff DEF TypeOK, AtEntry

---------------------------------------------------------------------------
(* Positions and values.                                                   *)

\* With everything placed, a valid local position leads into the image.
LEMMA GlobalPositionType ==
    ASSUME TypeOK, DOMAIN globalIndex = Entries,
           NEW i \in 1..Len(inputs), NEW local, ValidPosition(i, local)
    PROVE  GlobalPosition(i, local) \in 0..Len(merged)
<1>1. NumEntries(i) \in Nat /\ local \in Nat /\ local <= NumEntries(i)
  BY DEF TypeOK, IsCommandLine, IsLinkInput, NumEntries, ValidPosition
<1>2. Len(merged) \in Nat
  BY DEF TypeOK
<1>3. CASE local < NumEntries(i)
  <2>1. <<i, local>> \in Entries
    BY <1>1, <1>3, EntryIff DEF TypeOK
  <2>2. globalIndex[<<i, local>>] \in 0..(Len(merged) - 1)
    BY <2>1 DEF TypeOK
  <2> QED BY <2>2, <1>2, <1>3 DEF GlobalPosition
<1>4. CASE ~(local < NumEntries(i)) /\ NumEntries(i) = 0
  BY <1>2, <1>4 DEF GlobalPosition
<1>5. CASE ~(local < NumEntries(i)) /\ NumEntries(i) # 0
  <2> DEFINE last == NumEntries(i) - 1
  <2>0. last \in Nat /\ last < NumEntries(i)
    BY <1>1, <1>5
  <2>1. <<i, last>> \in Entries
    <3> HIDE DEF last
    <3> QED BY <2>0, EntryIff DEF TypeOK
  <2>2. globalIndex[<<i, NumEntries(i) - 1>>] \in 0..(Len(merged) - 1)
    BY <2>1 DEF TypeOK
  <2> QED BY <2>2, <1>2, <1>5 DEF GlobalPosition
<1> QED BY <1>3, <1>4, <1>5

\* A leaf that meets no error is rewritten to a leaf.
LEMMA RewriteLeafType ==
    ASSUME TypeOK, DOMAIN globalIndex = Entries,
           NEW i \in 1..Len(inputs), NEW leaf \in Leaf,
           TranslationError(i, leaf) = "none", ResolutionError(leaf) = "none"
    PROVE  RewriteLeaf(i, leaf) \in Leaf
<1>1. Len(merged) \in Nat
  BY DEF TypeOK
<1>2. CASE leaf.ref.kind = "int" /\ leaf.pos
  <2>1. ValidPosition(i, leaf.ref.at)
    BY <1>2 DEF TranslationError
  <2>2. GlobalPosition(i, leaf.ref.at) \in Int
    BY <2>1, <1>1, GlobalPositionType
  <2>3. AsInt(GlobalPosition(i, leaf.ref.at)) \in IntRef
    BY <2>2 DEF AsInt, IntRef
  <2>4. Translate(i, leaf) \in Leaf /\ Translate(i, leaf).ref.kind = "int"
    BY <1>2, <2>3 DEF Translate, Leaf, AsInt
  <2> QED BY <2>4 DEF RewriteLeaf, Resolve
<1>3. CASE leaf.ref.kind = "int" /\ ~leaf.pos
  BY <1>3 DEF RewriteLeaf, Resolve, Translate
<1>4. CASE leaf.ref.kind # "int"
  <2> DEFINE at == IF leaf.ref.module = LinkModule THEN LinkSymbol(leaf.ref.symbol)
                                                   ELSE symbols[leaf.ref.symbol].position
  <2>1. at \in Int
    BY <1>1, <1>4 DEF ResolutionError, LinkSymbol, TypeOK
  <2>2. AsInt(at) \in IntRef
    BY <2>1 DEF AsInt, IntRef
  <2>3. RewriteLeaf(i, leaf) = [leaf EXCEPT !.ref = AsInt(at)]
    BY <1>4 DEF RewriteLeaf, Resolve, Translate
  <2> QED BY <2>2, <2>3 DEF Leaf
<1> QED BY <1>2, <1>3, <1>4

---------------------------------------------------------------------------
(* The initial states.                                                     *)

LEMMA InitIInv == Init => IInv
<1> SUFFICES ASSUME Init PROVE IInv
  OBVIOUS
<1>1. IsCommandLine(inputs)
  BY InputSpaceAssumption DEF Init
<1>2. TypeOK
  BY <1>1 DEF TypeOK, Init, Start, Phases, Errors, IsCommandLine
<1>3. IndexMatchesStream /\ SectionsDistinct
  BY DEF Init, IndexMatchesStream, SectionsDistinct
<1>4. \A e \in Entries : ~(e[1] < cur.i \/ (e[1] = cur.i /\ e[2] < cur.l))
  BY <1>1, EntryShape DEF Init, Start, IsCommandLine
<1> QED BY <1>2, <1>3, <1>4 DEF IInv, Progress, Init

---------------------------------------------------------------------------
(* The steps.  Facts on the inputs are primed once, as no step changes     *)
(* them.                                                                   *)

\* A step leaves the inputs and all that is read off them alone.
LEMMA InputsFixed ==
    ASSUME inputs' = inputs
    PROVE  /\ Entries' = Entries
           /\ \A i : NumEntries(i)' = NumEntries(i)
           /\ \A e : SectionAt(e)' = SectionAt(e)
           /\ IsCommandLine(inputs)' = IsCommandLine(inputs)
BY DEF Entries, NumEntries, SectionAt

\* The first loop: sections are remembered, nothing is placed.
LEMMA SeeEntryStep == IInv /\ SeeEntry => IInv'
<1> SUFFICES ASSUME IInv, SeeEntry PROVE IInv'
  OBVIOUS
<1> DEFINE e == <<cur.i, cur.l>>
           section == SectionAt(e)
<1>0. /\ inputs' = inputs /\ phase' = phase /\ phase = "sections"
      /\ merged' = merged /\ globalIndex' = globalIndex
      /\ cur' = [cur EXCEPT !.l = @ + 1]
  BY DEF SeeEntry
<1>a. /\ Entries' = Entries /\ IsCommandLine(inputs)' = IsCommandLine(inputs)
      /\ \A f : SectionAt(f)' = SectionAt(f)
  BY <1>0, InputsFixed
<1>b. IsCommandLine(inputs)
  BY DEF IInv, TypeOK
<1>1. e \in Entries /\ section \in Sections
  <2>1. e \in Entries
    BY CursorEntry DEF IInv, SeeEntry
  <2> QED BY <2>1, <1>b, EntryShape
<1>2. \/ (\E r \in 1..Len(sectionOrder) : sectionOrder[r] = section) /\ sectionOrder' = sectionOrder
      \/ ~(\E r \in 1..Len(sectionOrder) : sectionOrder[r] = section) /\ sectionOrder' = Append(sectionOrder, section)
  BY DEF SeeEntry
<1> HIDE DEF section

<1>3. sectionOrder \in Seq(Sections)
  BY DEF IInv, TypeOK
<1>4. /\ sectionOrder' \in Seq(Sections)
      /\ Len(sectionOrder') >= Len(sectionOrder)
      /\ \A r \in 1..Len(sectionOrder) : sectionOrder'[r] = sectionOrder[r]
      /\ \E r \in 1..Len(sectionOrder') : sectionOrder'[r] = section
  <2>1. CASE sectionOrder' = sectionOrder
    BY <1>2, <1>3, <2>1
  <2>2. CASE sectionOrder' = Append(sectionOrder, section)
    <3>1. Len(sectionOrder) \in Nat /\ Len(sectionOrder') = Len(sectionOrder) + 1
      BY <1>1, <1>3, <2>2
    <3>2. sectionOrder' \in Seq(Sections)
      BY <1>1, <1>3, <2>2
    <3>3. /\ \A r \in 1..Len(sectionOrder) : sectionOrder'[r] = sectionOrder[r]
          /\ sectionOrder'[Len(sectionOrder) + 1] = section
      BY <1>1, <1>3, <2>2
    <3> QED BY <3>1, <3>2, <3>3
  <2> QED BY <1>2, <2>1, <2>2
<1>5. TypeOK'
  <2>1. cur' \in [s : 1..(Len(sectionOrder') + 1), i : 1..(Len(inputs) + 1), l : Nat]
    <3>1. cur \in [s : 1..(Len(sectionOrder) + 1), i : 1..(Len(inputs) + 1), l : Nat]
      BY DEF IInv, TypeOK
    <3>2. cur' = [s |-> cur.s, i |-> cur.i, l |-> cur.l + 1]
      BY <1>0, <3>1
    <3> QED BY <1>3, <1>4, <3>1, <3>2
  <2> QED BY <1>0, <1>a, <1>4, <2>1 DEF IInv, TypeOK, SeeEntry
<1>6. IndexMatchesStream'
  BY <1>0 DEF IInv, IndexMatchesStream
<1>7. SectionsDistinct'
  <2>1. CASE sectionOrder' = sectionOrder
    BY <2>1 DEF IInv, SectionsDistinct
  <2>2. CASE /\ ~(\E r \in 1..Len(sectionOrder) : sectionOrder[r] = section)
             /\ sectionOrder' = Append(sectionOrder, section)
    <3>1. Len(sectionOrder) \in Nat /\ Len(sectionOrder') = Len(sectionOrder) + 1
      BY <1>1, <1>3, <2>2
    <3>2. /\ \A r \in 1..Len(sectionOrder) : sectionOrder'[r] = sectionOrder[r]
          /\ sectionOrder'[Len(sectionOrder) + 1] = section
      BY <1>1, <1>3, <2>2
    <3> QED BY <2>2, <3>1, <3>2 DEF IInv, SectionsDistinct
  <2> QED BY <1>2, <2>1, <2>2
<1>8. ASSUME NEW f \in Entries, f[1] < cur'.i \/ (f[1] = cur'.i /\ f[2] < cur'.l)
      PROVE  Known(f)'
  <2>1. f = <<f[1], f[2]>> /\ f[2] \in Nat
    BY EntryShape DEF IInv, TypeOK
  <2>2. cur'.i = cur.i /\ cur'.l = cur.l + 1 /\ cur.l \in Nat
    BY <1>0 DEF IInv, TypeOK
  <2>3. CASE f[1] < cur.i \/ (f[1] = cur.i /\ f[2] < cur.l)
    <3>1. Known(f)
      BY <1>0, <2>3 DEF IInv, Progress
    <3>2. PICK r \in 1..Len(sectionOrder) : sectionOrder[r] = SectionAt(f)
      BY <3>1 DEF Known
    <3>3. r \in 1..Len(sectionOrder') /\ sectionOrder'[r] = SectionAt(f)
      BY <3>2, <1>3, <1>4
    <3>4. SectionAt(f)' = SectionAt(f)
      BY <1>a
    <3> QED BY <3>3, <3>4 DEF Known
  <2>4. CASE f[1] = cur.i /\ f[2] = cur.l
    <3>1. f = e
      BY <2>1, <2>4
    <3>2. SectionAt(f)' = section
      BY <1>a, <3>1 DEF section
    <3> QED BY <1>4, <3>2 DEF Known
  <2> QED BY <1>8, <2>1, <2>2, <2>3, <2>4
<1>9. Progress'
  BY <1>0, <1>a, <1>8 DEF IInv, Progress
<1> QED BY <1>5, <1>6, <1>7, <1>9 DEF IInv

\* The last section loop: what was before the cursor at an input's end is
\* before it at the start of the next.
LEMMA SeeNextInputStep == IInv /\ SeeNextInput => IInv'
<1> SUFFICES ASSUME IInv, SeeNextInput PROVE IInv'
  OBVIOUS
<1>0. /\ inputs' = inputs /\ phase' = phase /\ phase = "sections"
      /\ merged' = merged /\ globalIndex' = globalIndex /\ sectionOrder' = sectionOrder
      /\ cur.i <= Len(inputs) /\ cur.l = NumEntries(cur.i)
      /\ cur' = [cur EXCEPT !.i = @ + 1, !.l = 0]
  BY DEF SeeNextInput, AtInputEnd
<1>a. /\ Entries' = Entries /\ IsCommandLine(inputs)' = IsCommandLine(inputs)
      /\ \A f : SectionAt(f)' = SectionAt(f)
  BY <1>0, InputsFixed
<1>1. TypeOK'
  <2>1. cur' \in [s : 1..(Len(sectionOrder) + 1), i : 1..(Len(inputs) + 1), l : Nat]
    <3>1. cur \in [s : 1..(Len(sectionOrder) + 1), i : 1..(Len(inputs) + 1), l : Nat] /\ Len(inputs) \in Nat
      BY DEF IInv, TypeOK, IsCommandLine
    <3>2. cur' = [s |-> cur.s, i |-> cur.i + 1, l |-> 0]
      BY <1>0, <3>1
    <3> QED BY <1>0, <3>1, <3>2
  <2> QED BY <1>0, <1>a, <2>1 DEF IInv, TypeOK, SeeNextInput
<1>2. IndexMatchesStream' /\ SectionsDistinct'
  BY <1>0 DEF IInv, IndexMatchesStream, SectionsDistinct
<1>3. ASSUME NEW f \in Entries, f[1] < cur'.i \/ (f[1] = cur'.i /\ f[2] < cur'.l)
      PROVE  Known(f)'
  <2>1. f = <<f[1], f[2]>> /\ f[1] \in 1..Len(inputs) /\ f[2] \in Nat /\ f[2] < NumEntries(f[1])
    BY EntryShape, EntryIff DEF IInv, TypeOK
  <2>2. cur'.i = cur.i + 1 /\ cur'.l = 0 /\ cur.i \in Nat
    BY <1>0 DEF IInv, TypeOK
  <2>3. f[1] < cur.i \/ (f[1] = cur.i /\ f[2] < cur.l)
    BY <1>0, <1>3, <2>1, <2>2
  <2>4. Known(f)
    BY <1>0, <2>3 DEF IInv, Progress
  <2> QED BY <1>0, <1>a, <2>4 DEF Known
<1>4. Progress'
  BY <1>0, <1>a, <1>3 DEF IInv, Progress
<1> QED BY <1>1, <1>2, <1>4 DEF IInv

LEMMA SectionsKnownStep == IInv /\ SectionsKnown => IInv'
<1> SUFFICES ASSUME IInv, SectionsKnown PROVE IInv'
  OBVIOUS
<1>0. /\ inputs' = inputs /\ phase' = "place" /\ phase = "sections"
      /\ merged' = merged /\ globalIndex' = globalIndex /\ sectionOrder' = sectionOrder
      /\ cur.i = Len(inputs) + 1 /\ cur' = Start
  BY DEF SectionsKnown, AtLastInput
<1>a. /\ Entries' = Entries /\ IsCommandLine(inputs)' = IsCommandLine(inputs)
      /\ \A f : SectionAt(f)' = SectionAt(f)
  BY <1>0, InputsFixed
<1>1. TypeOK'
  BY <1>0, <1>a DEF IInv, TypeOK, SectionsKnown, IsCommandLine, Start, Phases
<1>2. IndexMatchesStream' /\ SectionsDistinct'
  BY <1>0 DEF IInv, IndexMatchesStream, SectionsDistinct
<1>3. \A f \in Entries : Known(f)
  BY <1>0, EntryShape DEF IInv, TypeOK, Progress, IsCommandLine
<1>4. \A f \in Entries : Known(f)'
  BY <1>0, <1>a, <1>3 DEF Known
<1>5. \A f \in Entries : ~Passed(f)'
  BY <1>0, <1>a, EntryShape DEF Passed, Start, IInv, TypeOK
<1>6. DOMAIN globalIndex' = {f \in Entries : Passed(f)'}
  BY <1>0, <1>a, <1>5 DEF IInv, Progress
<1>7. Progress'
  BY <1>0, <1>a, <1>4, <1>6 DEF Progress
<1> QED BY <1>1, <1>2, <1>7 DEF IInv

(* The placement loop.                                                     *)

\* The entry under the cursor has not been placed before.
LEMMA CursorEntryFresh ==
    ASSUME IInv, phase = "place", cur.s <= Len(sectionOrder), AtEntry,
           SectionAt(<<cur.i, cur.l>>) = sectionOrder[cur.s]
    PROVE  <<cur.i, cur.l>> \notin DOMAIN globalIndex
<1>1. cur.s \in 1..Len(sectionOrder) /\ cur.i \in Nat /\ cur.l \in Nat
  BY DEF IInv, TypeOK
<1>2. ~Passed(<<cur.i, cur.l>>)
  BY <1>1 DEF Passed, IInv, SectionsDistinct
<1> QED BY <1>2 DEF IInv, Progress

\* Advancing the cursor by one entry passes that entry if it is of the
\* section being placed, and nothing else.
LEMMA PassOne ==
    ASSUME IInv, phase = "place", cur.s <= Len(sectionOrder), AtEntry,
           inputs' = inputs, sectionOrder' = sectionOrder,
           cur' = [cur EXCEPT !.l = @ + 1],
           NEW f \in Entries
    PROVE  Passed(f)' <=> \/ Passed(f)
                          \/ f = <<cur.i, cur.l>> /\ SectionAt(f) = sectionOrder[cur.s]
<1>1. cur.s \in 1..Len(sectionOrder) /\ cur.i \in Nat /\ cur.l \in Nat
  BY DEF IInv, TypeOK
<1>2. cur'.s = cur.s /\ cur'.i = cur.i /\ cur'.l = cur.l + 1
  BY DEF IInv, TypeOK
<1>3. f = <<f[1], f[2]>> /\ f[1] \in Nat /\ f[2] \in Nat
  BY EntryShape DEF IInv, TypeOK
<1>4. SectionAt(f)' = SectionAt(f)
  BY InputsFixed
<1>5. f[2] < cur.l + 1 <=> f[2] < cur.l \/ f[2] = cur.l
  BY <1>1, <1>3
<1>6. Passed(f)' <=>
        \E r \in 1..Len(sectionOrder) :
            /\ sectionOrder[r] = SectionAt(f)
            /\ \/ r < cur.s
               \/ r = cur.s /\ (f[1] < cur.i \/ (f[1] = cur.i /\ f[2] < cur.l + 1))
  BY <1>2, <1>4 DEF Passed
<1>7. f = <<cur.i, cur.l>> <=> f[1] = cur.i /\ f[2] = cur.l
  BY <1>3
<1> QED BY <1>1, <1>5, <1>6, <1>7 DEF Passed

LEMMA PlaceEntryStep == IInv /\ PlaceEntry => IInv'
<1> SUFFICES ASSUME IInv, PlaceEntry PROVE IInv'
  OBVIOUS
<1> DEFINE e == <<cur.i, cur.l>>
<1>0. /\ inputs' = inputs /\ phase' = phase /\ phase = "place" /\ sectionOrder' = sectionOrder
      /\ cur.s <= Len(sectionOrder) /\ AtEntry
      /\ cur' = [cur EXCEPT !.l = @ + 1]
  BY DEF PlaceEntry
<1>1. /\ Entries' = Entries /\ IsCommandLine(inputs)' = IsCommandLine(inputs)
      /\ \A f : SectionAt(f)' = SectionAt(f)
  BY <1>0, InputsFixed
<1>2. e \in Entries
  BY <1>0, CursorEntry DEF IInv
<1>3. cur' \in [s : 1..(Len(sectionOrder') + 1), i : 1..(Len(inputs') + 1), l : Nat]
  <2>1. cur \in [s : 1..(Len(sectionOrder) + 1), i : 1..(Len(inputs) + 1), l : Nat]
    BY DEF IInv, TypeOK
  <2>2. cur' = [s |-> cur.s, i |-> cur.i, l |-> cur.l + 1]
    BY <1>0, <2>1
  <2> QED BY <1>0, <2>1, <2>2
<1>4. SectionsDistinct'
  BY <1>0 DEF IInv, SectionsDistinct
<1>5. \A f \in Entries : Known(f)'
  BY <1>0, <1>1 DEF IInv, Progress, Known
<1>6. \A f \in Entries : Passed(f)' <=> \/ Passed(f)
                                        \/ f = e /\ SectionAt(f) = sectionOrder[cur.s]
  BY <1>0, PassOne
<1>7. merged \in Seq(Entries) /\ Len(merged) \in Nat
  BY DEF IInv, TypeOK
<1>8. CASE SectionAt(e) = sectionOrder[cur.s]
  <2>1. e \notin DOMAIN globalIndex
    BY <1>0, <1>8, CursorEntryFresh
  <2>2. merged' = Append(merged, e)
    BY <1>8 DEF PlaceEntry
  <2>3. /\ DOMAIN globalIndex' = DOMAIN globalIndex \cup {e}
        /\ globalIndex'[e] = Len(merged)
        /\ \A f \in DOMAIN globalIndex : globalIndex'[f] = globalIndex[f]
    BY <1>8, <2>1 DEF PlaceEntry, Put
  <2>4. /\ Len(merged') = Len(merged) + 1
        /\ merged' \in Seq(Entries)
    BY <1>2, <1>7, <2>2
  <2>5. /\ merged'[Len(merged) + 1] = e
        /\ \A k \in 1..Len(merged) : merged'[k] = merged[k]
    BY <1>2, <1>7, <2>2
  <2>6. TypeOK'
    <3>1. DOMAIN globalIndex' \subseteq Entries
      BY <1>2, <2>3 DEF IInv, TypeOK
    <3>2. \A f \in DOMAIN globalIndex' : globalIndex'[f] \in 0..(Len(merged') - 1)
      <4>1. ASSUME NEW f \in DOMAIN globalIndex
            PROVE  globalIndex'[f] \in 0..(Len(merged') - 1)
        <5>1. globalIndex[f] \in 0..(Len(merged) - 1) /\ globalIndex'[f] = globalIndex[f]
          BY <2>3 DEF IInv, TypeOK
        <5> QED BY <1>7, <2>4, <5>1
      <4>2. globalIndex'[e] \in 0..(Len(merged') - 1)
        BY <1>7, <2>3, <2>4
      <4> QED BY <2>3, <4>1, <4>2
    <3>3. \A s \in DOMAIN symbols : symbols[s] \in [module : Modules, position : 0..Len(merged')]
      <4>1. 0..Len(merged) \subseteq 0..Len(merged')
        BY <1>7, <2>4
      <4> QED BY <4>1 DEF IInv, TypeOK
    <3>4. Len(values) <= Len(merged')
      BY <1>7, <2>4 DEF IInv, TypeOK
    <3>5. /\ declared' = declared /\ symbols' = symbols /\ values' = values /\ error' = error
      BY DEF PlaceEntry
    <3> QED BY <1>0, <1>1, <1>3, <2>4, <3>1, <3>2, <3>3, <3>4, <3>5 DEF IInv, TypeOK
  <2>7. ASSUME NEW k \in 1..Len(merged')
        PROVE  merged'[k] \in DOMAIN globalIndex' /\ globalIndex'[merged'[k]] = k - 1
    <3>1. CASE k = Len(merged) + 1
      BY <1>7, <2>3, <2>5, <3>1
    <3>2. CASE k \in 1..Len(merged)
      BY <2>3, <2>5, <3>2 DEF IInv, IndexMatchesStream
    <3> QED BY <1>7, <2>4, <3>1, <3>2
  <2>8. ASSUME NEW f \in DOMAIN globalIndex'
        PROVE  merged'[globalIndex'[f] + 1] = f
    <3>1. CASE f = e
      BY <1>7, <2>3, <2>5, <3>1
    <3>2. CASE f \in DOMAIN globalIndex
      <4>1. globalIndex[f] \in 0..(Len(merged) - 1) /\ merged[globalIndex[f] + 1] = f
        BY <3>2 DEF IInv, TypeOK, IndexMatchesStream
      <4>2. globalIndex[f] + 1 \in 1..Len(merged)
        BY <1>7, <4>1
      <4> QED BY <2>3, <2>5, <3>2, <4>1, <4>2
    <3> QED BY <2>3, <3>1, <3>2
  <2>9. IndexMatchesStream'
    BY <2>7, <2>8 DEF IndexMatchesStream
  <2>10. DOMAIN globalIndex' = {f \in Entries : Passed(f)'}
    BY <1>0, <1>2, <1>6, <1>8, <2>3 DEF IInv, Progress
  <2>11. Progress'
    BY <1>0, <1>1, <1>5, <2>10 DEF Progress
  <2> QED BY <1>4, <2>6, <2>9, <2>11 DEF IInv
<1>9. CASE SectionAt(e) # sectionOrder[cur.s]
  <2>1. merged' = merged /\ globalIndex' = globalIndex
    BY <1>9 DEF PlaceEntry
  <2>2. TypeOK'
    BY <1>0, <1>1, <1>3, <2>1 DEF IInv, TypeOK, PlaceEntry
  <2>3. IndexMatchesStream'
    BY <2>1 DEF IInv, IndexMatchesStream
  <2>4. DOMAIN globalIndex' = {f \in Entries : Passed(f)'}
    BY <1>0, <1>6, <1>9, <2>1 DEF IInv, Progress
  <2>5. Progress'
    BY <1>0, <1>1, <1>5, <2>4 DEF Progress
  <2> QED BY <1>4, <2>2, <2>3, <2>5 DEF IInv
<1> QED BY <1>8, <1>9

\* What a step that moves only the cursor, or only the phase, must show.
LEMMA CursorMoved ==
    ASSUME IInv, phase = "place", phase' = "place", inputs' = inputs,
           sectionOrder' = sectionOrder, merged' = merged, globalIndex' = globalIndex,
           declared' = declared, symbols' = symbols, values' = values, error' = error,
           cur' \in [s : 1..(Len(sectionOrder) + 1), i : 1..(Len(inputs) + 1), l : Nat],
           \A f \in Entries : Passed(f)' <=> Passed(f)
    PROVE  IInv'
<1>1. /\ Entries' = Entries /\ IsCommandLine(inputs)' = IsCommandLine(inputs)
      /\ \A f : SectionAt(f)' = SectionAt(f)
  BY InputsFixed
<1>2. TypeOK'
  BY <1>1 DEF IInv, TypeOK
<1>3. IndexMatchesStream' /\ SectionsDistinct'
  BY DEF IInv, IndexMatchesStream, SectionsDistinct
<1>4. DOMAIN globalIndex' = {f \in Entries : Passed(f)'}
  BY DEF IInv, Progress
<1>5. \A f \in Entries : Known(f)'
  BY <1>1 DEF IInv, Progress, Known
<1>6. Progress'
  BY <1>1, <1>4, <1>5 DEF Progress
<1> QED BY <1>2, <1>3, <1>6 DEF IInv

LEMMA PlaceNextInputStep == IInv /\ PlaceNextInput => IInv'
<1> SUFFICES ASSUME IInv, PlaceNextInput PROVE IInv'
  OBVIOUS
<1>0. /\ inputs' = inputs /\ phase' = phase /\ phase = "place" /\ sectionOrder' = sectionOrder
      /\ cur.i <= Len(inputs) /\ cur.l = NumEntries(cur.i)
      /\ cur' = [cur EXCEPT !.i = @ + 1, !.l = 0]
  BY DEF PlaceNextInput, AtInputEnd
<1>1. /\ cur \in [s : 1..(Len(sectionOrder) + 1), i : 1..(Len(inputs) + 1), l : Nat]
      /\ Len(inputs) \in Nat
  BY DEF IInv, TypeOK, IsCommandLine
<1>2. cur' = [s |-> cur.s, i |-> cur.i + 1, l |-> 0]
  BY <1>0, <1>1
<1>3. cur' \in [s : 1..(Len(sectionOrder) + 1), i : 1..(Len(inputs) + 1), l : Nat]
  BY <1>0, <1>1, <1>2
<1>4. ASSUME NEW f \in Entries
      PROVE  Passed(f)' <=> Passed(f)
  <2>1. f = <<f[1], f[2]>> /\ f[1] \in Nat /\ f[2] \in Nat /\ f[2] < NumEntries(f[1])
    BY EntryShape, EntryIff DEF IInv, TypeOK
  <2>2. f[1] < cur'.i \/ (f[1] = cur'.i /\ f[2] < cur'.l) <=> f[1] < cur.i \/ (f[1] = cur.i /\ f[2] < cur.l)
    BY <1>0, <1>1, <1>2, <2>1
  <2>3. SectionAt(f)' = SectionAt(f)
    BY <1>0, InputsFixed
  <2> QED BY <1>0, <1>2, <2>2, <2>3 DEF Passed
<1> QED BY <1>0, <1>3, <1>4, CursorMoved DEF PlaceNextInput

LEMMA PlaceNextSectionStep == IInv /\ PlaceNextSection => IInv'
<1> SUFFICES ASSUME IInv, PlaceNextSection PROVE IInv'
  OBVIOUS
<1>0. /\ inputs' = inputs /\ phase' = phase /\ phase = "place" /\ sectionOrder' = sectionOrder
      /\ cur.s <= Len(sectionOrder) /\ cur.i = Len(inputs) + 1
      /\ cur' = [s |-> cur.s + 1, i |-> 1, l |-> 0]
  BY DEF PlaceNextSection, AtLastInput
<1>1. /\ cur \in [s : 1..(Len(sectionOrder) + 1), i : 1..(Len(inputs) + 1), l : Nat]
      /\ Len(inputs) \in Nat /\ Len(sectionOrder) \in Nat
  BY DEF IInv, TypeOK, IsCommandLine
<1>2. cur' \in [s : 1..(Len(sectionOrder) + 1), i : 1..(Len(inputs) + 1), l : Nat]
  BY <1>0, <1>1
<1>3. ASSUME NEW f \in Entries
      PROVE  Passed(f)' <=> Passed(f)
  <2>1. f[1] \in 1..Len(inputs) /\ f[2] \in Nat
    BY EntryShape DEF IInv, TypeOK
  <2>2. f[1] < cur.i /\ ~(f[1] < 1 \/ (f[1] = 1 /\ f[2] < 0))
    BY <1>0, <1>1, <2>1
  <2>3. SectionAt(f)' = SectionAt(f)
    BY <1>0, InputsFixed
  <2>4. \A r \in 1..Len(sectionOrder) : r < cur.s + 1 <=> r < cur.s \/ r = cur.s
    BY <1>1
  <2> QED BY <1>0, <2>2, <2>3, <2>4 DEF Passed
<1> QED BY <1>0, <1>2, <1>3, CursorMoved DEF PlaceNextSection

LEMMA EntriesPlacedStep == IInv /\ EntriesPlaced => IInv'
<1> SUFFICES ASSUME IInv, EntriesPlaced PROVE IInv'
  OBVIOUS
<1>0. /\ inputs' = inputs /\ phase' = "symbols" /\ phase = "place"
      /\ sectionOrder' = sectionOrder /\ merged' = merged /\ globalIndex' = globalIndex
      /\ cur.s = Len(sectionOrder) + 1 /\ cur' = Start
  BY DEF EntriesPlaced
<1>1. /\ Entries' = Entries /\ IsCommandLine(inputs)' = IsCommandLine(inputs)
      /\ \A f : SectionAt(f)' = SectionAt(f)
  BY <1>0, InputsFixed
<1>2. TypeOK'
  <2>1. Len(sectionOrder) \in Nat /\ Len(inputs) \in Nat
    BY DEF IInv, TypeOK, IsCommandLine
  <2>2. cur' \in [s : 1..(Len(sectionOrder) + 1), i : 1..(Len(inputs) + 1), l : Nat]
    BY <1>0, <2>1 DEF Start
  <2> QED BY <1>0, <1>1, <2>2 DEF IInv, TypeOK, EntriesPlaced, Phases
<1>3. IndexMatchesStream' /\ SectionsDistinct'
  BY <1>0 DEF IInv, IndexMatchesStream, SectionsDistinct
<1>4. \A f \in Entries : Known(f) /\ Passed(f)
  BY <1>0 DEF IInv, TypeOK, Progress, Known, Passed
<1>5. Progress'
  BY <1>0, <1>1, <1>4 DEF IInv, Progress, Known
<1> QED BY <1>2, <1>3, <1>5 DEF IInv

---------------------------------------------------------------------------
(* Symbols, values and the end: the placement no longer changes.           *)

LEMMA PlacementKept ==
    ASSUME IInv, phase \in {"symbols", "values"}, phase' \in {"symbols", "values", "done", "failed"},
           inputs' = inputs, sectionOrder' = sectionOrder, merged' = merged,
           globalIndex' = globalIndex, TypeOK'
    PROVE  IInv'
<1>1. /\ Entries' = Entries
      /\ \A f : SectionAt(f)' = SectionAt(f)
  BY InputsFixed
<1>2. IndexMatchesStream' /\ SectionsDistinct'
  BY DEF IInv, IndexMatchesStream, SectionsDistinct
<1>3. Progress'
  BY <1>1 DEF IInv, Progress, Known
<1> QED BY <1>2, <1>3 DEF IInv

LEMMA DeclareLabelStep ==
    ASSUME IInv, NEW name \in Symbols, DeclareLabel(name)
    PROVE  IInv'
<1>0. /\ inputs' = inputs /\ sectionOrder' = sectionOrder /\ merged' = merged
      /\ globalIndex' = globalIndex /\ cur' = cur /\ values' = values
      /\ phase = "symbols" /\ cur.i <= Len(inputs)
      /\ name \in DOMAIN inputs[cur.i].labels
  BY DEF DeclareLabel
<1>1. Entries' = Entries /\ IsCommandLine(inputs)' = IsCommandLine(inputs)
  BY <1>0, InputsFixed
<1>2. cur.i \in 1..Len(inputs) /\ DOMAIN globalIndex = Entries /\ error = "none"
  BY <1>0 DEF IInv, TypeOK, Progress
<1>3. inputs[cur.i].module \in Modules
  BY <1>2 DEF IInv, TypeOK, IsCommandLine, IsLinkInput
<1> DEFINE position == GlobalPosition(cur.i, inputs[cur.i].labels[name])
<1>4. CASE \E why \in {"past_entries", "duplicate_label"} :
               Fail(why) /\ declared' = declared /\ symbols' = symbols
  <2>1. TypeOK'
    BY <1>0, <1>1, <1>4 DEF IInv, TypeOK, Fail, Errors, Phases
  <2>2. phase' = "failed"
    BY <1>4 DEF Fail
  <2> QED BY <1>0, <2>1, <2>2, PlacementKept
<1>5. CASE /\ ValidPosition(cur.i, inputs[cur.i].labels[name])
           /\ symbols' = Put(symbols, name, [module |-> inputs[cur.i].module, position |-> position])
           /\ declared' = declared \cup {name}
           /\ phase' = phase /\ error' = error
  <2>1. position \in 0..Len(merged)
    BY <1>2, <1>5, GlobalPositionType DEF IInv
  <2> HIDE DEF position
  <2>2. [module |-> inputs[cur.i].module, position |-> position] \in [module : Modules, position : 0..Len(merged)]
    BY <1>3, <2>1
  <2>3. /\ DOMAIN symbols' \subseteq Symbols
        /\ \A s \in DOMAIN symbols' : symbols'[s] \in [module : Modules, position : 0..Len(merged)]
    BY <1>5, <2>2 DEF IInv, TypeOK, Put
  <2>4. TypeOK'
    BY <1>0, <1>1, <1>5, <2>3 DEF IInv, TypeOK
  <2> QED BY <1>0, <1>5, <2>4, PlacementKept
<1> QED BY <1>0, <1>4, <1>5 DEF DeclareLabel

LEMMA LabelsDeclaredStep == IInv /\ LabelsDeclared => IInv'
<1> SUFFICES ASSUME IInv, LabelsDeclared PROVE IInv'
  OBVIOUS
<1>0. /\ inputs' = inputs /\ sectionOrder' = sectionOrder /\ merged' = merged
      /\ globalIndex' = globalIndex /\ phase = "symbols" /\ phase' = phase
      /\ cur.i <= Len(inputs) /\ cur' = [cur EXCEPT !.i = @ + 1]
  BY DEF LabelsDeclared
<1>1. Entries' = Entries /\ IsCommandLine(inputs)' = IsCommandLine(inputs)
  BY <1>0, InputsFixed
<1>2. /\ cur \in [s : 1..(Len(sectionOrder) + 1), i : 1..(Len(inputs) + 1), l : Nat]
      /\ Len(inputs) \in Nat
  BY DEF IInv, TypeOK, IsCommandLine
<1>3. cur' = [s |-> cur.s, i |-> cur.i + 1, l |-> cur.l]
  BY <1>0, <1>2
<1>4. cur' \in [s : 1..(Len(sectionOrder) + 1), i : 1..(Len(inputs) + 1), l : Nat]
  BY <1>0, <1>2, <1>3
<1>5. TypeOK'
  BY <1>0, <1>1, <1>4 DEF IInv, TypeOK, LabelsDeclared
<1> QED BY <1>0, <1>5, PlacementKept

LEMMA SymbolsKnownStep == IInv /\ SymbolsKnown => IInv'
<1> SUFFICES ASSUME IInv, SymbolsKnown PROVE IInv'
  OBVIOUS
<1>0. /\ inputs' = inputs /\ sectionOrder' = sectionOrder /\ merged' = merged
      /\ globalIndex' = globalIndex /\ phase = "symbols" /\ phase' = "values"
  BY DEF SymbolsKnown
<1>1. Entries' = Entries /\ IsCommandLine(inputs)' = IsCommandLine(inputs)
  BY <1>0, InputsFixed
<1>2. TypeOK'
  BY <1>0, <1>1 DEF IInv, TypeOK, SymbolsKnown, Phases
<1> QED BY <1>0, <1>2, PlacementKept

LEMMA RewriteValueStep == IInv /\ RewriteValue => IInv'
<1> SUFFICES ASSUME IInv, RewriteValue PROVE IInv'
  OBVIOUS
<1> DEFINE i     == NextEntry[1]
           value == ValueAt(NextEntry)
           new   == [j \in 1..Len(value) |-> RewriteLeaf(i, value[j])]
<1>0. /\ inputs' = inputs /\ sectionOrder' = sectionOrder /\ merged' = merged
      /\ globalIndex' = globalIndex /\ phase = "values" /\ phase' = phase
      /\ Len(values) < Len(merged) /\ values' = Append(values, new)
      /\ \A j \in DOMAIN ErrorsOf(i, value) : ErrorsOf(i, value)[j] = "none"
  BY DEF RewriteValue
<1>1. Entries' = Entries /\ IsCommandLine(inputs)' = IsCommandLine(inputs)
  BY <1>0, InputsFixed
<1>2. /\ merged \in Seq(Entries) /\ values \in Seq(Value)
      /\ Len(values) \in Nat /\ Len(merged) \in Nat
  BY DEF IInv, TypeOK
<1>3. NextEntry \in Entries
  BY <1>0, <1>2 DEF NextEntry
<1>4. i \in 1..Len(inputs) /\ value \in Value
  BY <1>3, EntryShape DEF IInv, TypeOK
<1> HIDE DEF i, value
<1>5. value \in Seq(Leaf) /\ Len(value) \in Nat
  BY <1>4 DEF Value
<1>6. ASSUME NEW j \in 1..Len(value)
      PROVE  RewriteLeaf(i, value[j]) \in Leaf
  <2>1. /\ j \in 1..(2 * Len(value)) /\ j <= Len(value)
        /\ j + Len(value) \in 1..(2 * Len(value)) /\ ~(j + Len(value) <= Len(value))
        /\ j + Len(value) - Len(value) = j
    BY <1>5
  <2>2. TranslationError(i, value[j]) = "none"
    BY <1>0, <2>1 DEF ErrorsOf
  <2>3. ErrorsOf(i, value)[j + Len(value)] = ResolutionError(value[j + Len(value) - Len(value)])
    BY <2>1 DEF ErrorsOf
  <2>4. ErrorsOf(i, value)[j + Len(value)] = "none"
    BY <1>0, <2>1 DEF ErrorsOf
  <2>5. ResolutionError(value[j]) = "none"
    BY <2>1, <2>3, <2>4
  <2> QED BY <1>0, <1>4, <1>5, <2>2, <2>5, RewriteLeafType DEF IInv, Progress
<1>7. new \in Value
  BY <1>5, <1>6 DEF Value
<1> HIDE DEF new
<1>8. values' \in Seq(Value) /\ Len(values') = Len(values) + 1
  BY <1>0, <1>2, <1>7
<1>9. Len(values') <= Len(merged)
  BY <1>0, <1>2, <1>8
<1>10. TypeOK'
  BY <1>0, <1>1, <1>8, <1>9 DEF IInv, TypeOK, RewriteValue
<1> QED BY <1>0, <1>10, PlacementKept

LEMMA RejectValueStep == IInv /\ RejectValue => IInv'
<1> SUFFICES ASSUME IInv, RejectValue PROVE IInv'
  OBVIOUS
<1>0. /\ inputs' = inputs /\ sectionOrder' = sectionOrder /\ merged' = merged
      /\ globalIndex' = globalIndex /\ phase = "values" /\ phase' = "failed"
  BY DEF RejectValue, Fail
<1>1. Entries' = Entries /\ IsCommandLine(inputs)' = IsCommandLine(inputs)
  BY <1>0, InputsFixed
<1>2. error' \in Errors /\ error' # "none"
  <2>1. PICK j \in DOMAIN ErrorsOf(NextEntry[1], ValueAt(NextEntry)) :
            /\ ErrorsOf(NextEntry[1], ValueAt(NextEntry))[j] # "none"
            /\ error' = ErrorsOf(NextEntry[1], ValueAt(NextEntry))[j]
    BY DEF RejectValue, Fail
  <2>2. ErrorsOf(NextEntry[1], ValueAt(NextEntry))[j] \in Errors
    BY <2>1 DEF ErrorsOf, TranslationError, ResolutionError, Errors
  <2> QED BY <2>1, <2>2
<1>3. TypeOK'
  BY <1>0, <1>1, <1>2 DEF IInv, TypeOK, RejectValue, Phases
<1> QED BY <1>0, <1>3, PlacementKept

LEMMA LinkedStep == IInv /\ Linked => IInv'
<1> SUFFICES ASSUME IInv, Linked PROVE IInv'
  OBVIOUS
<1>0. /\ inputs' = inputs /\ sectionOrder' = sectionOrder /\ merged' = merged
      /\ globalIndex' = globalIndex /\ phase = "values" /\ phase' = "done"
  BY DEF Linked
<1>1. Entries' = Entries /\ IsCommandLine(inputs)' = IsCommandLine(inputs)
  BY <1>0, InputsFixed
<1>2. TypeOK'
  BY <1>0, <1>1 DEF IInv, TypeOK, Linked, Phases
<1> QED BY <1>0, <1>2, PlacementKept

LEMMA StutterStep == IInv /\ UNCHANGED vars => IInv'
<1> SUFFICES ASSUME IInv, UNCHANGED vars PROVE IInv'
  OBVIOUS
<1>1. /\ Entries' = Entries /\ IsCommandLine(inputs)' = IsCommandLine(inputs)
      /\ \A f : SectionAt(f)' = SectionAt(f)
  BY InputsFixed DEF vars
<1>2. TypeOK'
  BY <1>1 DEF IInv, TypeOK, vars
<1>3. IndexMatchesStream' /\ SectionsDistinct'
  BY DEF IInv, IndexMatchesStream, SectionsDistinct, vars
<1>4. \A f \in Entries : Known(f)' = Known(f) /\ Passed(f)' = Passed(f)
  BY <1>1 DEF Known, Passed, vars
<1>5. Progress'
  BY <1>1, <1>4 DEF IInv, Progress, vars
<1> QED BY <1>2, <1>3, <1>5 DEF IInv

---------------------------------------------------------------------------
(* The theorems.                                                           *)

\* Every step of `link` keeps the inductive invariant.
LEMMA StepIInv == IInv /\ [Next]_vars => IInv'
<1> SUFFICES ASSUME IInv, [Next]_vars PROVE IInv'
  OBVIOUS
<1>1. CASE SeeEntry         BY <1>1, SeeEntryStep
<1>2. CASE SeeNextInput     BY <1>2, SeeNextInputStep
<1>3. CASE SectionsKnown    BY <1>3, SectionsKnownStep
<1>4. CASE PlaceEntry       BY <1>4, PlaceEntryStep
<1>5. CASE PlaceNextInput   BY <1>5, PlaceNextInputStep
<1>6. CASE PlaceNextSection BY <1>6, PlaceNextSectionStep
<1>7. CASE EntriesPlaced    BY <1>7, EntriesPlacedStep
<1>8. CASE \E name \in Symbols : DeclareLabel(name)
  BY <1>8, DeclareLabelStep
<1>9. CASE LabelsDeclared   BY <1>9, LabelsDeclaredStep
<1>10. CASE SymbolsKnown    BY <1>10, SymbolsKnownStep
<1>11. CASE RewriteValue    BY <1>11, RewriteValueStep
<1>12. CASE RejectValue     BY <1>12, RejectValueStep
<1>13. CASE Linked          BY <1>13, LinkedStep
<1>14. CASE UNCHANGED vars  BY <1>14, StutterStep
<1> QED BY <1>1, <1>2, <1>3, <1>4, <1>5, <1>6, <1>7, <1>8, <1>9, <1>10,
           <1>11, <1>12, <1>13, <1>14 DEF Next, Stopped

\* For every command line, the tables of `link` keep their shapes and every
\* position it records is a position of the image.
THEOREM LinkTypeCorrect == Spec => []TypeOK
<1>1. IInv => TypeOK
  BY DEF IInv
<1> QED BY <1>1, InitIInv, StepIInv, PTL DEF Spec

\* For every command line, regrouping by section places each entry exactly
\* once: `merged` and `global_index` are inverse to each other, and together
\* they hold every entry when labels begin to be looked up.
THEOREM LinkPlacementCorrect == Spec => []Placement
<1>1. IInv => Placement
  BY DEF IInv, Placement, EverythingPlaced, Progress
<1> QED BY <1>1, InitIInv, StepIInv, PTL DEF Spec

---------------------------------------------------------------------------
(* The refinement: each reference leads where it led before, and the image *)
(* is the one LinkSpec denotes.  To the invariant are added the order of   *)
(* the merged stream, what the label table holds and where each rewritten  *)
(* value leads; that the loops compute LinkSpec's layout then follows from *)
(* there being one stream only in that order.                              *)


Earlier(e, f) == e[1] < f[1] \/ (e[1] = f[1] /\ e[2] < f[2])

\* Each section has an entry before which only earlier sections were seen.
FirstSeen ==
    \A q \in 1..Len(sectionOrder) : \E e \in Entries :
        /\ SectionAt(e) = sectionOrder[q]
        /\ \A f \in Entries : Earlier(f, e) => \E r \in 1..(q - 1) : sectionOrder[r] = SectionAt(f)

LaidOut(e, f) ==
    \E r, q \in 1..Len(sectionOrder) :
        /\ sectionOrder[r] = SectionAt(e) /\ sectionOrder[q] = SectionAt(f)
        /\ r < q \/ (r = q /\ Earlier(e, f))

StreamSorted == \A k, m \in 1..Len(merged) : k < m => LaidOut(merged[k], merged[m])

Order == FirstSeen /\ StreamSorted

\* The label table: every label read is in it, under the last to declare it.
Label(i, s) == inputs[i].labels[s]

Read(i, s) == s \in DOMAIN inputs[i].labels /\ (i < cur.i \/ (i = cur.i /\ s \in declared))

LabelsFiled ==
    \A i \in 1..Len(inputs) : \A s \in DOMAIN inputs[i].labels : Read(i, s) =>
        /\ ValidPosition(i, Label(i, s))
        /\ s \in DOMAIN symbols
        /\ symbols[s].module = inputs[i].module

LabelsLast ==
    \A s \in DOMAIN symbols : \E i \in 1..Len(inputs) :
        /\ Read(i, s)
        /\ symbols[s].position = GlobalPosition(i, Label(i, s))
        /\ \A o \in 1..Len(inputs) : Read(o, s) => o <= i

Tables ==
    /\ phase \in {"sections", "place"} => DOMAIN symbols = {} /\ declared = {}
    /\ phase \in {"symbols", "values", "done"} => LabelsFiled /\ LabelsLast
    /\ phase \in {"values", "done"} => cur.i = Len(inputs) + 1

\* A position that means what input i's local one meant.
Leads(i, local, p) == ValidPosition(i, local) /\ p \in 0..Len(merged) /\ LeadsTo(i, local, p)

LastToDeclare(d, ref) ==
    /\ inputs[d].module = ref.module
    /\ ref.symbol \in DOMAIN inputs[d].labels
    /\ \A o \in 1..Len(inputs) : ref.symbol \in DOMAIN inputs[o].labels => o <= d

\* Input i's leaf `before` is rightly rewritten to `after`.
Lands(i, before, after) ==
    /\ after.ref.kind = "int" /\ after.pos = before.pos
    /\ \/ before.ref.kind = "int" /\ before.pos /\ Leads(i, before.ref.at, after.ref.at)
       \/ before.ref.kind = "int" /\ ~before.pos /\ after.ref = before.ref
       \/ /\ before.ref.kind # "int" /\ before.ref.module = LinkModule
          /\ before.ref.symbol \in LinkSymbols
          /\ after.ref.at = LinkSymbol(before.ref.symbol)
       \/ /\ before.ref.kind # "int" /\ before.ref.module # LinkModule
          /\ \E d \in 1..Len(inputs) :
                 /\ LastToDeclare(d, before.ref)
                 /\ Leads(d, Label(d, before.ref.symbol), after.ref.at)

ValueLands(e, new) ==
    /\ Len(new) = Len(ValueAt(e))
    /\ \A j \in 1..Len(new) : Lands(e[1], ValueAt(e)[j], new[j])

Meant ==
    /\ phase \in {"sections", "place", "symbols"} => values = <<>>
    /\ \A k \in 1..Len(values) : ValueLands(merged[k], values[k])

Full == IInv /\ Order /\ Tables /\ Meant

---------------------------------------------------------------------------
(* What the invariant says of a state.                                     *)

\* The specification's entries are the model's.
LEMMA SameEntries ==
    ASSUME IsCommandLine(inputs)
    PROVE  /\ Promise!AllEntries = Entries
           /\ \A i \in 1..Len(inputs) : Promise!Size(i) = NumEntries(i)
           /\ \A e : Promise!EntryOf(e).section = SectionAt(e)
           /\ \A e : Promise!EntryOf(e).value = ValueAt(e)
           /\ DOMAIN inputs = 1..Len(inputs)
<1>1. DOMAIN inputs = 1..Len(inputs) /\ Len(inputs) \in Nat
  BY DEF IsCommandLine
<1>2. \A i : Promise!Size(i) = NumEntries(i)
  BY DEF Promise!Size, NumEntries
<1>3. /\ \A e : Promise!EntryOf(e).section = SectionAt(e)
      /\ \A e : Promise!EntryOf(e).value = ValueAt(e)
  BY DEF Promise!EntryOf, SectionAt, ValueAt
<1>4. \A i \in 1..Len(inputs) : NumEntries(i) \in Nat
  BY DEF IsCommandLine, IsLinkInput, NumEntries
<1>5. ASSUME NEW e \in Entries PROVE e \in Promise!AllEntries
  <2>1. e = <<e[1], e[2]>> /\ e[1] \in 1..Len(inputs) /\ e[2] \in Nat /\ e[2] < NumEntries(e[1])
    BY EntryShape, EntryIff
  <2>2. e \in {e[1]} \X (0..(NumEntries(e[1]) - 1))
    BY <1>4, <2>1
  <2> QED BY <1>1, <1>2, <2>1, <2>2 DEF Promise!AllEntries
<1>6. ASSUME NEW e \in Promise!AllEntries PROVE e \in Entries
  <2>1. PICK i \in 1..Len(inputs) : e \in {i} \X (0..(NumEntries(i) - 1))
    BY <1>1, <1>2 DEF Promise!AllEntries
  <2>2. PICK l \in 0..(NumEntries(i) - 1) : e = <<i, l>>
    BY <2>1
  <2> QED BY <1>4, <2>2, EntryIff
<1> QED BY <1>1, <1>2, <1>3, <1>5, <1>6

\* Entries are read in one order, whatever the command line.
LEMMA EarlierIsTotal ==
    ASSUME IsCommandLine(inputs), NEW e \in Entries, NEW f \in Entries
    PROVE  /\ e # f => Earlier(e, f) \/ Earlier(f, e)
           /\ ~(Earlier(e, f) /\ Earlier(f, e))
           /\ ~Earlier(e, e)
<1>1. /\ e = <<e[1], e[2]>> /\ e[1] \in 1..Len(inputs) /\ e[2] \in Nat
      /\ f = <<f[1], f[2]>> /\ f[1] \in 1..Len(inputs) /\ f[2] \in Nat
      /\ Len(inputs) \in Nat
  BY EntryShape DEF IsCommandLine
<1> QED BY <1>1 DEF Earlier

\* The section order is that of the sections' first entries.
LEMMA FirstOfSections ==
    ASSUME IInv, FirstSeen, NEW r \in 1..Len(sectionOrder), NEW q \in 1..Len(sectionOrder)
    PROVE  /\ Promise!Sooner(Promise!FirstOf(sectionOrder[r]), Promise!FirstOf(sectionOrder[q])) <=> r < q
<1> DEFINE IsFirst(e, q0) == /\ e \in Entries /\ SectionAt(e) = sectionOrder[q0]
                             /\ \A f \in Entries : Earlier(f, e) =>
                                    \E r0 \in 1..(q0 - 1) : sectionOrder[r0] = SectionAt(f)
<1>0. IsCommandLine(inputs) /\ Len(sectionOrder) \in Nat
  BY DEF IInv, TypeOK
<1>1. ASSUME NEW q0 \in 1..Len(sectionOrder), NEW e, IsFirst(e, q0)
      PROVE  Promise!FirstOf(sectionOrder[q0]) = e
  <2> DEFINE S == Promise!InSection(sectionOrder[q0])
  <2>1. \A f : f \in S <=> f \in Entries /\ SectionAt(f) = sectionOrder[q0]
    BY <1>0, SameEntries DEF Promise!InSection
  <2>2. \A f, g : Promise!Sooner(f, g) <=> Earlier(f, g)
    BY DEF Promise!Sooner, Earlier
  <2>3. \A f \in S \ {e} : Earlier(e, f)
    <3> SUFFICES ASSUME NEW f \in S \ {e}, Earlier(f, e) PROVE FALSE
      BY <1>0, <1>1, <2>1, EarlierIsTotal
    <3>1. PICK r0 \in 1..(q0 - 1) : sectionOrder[r0] = SectionAt(f)
      BY <1>1, <2>1
    <3>2. r0 \in 1..Len(sectionOrder) /\ r0 # q0
      BY <1>0
    <3> QED BY <2>1, <3>1, <3>2 DEF IInv, SectionsDistinct
  <2>4. ASSUME NEW g \in S, \A f \in S \ {g} : Earlier(g, f)
        PROVE  g = e
    <3>1. e \in S
      BY <1>1, <2>1
    <3> SUFFICES ASSUME g # e PROVE FALSE
      OBVIOUS
    <3>2. Earlier(g, e) /\ Earlier(e, g)
      BY <2>3, <2>4, <3>1
    <3> QED BY <1>0, <2>1, <3>1, <3>2, EarlierIsTotal
  <2>5. e \in S
    BY <1>1, <2>1
  <2> HIDE DEF S
  <2>6. Promise!FirstOf(sectionOrder[q0]) = CHOOSE g \in S : \A f \in S \ {g} : Promise!Sooner(g, f)
    BY DEF Promise!FirstOf, S
  <2> QED BY <2>2, <2>3, <2>4, <2>5, <2>6
<1>2. PICK e : IsFirst(e, r)
  BY DEF FirstSeen
<1>3. PICK f : IsFirst(f, q)
  BY DEF FirstSeen
<1>4. Promise!FirstOf(sectionOrder[r]) = e /\ Promise!FirstOf(sectionOrder[q]) = f
  BY <1>1, <1>2, <1>3
<1>5. ASSUME NEW g, NEW h, NEW a \in 1..Len(sectionOrder), NEW b \in 1..Len(sectionOrder),
             IsFirst(g, a), IsFirst(h, b), a < b
      PROVE  Earlier(g, h)
  <2>1. g # h
    BY <1>5 DEF IInv, SectionsDistinct
  <2> SUFFICES ASSUME Earlier(h, g) PROVE FALSE
    BY <1>0, <1>5, <2>1, EarlierIsTotal
  <2>2. PICK c \in 1..(a - 1) : sectionOrder[c] = sectionOrder[b]
    BY <1>5
  <2>3. c \in 1..Len(sectionOrder) /\ c # b
    BY <1>0, <1>5
  <2> QED BY <2>2, <2>3 DEF IInv, SectionsDistinct
<1>6. CASE r < q
  BY <1>2, <1>3, <1>4, <1>5, <1>6 DEF Promise!Sooner, Earlier
<1>7. CASE r = q
  <2>1. e = f
    BY <1>1, <1>2, <1>3, <1>7
  <2> QED BY <1>0, <1>2, <1>4, <1>7, <2>1, EarlierIsTotal DEF Promise!Sooner, Earlier
<1>8. CASE q < r
  <2>1. Earlier(f, e)
    BY <1>2, <1>3, <1>5, <1>8
  <2>2. ~Earlier(e, f)
    BY <1>0, <1>2, <1>3, <2>1, EarlierIsTotal
  <2> QED BY <1>0, <1>4, <1>8, <2>2 DEF Promise!Sooner, Earlier
<1> QED BY <1>0, <1>6, <1>7, <1>8

\* The stream is in the order the specification lays entries out in.
LEMMA StreamIsLaidOut ==
    ASSUME IInv, Order, DOMAIN globalIndex = Entries, \A e \in Entries : Known(e),
           NEW k \in 1..Len(merged), NEW m \in 1..Len(merged)
    PROVE  Promise!LaidBefore(merged[k], merged[m]) <=> k < m
<1>0. /\ IsCommandLine(inputs) /\ Len(sectionOrder) \in Nat
      /\ Len(merged) \in Nat /\ merged \in Seq(Entries)
  BY DEF IInv, TypeOK
<1>1. ASSUME NEW e \in Entries, NEW f \in Entries, LaidOut(e, f)
      PROVE  Promise!LaidBefore(e, f) /\ ~Promise!LaidBefore(f, e)
  <2>1. PICK r, q \in 1..Len(sectionOrder) :
            /\ sectionOrder[r] = SectionAt(e) /\ sectionOrder[q] = SectionAt(f)
            /\ r < q \/ (r = q /\ Earlier(e, f))
    BY <1>1 DEF LaidOut
  <2>2. Promise!EntryOf(e).section = sectionOrder[r] /\ Promise!EntryOf(f).section = sectionOrder[q]
    BY <1>0, <2>1, SameEntries
  <2>3. CASE r < q
    <3>1. sectionOrder[r] # sectionOrder[q]
      BY <2>3 DEF IInv, SectionsDistinct
    <3>2. /\ Promise!Sooner(Promise!FirstOf(sectionOrder[r]), Promise!FirstOf(sectionOrder[q]))
          /\ ~Promise!Sooner(Promise!FirstOf(sectionOrder[q]), Promise!FirstOf(sectionOrder[r]))
      BY <1>0, <2>3, FirstOfSections DEF Order
    <3> QED BY <2>2, <3>1, <3>2 DEF Promise!LaidBefore
  <2>4. CASE r = q /\ Earlier(e, f)
    <3>1. ~Earlier(f, e)
      BY <1>0, <2>4, EarlierIsTotal
    <3> QED BY <2>2, <2>4, <3>1 DEF Promise!LaidBefore, Promise!Sooner, Earlier
  <2> QED BY <2>1, <2>3, <2>4
<1>2. merged[k] \in Entries /\ merged[m] \in Entries
  BY <1>0
<1>3. CASE k < m
  BY <1>1, <1>2, <1>3 DEF Order, StreamSorted
<1>4. CASE m < k
  BY <1>0, <1>1, <1>2, <1>4 DEF Order, StreamSorted
<1>5. CASE k = m
  <2>1. ~Earlier(merged[k], merged[k])
    BY <1>0, <1>2, EarlierIsTotal
  <2> QED BY <1>5, <2>1 DEF Promise!LaidBefore, Promise!Sooner, Earlier
<1> QED BY <1>0, <1>3, <1>4, <1>5

\* The specification counts as its module FiniteSets does.
LEMMA SameCardinality == ASSUME NEW S PROVE Promise!Cardinality(S) = Cardinality(S)
BY DEF Promise!Cardinality, Cardinality

\* An entry's rank is its place in the stream: those before it are counted.
LEMMA RankIsPlace ==
    ASSUME IInv, Order, DOMAIN globalIndex = Entries, \A e \in Entries : Known(e),
           NEW k \in 1..Len(merged)
    PROVE  Promise!Rank(merged[k]) = k - 1
<1> DEFINE Before == {d \in Promise!AllEntries : Promise!LaidBefore(d, merged[k])}
           stand  == [m \in 1..(k - 1) |-> merged[m]]
<1>0. /\ IsCommandLine(inputs) /\ Promise!AllEntries = Entries
      /\ Len(merged) \in Nat /\ merged \in Seq(Entries) /\ k - 1 \in Nat
  BY SameEntries DEF IInv, TypeOK
<1>1. \A m \in 1..(k - 1) : m \in 1..Len(merged) /\ merged[m] \in Before
  BY <1>0, StreamIsLaidOut
<1>2. ASSUME NEW d \in Before PROVE \E m \in 1..(k - 1) : merged[m] = d
  <2>1. PICK m \in 1..Len(merged) : merged[m] = d
    <3>1. d \in Entries /\ globalIndex[d] \in 0..(Len(merged) - 1) /\ merged[globalIndex[d] + 1] = d
      BY <1>0 DEF IInv, TypeOK, IndexMatchesStream
    <3> QED BY <1>0, <3>1
  <2>2. m < k
    BY <2>1, StreamIsLaidOut
  <2> QED BY <1>0, <2>1, <2>2
<1>3. \A m, n \in 1..(k - 1) : merged[m] = merged[n] => m = n
  <2> SUFFICES ASSUME NEW m \in 1..(k - 1), NEW n \in 1..(k - 1), merged[m] = merged[n] PROVE m = n
    OBVIOUS
  <2>1. globalIndex[merged[m]] = m - 1 /\ globalIndex[merged[n]] = n - 1
    BY <1>1 DEF IInv, IndexMatchesStream
  <2> QED BY <2>1
<1> HIDE DEF Before
<1>4. stand \in Bijection(1..(k - 1), Before)
  BY <1>1, <1>2, <1>3 DEF Bijection, Injection, Surjection, IsInjective
<1>5. Cardinality(Before) = k - 1
  BY <1>0, <1>4, FS_CountingElements DEF ExistsBijection
<1> QED BY <1>5, SameCardinality DEF Promise!Rank, Before

\* With everything placed, the stream is the specification's layout.
LEMMA StreamIsLayout ==
    ASSUME IInv, Order, DOMAIN globalIndex = Entries, \A e \in Entries : Known(e)
    PROVE  Promise!Layout = merged
<1>0. /\ Promise!AllEntries = Entries /\ Len(merged) \in Nat /\ merged \in Seq(Entries)
  BY SameEntries DEF IInv, TypeOK
<1>1. \A e \in Entries : \E m \in 1..Len(merged) : merged[m] = e
  <2> SUFFICES ASSUME NEW e \in Entries PROVE \E m \in 1..Len(merged) : merged[m] = e
    OBVIOUS
  <2>1. globalIndex[e] \in 0..(Len(merged) - 1) /\ merged[globalIndex[e] + 1] = e
    BY DEF IInv, TypeOK, IndexMatchesStream
  <2> QED BY <1>0, <2>1
<1>2. \A m, n \in 1..Len(merged) : merged[m] = merged[n] => m = n
  <2> SUFFICES ASSUME NEW m \in 1..Len(merged), NEW n \in 1..Len(merged), merged[m] = merged[n]
               PROVE  m = n
    OBVIOUS
  <2>1. globalIndex[merged[m]] = m - 1 /\ globalIndex[merged[n]] = n - 1
    BY DEF IInv, IndexMatchesStream
  <2> QED BY <1>0, <2>1
<1>3. merged \in Bijection(1..Len(merged), Entries)
  BY <1>0, <1>1, <1>2 DEF Bijection, Injection, Surjection, IsInjective
<1>4. Promise!Cardinality(Promise!AllEntries) = Len(merged)
  BY <1>0, <1>3, FS_CountingElements, SameCardinality DEF ExistsBijection
<1>5. ASSUME NEW k \in 1..Len(merged)
      PROVE  (CHOOSE e \in Promise!AllEntries : Promise!Rank(e) = k - 1) = merged[k]
  <2>1. merged[k] \in Promise!AllEntries /\ Promise!Rank(merged[k]) = k - 1
    BY <1>0, RankIsPlace
  <2>2. ASSUME NEW e \in Promise!AllEntries, Promise!Rank(e) = k - 1 PROVE e = merged[k]
    <3>1. PICK m \in 1..Len(merged) : merged[m] = e
      BY <1>0, <1>1
    <3>2. m - 1 = k - 1
      BY <2>2, <3>1, RankIsPlace
    <3> QED BY <1>0, <3>1, <3>2
  <2> QED BY <2>1, <2>2
<1>6. Promise!Layout = [k \in 1..Len(merged) |-> merged[k]]
  BY <1>4, <1>5 DEF Promise!Layout
<1> QED BY <1>0, <1>6

---------------------------------------------------------------------------
(* Positions and leaves.                                                   *)

\* `global_position` leads where the local position did.
LEMMA GlobalPositionLeads ==
    ASSUME IInv, DOMAIN globalIndex = Entries,
           NEW i \in 1..Len(inputs), NEW local, ValidPosition(i, local)
    PROVE  Leads(i, local, GlobalPosition(i, local))
<1>1. /\ NumEntries(i) \in Nat /\ local \in Nat /\ local <= NumEntries(i) /\ Len(merged) \in Nat
      /\ TypeOK /\ IsCommandLine(inputs)
  <2>1. TypeOK /\ IsCommandLine(inputs)
    BY DEF IInv, TypeOK
  <2>2. Len(merged) \in Nat
    BY <2>1 DEF TypeOK
  <2>3. NumEntries(i) \in Nat
    BY <2>1 DEF IsCommandLine, IsLinkInput, NumEntries
  <2> QED BY <2>1, <2>2, <2>3 DEF ValidPosition
<1>2. GlobalPosition(i, local) \in 0..Len(merged)
  BY <1>1, GlobalPositionType
<1>3. ASSUME NEW l \in Nat, l < NumEntries(i)
      PROVE  /\ globalIndex[<<i, l>>] \in 0..(Len(merged) - 1)
             /\ merged[globalIndex[<<i, l>>] + 1] = <<i, l>>
  <2>1. <<i, l>> \in Entries
    BY <1>1, <1>3, EntryIff
  <2> QED BY <2>1 DEF IInv, TypeOK, IndexMatchesStream
<1>4. LeadsTo(i, local, GlobalPosition(i, local))
  <2>1. CASE local < NumEntries(i)
    BY <1>1, <1>3, <2>1 DEF LeadsTo, GlobalPosition
  <2>2. CASE ~(local < NumEntries(i)) /\ NumEntries(i) = 0
    BY <2>2 DEF LeadsTo, GlobalPosition
  <2>3. CASE ~(local < NumEntries(i)) /\ NumEntries(i) # 0
    <3> DEFINE last == NumEntries(i) - 1
    <3>1. last \in Nat /\ last < NumEntries(i)
      BY <1>1, <2>3
    <3>2. GlobalPosition(i, local) = globalIndex[<<i, last>>] + 1
      BY <2>3 DEF GlobalPosition
    <3> HIDE DEF last
    <3>3. globalIndex[<<i, last>>] \in 0..(Len(merged) - 1) /\ merged[globalIndex[<<i, last>>] + 1] = <<i, last>>
      BY <1>3, <3>1
    <3> QED BY <1>1, <2>3, <3>2, <3>3 DEF LeadsTo, last
  <2> QED BY <2>1, <2>2, <2>3
<1> QED BY <1>2, <1>4 DEF Leads

\* It is the only position that does, and the specification's own.
LEMMA PlaceIsLed ==
    ASSUME IInv, NEW i \in 1..Len(inputs), NEW local, NEW p, Leads(i, local, p)
    PROVE  Promise!Place(merged, i, local) = p
<1>1. /\ NumEntries(i) \in Nat /\ local \in Nat /\ local <= NumEntries(i) /\ Len(merged) \in Nat
      /\ p \in 0..Len(merged) /\ Promise!Size(i) = NumEntries(i)
      /\ DOMAIN merged = 1..Len(merged)
  BY SameEntries
  DEF Leads, IInv, TypeOK, IsCommandLine, IsLinkInput, NumEntries, ValidPosition
<1>2. ASSUME NEW k \in 1..Len(merged), NEW e, merged[k] = e
      PROVE  (CHOOSE m \in DOMAIN merged : merged[m] = e) = k
  <2>1. \A m \in DOMAIN merged : merged[m] = e => m = k
    <3> SUFFICES ASSUME NEW m \in 1..Len(merged), merged[m] = e PROVE m = k
      BY <1>1
    <3>1. globalIndex[e] = m - 1 /\ globalIndex[e] = k - 1
      BY <1>2 DEF IInv, IndexMatchesStream
    <3> QED BY <1>1, <3>1
  <2> QED BY <1>1, <1>2, <2>1
<1>3. CASE local < NumEntries(i)
  <2> DEFINE k == CHOOSE m \in DOMAIN merged : merged[m] = <<i, local>>
  <2>1. p + 1 \in 1..Len(merged) /\ merged[p + 1] = <<i, local>>
    BY <1>1, <1>3 DEF Leads, LeadsTo
  <2>2. k = p + 1
    BY <1>2, <2>1
  <2>3. Promise!Place(merged, i, local) = k - 1
    BY <1>1, <1>3 DEF Promise!Place
  <2> HIDE DEF k
  <2> QED BY <1>1, <2>2, <2>3
<1>4. CASE ~(local < NumEntries(i)) /\ NumEntries(i) = 0
  BY <1>1, <1>4 DEF Promise!Place, Leads, LeadsTo
<1>5. CASE ~(local < NumEntries(i)) /\ NumEntries(i) # 0
  <2>1. p \in 1..Len(merged) /\ merged[p] = <<i, NumEntries(i) - 1>>
    BY <1>1, <1>5 DEF Leads, LeadsTo
  <2>2. (CHOOSE m \in DOMAIN merged : merged[m] = <<i, NumEntries(i) - 1>>) = p
    BY <1>2, <2>1
  <2> QED BY <1>1, <1>5, <2>2 DEF Promise!Place
<1> QED BY <1>3, <1>4, <1>5

\* Of the inputs a reference may mean, the last to declare it is meant.
LEMMA LastIsTarget ==
    ASSUME IsCommandLine(inputs), NEW ref, NEW d \in 1..Len(inputs), LastToDeclare(d, ref)
    PROVE  /\ d \in Promise!Targets(ref)
           /\ (CHOOSE c \in Promise!Targets(ref) : \A o \in Promise!Targets(ref) : o <= c) = d
<1>1. DOMAIN inputs = 1..Len(inputs) /\ Len(inputs) \in Nat
  BY DEF IsCommandLine
<1>2. d \in Promise!Targets(ref)
  BY <1>1 DEF LastToDeclare, Promise!Targets, Promise!DeclaredBy
<1>3. \A o \in Promise!Targets(ref) : o \in 1..Len(inputs) /\ o <= d
  BY <1>1 DEF LastToDeclare, Promise!Targets, Promise!DeclaredBy
<1> HIDE DEF Promise!Targets
<1>4. \A c \in Promise!Targets(ref) : (\A o \in Promise!Targets(ref) : o <= c) => c = d
  BY <1>1, <1>2, <1>3
<1> QED BY <1>2, <1>3, <1>4

\* A leaf that lands is meaningful, and is what the specification makes of it.
LEMMA LandsIsMeant ==
    ASSUME IInv, NEW i \in 1..Len(inputs), NEW leaf \in Leaf, NEW new \in Leaf, Lands(i, leaf, new)
    PROVE  /\ Promise!Meaningful(i, leaf)
           /\ new = [pos |-> leaf.pos,
                     ref |-> [kind |-> "int", at |-> Promise!Meaning(merged, i, leaf)]]
<1>0. IsCommandLine(inputs) /\ Promise!Size(i) = NumEntries(i)
  BY SameEntries DEF IInv, TypeOK
<1>1. new = [pos |-> leaf.pos, ref |-> [kind |-> "int", at |-> new.ref.at]]
  BY DEF Lands, Leaf, IntRef, DeferredRef
<1>2. leaf.pos \in BOOLEAN
  BY DEF Leaf
<1>3. Promise!Meaningful(i, leaf) /\ new.ref.at = Promise!Meaning(merged, i, leaf)
  <2>1. CASE leaf.ref.kind = "int" /\ leaf.pos /\ Leads(i, leaf.ref.at, new.ref.at)
    <3>1. Promise!Place(merged, i, leaf.ref.at) = new.ref.at
      BY <2>1, PlaceIsLed
    <3>2. leaf.ref.at \in 0..Promise!Size(i)
      BY <1>0, <2>1 DEF Leads, ValidPosition
    <3>3. Promise!Meaningful(i, leaf)
      BY <2>1, <3>2 DEF Promise!Meaningful
    <3>4. Promise!Meaning(merged, i, leaf) = Promise!Place(merged, i, leaf.ref.at)
      BY <2>1 DEF Promise!Meaning
    <3> QED BY <3>1, <3>3, <3>4
  <2>2. CASE leaf.ref.kind = "int" /\ ~leaf.pos /\ new.ref = leaf.ref
    <3>1. Promise!Meaningful(i, leaf)
      BY <2>2 DEF Promise!Meaningful
    <3>2. Promise!Meaning(merged, i, leaf) = leaf.ref.at
      BY <2>2 DEF Promise!Meaning
    <3> QED BY <2>2, <3>1, <3>2
  <2>3. CASE /\ leaf.ref.kind # "int" /\ leaf.ref.module = LinkModule
             /\ leaf.ref.symbol \in LinkSymbols
             /\ new.ref.at = LinkSymbol(leaf.ref.symbol)
    BY <2>3 DEF Promise!Meaningful, Promise!Meaning, LinkSymbols, LinkSymbol
  <2>4. CASE /\ leaf.ref.kind # "int" /\ leaf.ref.module # LinkModule
             /\ \E d \in 1..Len(inputs) : /\ LastToDeclare(d, leaf.ref)
                                          /\ Leads(d, Label(d, leaf.ref.symbol), new.ref.at)
    <3>1. PICK d \in 1..Len(inputs) : /\ LastToDeclare(d, leaf.ref)
                                      /\ Leads(d, Label(d, leaf.ref.symbol), new.ref.at)
      BY <2>4
    <3>2. /\ d \in Promise!Targets(leaf.ref)
          /\ (CHOOSE c \in Promise!Targets(leaf.ref) : \A o \in Promise!Targets(leaf.ref) : o <= c) = d
      BY <1>0, <3>1, LastIsTarget
    <3>3. Promise!Place(merged, d, Label(d, leaf.ref.symbol)) = new.ref.at
      BY <3>1, PlaceIsLed
    <3>4. Promise!Meaningful(i, leaf)
      BY <2>4, <3>2 DEF Promise!Meaningful
    <3>5. Promise!Meaning(merged, i, leaf) = Promise!Place(merged, d, inputs[d].labels[leaf.ref.symbol])
      BY <2>4, <3>2 DEF Promise!Meaning
    <3> QED BY <3>3, <3>4, <3>5 DEF Label
  <2> QED BY <2>1, <2>2, <2>3, <2>4 DEF Lands
<1> QED BY <1>1, <1>3

---------------------------------------------------------------------------
(* The order of sections and of the stream.                                *)

\* Steps that touch neither the sections nor the stream keep their order.
LEMMA OrderKept ==
    ASSUME Order, inputs' = inputs, sectionOrder' = sectionOrder, merged' = merged
    PROVE  Order'
<1>1. Entries' = Entries /\ \A e : SectionAt(e)' = SectionAt(e)
  BY InputsFixed
<1>2. FirstSeen'
  BY <1>1 DEF Order, FirstSeen, Earlier
<1>3. ASSUME NEW k \in 1..Len(merged), NEW m \in 1..Len(merged), k < m
      PROVE  LaidOut(merged[k], merged[m])'
  <2>1. LaidOut(merged[k], merged[m])
    BY <1>3 DEF Order, StreamSorted
  <2> QED BY <2>1 DEF LaidOut, Earlier, SectionAt
<1>4. StreamSorted'
  BY <1>3 DEF StreamSorted
<1> QED BY <1>2, <1>4 DEF Order

\* A section is remembered at the first entry of its own.
LEMMA SeeEntryOrder == ASSUME Full, SeeEntry PROVE Order'
<1> DEFINE e == <<cur.i, cur.l>>
           section == SectionAt(e)
<1>0. /\ inputs' = inputs /\ phase = "sections" /\ merged' = merged /\ merged = <<>>
      /\ sectionOrder \in Seq(Sections) /\ Len(sectionOrder) \in Nat /\ IsCommandLine(inputs)
      /\ IInv /\ Order
  BY DEF SeeEntry, Full, IInv, TypeOK, Progress
<1>1. e \in Entries /\ section \in Sections
  <2>1. e \in Entries
    BY <1>0, CursorEntry DEF IInv, SeeEntry
  <2> QED BY <1>0, <2>1, EntryShape
<1>2. CASE sectionOrder' = sectionOrder
  BY <1>0, <1>2, OrderKept
<1>3. CASE sectionOrder' = Append(sectionOrder, section)
  <2> DEFINE last == Len(sectionOrder) + 1
  <2> HIDE DEF section
  <2>1. /\ Len(sectionOrder') = last /\ sectionOrder'[last] = section
        /\ \A r \in 1..Len(sectionOrder) : sectionOrder'[r] = sectionOrder[r]
    BY <1>0, <1>1, <1>3
  <2>2. Entries' = Entries /\ \A f : SectionAt(f)' = SectionAt(f)
    BY <1>0, InputsFixed
  <2>3. ASSUME NEW q \in 1..Len(sectionOrder')
        PROVE  \E g \in Entries : /\ SectionAt(g) = sectionOrder'[q]
                                  /\ \A f \in Entries : Earlier(f, g) =>
                                        \E r \in 1..(q - 1) : sectionOrder'[r] = SectionAt(f)
    <3>1. CASE q = last
      <4>1. ASSUME NEW f \in Entries, Earlier(f, e)
            PROVE  \E r \in 1..(q - 1) : sectionOrder'[r] = SectionAt(f)
        <5>1. Known(f)
          BY <1>0, <4>1 DEF IInv, Progress, Earlier
        <5> QED BY <1>0, <2>1, <3>1, <5>1 DEF Known
      <4> QED BY <1>1, <2>1, <3>1, <4>1 DEF section
    <3>2. CASE q \in 1..Len(sectionOrder)
      <4>1. PICK g \in Entries : /\ SectionAt(g) = sectionOrder[q]
                                 /\ \A f \in Entries : Earlier(f, g) =>
                                       \E r \in 1..(q - 1) : sectionOrder[r] = SectionAt(f)
        BY <1>0, <3>2 DEF Order, FirstSeen
      <4>2. \A r \in 1..(q - 1) : sectionOrder'[r] = sectionOrder[r]
        BY <1>0, <2>1, <3>2
      <4> QED BY <2>1, <3>2, <4>1, <4>2
    <3> QED BY <1>0, <2>1, <3>1, <3>2
  <2>4. FirstSeen'
    BY <2>2, <2>3 DEF FirstSeen, Earlier
  <2>5. StreamSorted'
    BY <1>0 DEF StreamSorted
  <2> QED BY <2>4, <2>5 DEF Order
<1> QED BY <1>2, <1>3 DEF SeeEntry

\* An entry is placed after all those the loop has passed, and placed.
LEMMA PlaceEntryOrder == ASSUME Full, PlaceEntry PROVE Order'
<1> DEFINE e == <<cur.i, cur.l>>
<1>0. /\ inputs' = inputs /\ phase = "place" /\ sectionOrder' = sectionOrder
      /\ merged \in Seq(Entries) /\ Len(merged) \in Nat /\ Len(sectionOrder) \in Nat
      /\ cur.s \in 1..Len(sectionOrder) /\ IInv /\ Order
  BY DEF PlaceEntry, Full, IInv, TypeOK
<1>1. CASE merged' = merged
  BY <1>0, <1>1, OrderKept
<1>2. CASE SectionAt(e) = sectionOrder[cur.s] /\ merged' = Append(merged, e)
  <2>1. e \in Entries
    BY <1>0, CursorEntry DEF IInv, PlaceEntry
  <2> HIDE DEF e
  <2>2. /\ Len(merged') = Len(merged) + 1 /\ merged'[Len(merged) + 1] = e
        /\ \A k \in 1..Len(merged) : merged'[k] = merged[k]
    BY <1>0, <1>2, <2>1
  <2>3. ASSUME NEW k \in 1..Len(merged) PROVE LaidOut(merged[k], e)
    <3>1. Passed(merged[k])
      BY <1>0 DEF IInv, IndexMatchesStream, Progress
    <3> QED BY <1>0, <1>2, <3>1 DEF Passed, LaidOut, Earlier, e
  <2>4. ASSUME NEW k \in 1..Len(merged'), NEW m \in 1..Len(merged'), k < m
        PROVE  LaidOut(merged'[k], merged'[m])
    <3>1. CASE m = Len(merged) + 1
      BY <1>0, <2>2, <2>3, <2>4, <3>1
    <3>2. CASE m \in 1..Len(merged)
      BY <1>0, <2>2, <2>4, <3>2 DEF Order, StreamSorted
    <3> QED BY <1>0, <2>2, <3>1, <3>2
  <2>5. ASSUME NEW k \in 1..Len(merged'), NEW m \in 1..Len(merged'), k < m
        PROVE  LaidOut(merged[k], merged[m])'
    BY <1>0, <2>4, <2>5 DEF LaidOut, Earlier, SectionAt
  <2>6. StreamSorted'
    BY <2>5 DEF StreamSorted
  <2>7. Entries' = Entries /\ \A f : SectionAt(f)' = SectionAt(f)
    BY <1>0, InputsFixed
  <2>8. FirstSeen'
    BY <1>0, <2>7 DEF Order, FirstSeen, Earlier
  <2> QED BY <2>6, <2>8 DEF Order
<1> QED BY <1>1, <1>2 DEF PlaceEntry

---------------------------------------------------------------------------
(* The label table.                                                        *)

\* Steps that declare nothing keep the tables.
LEMMA TablesKept ==
    ASSUME Tables, inputs' = inputs, merged' = merged, globalIndex' = globalIndex,
           cur'.i = cur.i, declared' = declared, symbols' = symbols,
           phase' = phase \/ phase' = "failed" \/ (phase = "values" /\ phase' = "done")
    PROVE  Tables'
<1>1. /\ \A i, s : Read(i, s)' <=> Read(i, s)
      /\ \A i, s : Label(i, s)' = Label(i, s)
      /\ \A i, l : ValidPosition(i, l)' <=> ValidPosition(i, l)
      /\ \A i, l : GlobalPosition(i, l)' = GlobalPosition(i, l)
  BY DEF Read, Label, ValidPosition, GlobalPosition, NumEntries
<1>2. LabelsFiled => LabelsFiled'
  BY DEF LabelsFiled, Read, Label, ValidPosition, NumEntries
<1>3. LabelsLast => LabelsLast'
  BY DEF LabelsLast, Read, Label, GlobalPosition, NumEntries
<1> QED BY <1>2, <1>3 DEF Tables

\* A declared label is filed under its name, and under no other.
LEMMA DeclareLabelTables ==
    ASSUME Full, NEW name \in Symbols, DeclareLabel(name)
    PROVE  Tables'
<1>0. /\ inputs' = inputs /\ cur' = cur /\ merged' = merged /\ globalIndex' = globalIndex
      /\ phase = "symbols" /\ cur.i \in 1..Len(inputs) /\ Len(inputs) \in Nat
      /\ name \in DOMAIN inputs[cur.i].labels /\ name \notin declared
      /\ LabelsFiled /\ LabelsLast
  BY DEF DeclareLabel, Full, IInv, TypeOK, IsCommandLine, Tables
<1>1. CASE phase' = "failed"
  BY <1>1 DEF Tables
<1> DEFINE new == [module |-> inputs[cur.i].module, position |-> GlobalPosition(cur.i, Label(cur.i, name))]
<1>2. CASE /\ ValidPosition(cur.i, Label(cur.i, name))
           /\ name \in DOMAIN symbols => symbols[name].module = inputs[cur.i].module
           /\ symbols' = Put(symbols, name, new)
           /\ declared' = declared \cup {name} /\ phase' = phase
  <2>1. /\ DOMAIN symbols' = DOMAIN symbols \cup {name}
        /\ symbols'[name].module = inputs[cur.i].module
        /\ symbols'[name].position = GlobalPosition(cur.i, Label(cur.i, name))
        /\ \A s \in DOMAIN symbols : s # name => symbols'[s] = symbols[s]
    BY <1>2 DEF Put
  <2>2. \A i \in 1..Len(inputs) : \A s : Read(i, s)' <=> Read(i, s) \/ (i = cur.i /\ s = name)
    BY <1>0, <1>2 DEF Read
  <2>3. \A i \in 1..Len(inputs) : \A s : Read(i, s) => i <= cur.i /\ (s = name => i # cur.i)
    BY <1>0 DEF Read
  <2>4. LabelsFiled'
    <3>1. ASSUME NEW i \in 1..Len(inputs), NEW s \in DOMAIN inputs[i].labels, Read(i, s)'
          PROVE  /\ ValidPosition(i, Label(i, s)) /\ s \in DOMAIN symbols'
                 /\ symbols'[s].module = inputs[i].module
      <4>1. CASE Read(i, s)
        BY <1>0, <1>2, <2>1, <4>1 DEF LabelsFiled
      <4>2. CASE i = cur.i /\ s = name
        BY <1>2, <2>1, <4>2
      <4> QED BY <2>2, <3>1, <4>1, <4>2
    <3> QED BY <1>0, <3>1 DEF LabelsFiled, ValidPosition, Label, NumEntries
  <2>5. LabelsLast'
    <3>1. ASSUME NEW s \in DOMAIN symbols'
          PROVE  \E i \in 1..Len(inputs) :
                    /\ Read(i, s)' /\ symbols'[s].position = GlobalPosition(i, Label(i, s))
                    /\ \A o \in 1..Len(inputs) : Read(o, s)' => o <= i
      <4>1. CASE s = name
        BY <1>0, <2>1, <2>2, <2>3, <4>1
      <4>2. CASE s # name
        BY <1>0, <2>1, <2>2, <4>2 DEF LabelsLast
      <4> QED BY <4>1, <4>2
    <3> QED BY <1>0, <3>1 DEF LabelsLast, GlobalPosition, Label, NumEntries
  <2> QED BY <1>0, <1>2, <2>4, <2>5 DEF Tables
<1> QED BY <1>1, <1>2 DEF DeclareLabel, Fail, Label

LEMMA LabelsDeclaredTables == ASSUME Full, LabelsDeclared PROVE Tables'
<1>0. /\ inputs' = inputs /\ merged' = merged /\ globalIndex' = globalIndex /\ symbols' = symbols
      /\ phase = "symbols" /\ phase' = phase /\ cur.i \in 1..Len(inputs) /\ Len(inputs) \in Nat
      /\ cur'.i = cur.i + 1 /\ declared = DOMAIN inputs[cur.i].labels /\ declared' = {}
      /\ LabelsFiled /\ LabelsLast
  BY DEF LabelsDeclared, Full, IInv, TypeOK, IsCommandLine, Tables
<1>1. \A i \in 1..Len(inputs) : \A s : Read(i, s)' <=> Read(i, s)
  BY <1>0 DEF Read
<1>2. LabelsFiled'
  BY <1>0, <1>1 DEF LabelsFiled, ValidPosition, Label, NumEntries
<1>3. LabelsLast'
  BY <1>0, <1>1 DEF LabelsLast, GlobalPosition, Label, NumEntries
<1> QED BY <1>0, <1>2, <1>3 DEF Tables

\* Every step keeps the tables.
LEMMA StepTables == ASSUME Full, [Next]_vars PROVE Tables'
<1> USE DEF Full
<1>1. CASE \E name \in Symbols : DeclareLabel(name)
  BY <1>1, DeclareLabelTables
<1>2. CASE LabelsDeclared
  BY <1>2, LabelsDeclaredTables
<1>3. CASE SeeEntry \/ SeeNextInput \/ SectionsKnown \/ PlaceEntry \/ PlaceNextInput \/ PlaceNextSection
  <2>1. phase' \in {"sections", "place"} /\ symbols' = symbols /\ declared' = declared
        /\ phase \in {"sections", "place"}
    BY <1>3 DEF SeeEntry, SeeNextInput, SectionsKnown, PlaceEntry, PlaceNextInput, PlaceNextSection
  <2> QED BY <2>1 DEF Tables
<1>4. CASE EntriesPlaced
  <2>1. /\ phase = "place" /\ phase' = "symbols" /\ symbols' = symbols /\ declared' = declared
        /\ inputs' = inputs /\ cur'.i = 1
    BY <1>4 DEF EntriesPlaced, Start
  <2>2. DOMAIN symbols' = {} /\ declared' = {}
    BY <2>1 DEF Tables
  <2>3. \A i \in 1..Len(inputs) : \A s : ~Read(i, s)'
    BY <2>1, <2>2 DEF Read, IInv, TypeOK, IsCommandLine
  <2>4. LabelsFiled'
    BY <2>1, <2>3 DEF LabelsFiled
  <2>5. LabelsLast'
    BY <2>2 DEF LabelsLast
  <2> QED BY <2>1, <2>4, <2>5 DEF Tables
<1>5. CASE SymbolsKnown
  <2>1. /\ phase = "symbols" /\ phase' = "values" /\ cur.i = Len(inputs) + 1
        /\ UNCHANGED <<inputs, cur, merged, globalIndex, declared, symbols>>
    BY <1>5 DEF SymbolsKnown, AtLastInput
  <2>2. LabelsFiled' /\ LabelsLast'
    BY <2>1 DEF Tables, LabelsFiled, LabelsLast, Read, Label, ValidPosition, GlobalPosition, NumEntries
  <2> QED BY <2>1, <2>2 DEF Tables
<1>6. CASE RewriteValue \/ RejectValue \/ Linked \/ UNCHANGED vars
  BY <1>6, TablesKept DEF RewriteValue, RejectValue, Fail, Linked, vars
<1> QED BY <1>1, <1>2, <1>3, <1>4, <1>5, <1>6 DEF Next, Stopped

---------------------------------------------------------------------------
(* The values.                                                             *)

\* A leaf that meets no error is rewritten to one that lands.
LEMMA RewriteLands ==
    ASSUME Full, phase = "values", NEW i \in 1..Len(inputs), NEW leaf \in Leaf,
           TranslationError(i, leaf) = "none", ResolutionError(leaf) = "none"
    PROVE  Lands(i, leaf, RewriteLeaf(i, leaf))
<1>0. /\ DOMAIN globalIndex = Entries /\ IInv /\ LabelsFiled /\ LabelsLast
      /\ \A o \in 1..Len(inputs) : \A s : s \in DOMAIN inputs[o].labels => Read(o, s)
  BY DEF Full, IInv, Progress, Tables, TypeOK, IsCommandLine, Read
<1>1. CASE leaf.ref.kind = "int" /\ leaf.pos
  <2>1. ValidPosition(i, leaf.ref.at)
    BY <1>1 DEF TranslationError
  <2>2. Leads(i, leaf.ref.at, GlobalPosition(i, leaf.ref.at))
    BY <1>0, <2>1, GlobalPositionLeads
  <2>3. Translate(i, leaf) = [leaf EXCEPT !.ref = AsInt(GlobalPosition(i, leaf.ref.at))]
    BY <1>1 DEF Translate
  <2>4. /\ Translate(i, leaf).ref.kind = "int" /\ Translate(i, leaf).pos = leaf.pos
        /\ Translate(i, leaf).ref.at = GlobalPosition(i, leaf.ref.at)
    BY <2>3 DEF AsInt, Leaf
  <2>5. RewriteLeaf(i, leaf) = Translate(i, leaf)
    BY <2>4 DEF RewriteLeaf, Resolve
  <2> QED BY <1>1, <2>2, <2>4, <2>5 DEF Lands
<1>2. CASE leaf.ref.kind = "int" /\ ~leaf.pos
  <2>1. RewriteLeaf(i, leaf) = leaf
    BY <1>2 DEF RewriteLeaf, Resolve, Translate
  <2> QED BY <1>2, <2>1 DEF Lands
<1>3. CASE leaf.ref.kind # "int"
  <2> DEFINE at == IF leaf.ref.module = LinkModule THEN LinkSymbol(leaf.ref.symbol)
                                                   ELSE symbols[leaf.ref.symbol].position
  <2>1. RewriteLeaf(i, leaf) = [leaf EXCEPT !.ref = AsInt(at)]
    BY <1>3 DEF RewriteLeaf, Resolve, Translate
  <2>2. RewriteLeaf(i, leaf).ref.kind = "int" /\ RewriteLeaf(i, leaf).ref.at = at
        /\ RewriteLeaf(i, leaf).pos = leaf.pos
    <3> HIDE DEF at
    <3> QED BY <2>1 DEF AsInt, Leaf
  <2>3. CASE leaf.ref.module = LinkModule
    BY <1>3, <2>2, <2>3 DEF Lands, ResolutionError
  <2>4. CASE leaf.ref.module # LinkModule
    <3> DEFINE s == leaf.ref.symbol
    <3>1. s \in DOMAIN symbols /\ symbols[s].module = leaf.ref.module
      BY <1>3, <2>4 DEF ResolutionError
    <3>2. PICK d \in 1..Len(inputs) : /\ Read(d, s) /\ symbols[s].position = GlobalPosition(d, Label(d, s))
                                      /\ \A o \in 1..Len(inputs) : Read(o, s) => o <= d
      BY <1>0, <3>1 DEF LabelsLast
    <3>3. s \in DOMAIN inputs[d].labels
      BY <3>2 DEF Read
    <3>4. ValidPosition(d, Label(d, s)) /\ inputs[d].module = leaf.ref.module
      BY <1>0, <3>1, <3>2, <3>3 DEF LabelsFiled
    <3>5. LastToDeclare(d, leaf.ref)
      BY <1>0, <3>2, <3>3, <3>4 DEF LastToDeclare
    <3>6. Leads(d, Label(d, s), at)
      BY <1>0, <2>4, <3>2, <3>4, GlobalPositionLeads
    <3> QED BY <1>3, <2>2, <2>4, <3>5, <3>6 DEF Lands
  <2> QED BY <2>3, <2>4
<1> QED BY <1>1, <1>2, <1>3

\* Where a value leads depends on the inputs and the stream alone.
LEMMA ValueLandsKept ==
    ASSUME inputs' = inputs, merged' = merged, NEW e, NEW new, ValueLands(e, new)
    PROVE  ValueLands(e, new)'
<1>1. \A j \in 1..Len(new) : Lands(e[1], ValueAt(e)[j], new[j])'
  <2> SUFFICES ASSUME NEW j \in 1..Len(new) PROVE Lands(e[1], ValueAt(e)[j], new[j])'
    OBVIOUS
  <2>1. Lands(e[1], ValueAt(e)[j], new[j])
    BY DEF ValueLands
  <2> QED BY <2>1 DEF Lands, Leads, LastToDeclare, LeadsTo, ValidPosition, LinkSymbol, Label,
                      NumEntries, ValueAt
<1> QED BY <1>1 DEF ValueLands, ValueAt

\* A rewritten value leads where it did.
LEMMA RewriteValueMeant == ASSUME Full, RewriteValue PROVE Meant'
<1> DEFINE i     == NextEntry[1]
           value == ValueAt(NextEntry)
           new   == [j \in 1..Len(value) |-> RewriteLeaf(i, value[j])]
<1>0. /\ inputs' = inputs /\ merged' = merged /\ phase = "values" /\ phase' = phase
      /\ Len(values) < Len(merged) /\ values' = Append(values, new)
      /\ \A j \in DOMAIN ErrorsOf(i, value) : ErrorsOf(i, value)[j] = "none"
  BY DEF RewriteValue
<1>1. /\ merged \in Seq(Entries) /\ values \in Seq(Value)
      /\ Len(values) \in Nat /\ Len(merged) \in Nat /\ IsCommandLine(inputs)
  BY DEF Full, IInv, TypeOK
<1>2. NextEntry \in Entries
  BY <1>0, <1>1 DEF NextEntry
<1>3. i \in 1..Len(inputs) /\ value \in Seq(Leaf) /\ Len(value) \in Nat
  BY <1>1, <1>2, EntryShape DEF Value
<1> HIDE DEF i, value
<1>4. ASSUME NEW j \in 1..Len(value)
      PROVE  Lands(i, value[j], RewriteLeaf(i, value[j])) /\ RewriteLeaf(i, value[j]) \in Leaf
  <2>1. /\ j \in 1..(2 * Len(value)) /\ j <= Len(value)
        /\ j + Len(value) \in 1..(2 * Len(value)) /\ ~(j + Len(value) <= Len(value))
        /\ j + Len(value) - Len(value) = j
    BY <1>3
  <2>2. TranslationError(i, value[j]) = "none"
    BY <1>0, <2>1 DEF ErrorsOf
  <2>3. ErrorsOf(i, value)[j + Len(value)] = ResolutionError(value[j + Len(value) - Len(value)])
    BY <2>1 DEF ErrorsOf
  <2>4. ErrorsOf(i, value)[j + Len(value)] = "none"
    BY <1>0, <2>1 DEF ErrorsOf
  <2>5. ResolutionError(value[j]) = "none"
    BY <2>1, <2>3, <2>4
  <2> QED BY <1>0, <1>3, <2>2, <2>5, RewriteLands, RewriteLeafType DEF Full, IInv, Progress
<1>5. ValueLands(merged[Len(values) + 1], new)
  <2>1. Len(new) = Len(value) /\ \A j \in 1..Len(value) : new[j] = RewriteLeaf(i, value[j])
    BY <1>3
  <2> HIDE DEF new
  <2> QED BY <1>4, <2>1 DEF ValueLands, NextEntry, i, value
<1>6. new \in Value
  BY <1>3, <1>4 DEF Value
<1> HIDE DEF new
<1>7. /\ Len(values') = Len(values) + 1 /\ values'[Len(values) + 1] = new
      /\ \A k \in 1..Len(values) : values'[k] = values[k]
  BY <1>0, <1>1, <1>6
<1>8. ASSUME NEW k \in 1..Len(values') PROVE ValueLands(merged[k], values'[k])
  BY <1>1, <1>5, <1>7 DEF Full, Meant
<1>9. ASSUME NEW k \in 1..Len(values') PROVE ValueLands(merged[k], values[k])'
  <2>1. PICK e, v : e = merged[k] /\ v = values'[k]
    OBVIOUS
  <2>2. ValueLands(e, v)'
    BY <1>0, <1>8, <2>1, ValueLandsKept
  <2> QED BY <1>0, <2>1, <2>2 DEF ValueLands, ValueAt
<1> QED BY <1>0, <1>9 DEF Meant

\* Every step keeps what the values mean.
LEMMA StepMeant == ASSUME Full, [Next]_vars PROVE Meant'
<1>1. CASE RewriteValue
  BY <1>1, RewriteValueMeant
<1>2. CASE RejectValue \/ Linked \/ UNCHANGED vars
  <2>1. /\ inputs' = inputs /\ merged' = merged /\ values' = values
        /\ phase' \in {"sections", "place", "symbols"} => phase' = phase
    BY <1>2 DEF RejectValue, Fail, Linked, vars
  <2>2. ASSUME NEW k \in 1..Len(values) PROVE ValueLands(merged[k], values[k])'
    <3>1. PICK e, v : e = merged[k] /\ v = values[k]
      OBVIOUS
    <3>2. ValueLands(e, v)
      BY <3>1 DEF Full, Meant
    <3>3. ValueLands(e, v)'
      BY <2>1, <3>2, ValueLandsKept
    <3> QED BY <2>1, <3>1, <3>3 DEF ValueLands, ValueAt
  <2> QED BY <2>1, <2>2 DEF Full, Meant
<1>3. ASSUME phase \in {"sections", "place", "symbols"}, values' = values PROVE Meant'
  BY <1>3 DEF Full, Meant
<1>4. CASE \/ SeeEntry \/ SeeNextInput \/ SectionsKnown
           \/ PlaceEntry \/ PlaceNextInput \/ PlaceNextSection \/ EntriesPlaced
           \/ (\E name \in Symbols : DeclareLabel(name)) \/ LabelsDeclared \/ SymbolsKnown
  BY <1>3, <1>4 DEF SeeEntry, SeeNextInput, SectionsKnown, PlaceEntry, PlaceNextInput,
     PlaceNextSection, EntriesPlaced, DeclareLabel, LabelsDeclared, SymbolsKnown
<1> QED BY <1>1, <1>2, <1>4 DEF Next, Stopped

\* Every step keeps the order.
LEMMA StepOrder == ASSUME Full, [Next]_vars PROVE Order'
<1>1. CASE SeeEntry
  BY <1>1, SeeEntryOrder
<1>2. CASE PlaceEntry
  BY <1>2, PlaceEntryOrder
<1>3. CASE UNCHANGED <<inputs, sectionOrder, merged>>
  BY <1>3, OrderKept DEF Full
<1> QED BY <1>1, <1>2, <1>3 DEF Next, vars, Stopped, SeeNextInput, SectionsKnown, PlaceNextInput,
    PlaceNextSection, EntriesPlaced, DeclareLabel, LabelsDeclared, SymbolsKnown, RewriteValue,
    RejectValue, Linked

LEMMA InitFull == Init => Full
<1> SUFFICES ASSUME Init PROVE Full
  OBVIOUS
<1>1. Order /\ Tables /\ Meant
  BY DEF Init, Order, FirstSeen, StreamSorted, Tables, Meant
<1> QED BY <1>1, InitIInv DEF Full

\* The whole invariant holds at every moment.
LEMMA FullHolds == Spec => []Full
<1>1. Full /\ [Next]_vars => Full'
  BY StepIInv, StepOrder, StepTables, StepMeant DEF Full
<1> QED BY <1>1, InitFull, PTL DEF Spec

---------------------------------------------------------------------------
(* Every reference lands.                                                  *)

\* For every command line, a reference means after the link what it meant
\* before: a label of the same file, one of another file, a symbol of the
\* linker's own or a plain integer.
THEOREM LinkReferencesLand == Spec => []ReferencesLand
<1>1. ASSUME Full, NEW k \in 1..Len(values), NEW j \in 1..Len(values[k])
      PROVE  LET before == ValueAt(merged[k])[j]
                 after  == values[k][j].ref IN
             /\ after.kind = "int"
             /\ values[k][j].pos = before.pos
             /\ CASE before.ref.kind = "int" /\ before.pos ->
                         LeadsTo(merged[k][1], before.ref.at, after.at)
                  [] before.ref.kind = "int" /\ ~before.pos -> after = before.ref
                  [] before.ref.kind = "deferred" /\ before.ref.module = LinkModule ->
                         after.at = IF before.ref.symbol = "image_start" THEN 0 ELSE Len(merged)
                  [] OTHER ->
                         \E i \in 1..Len(inputs) :
                             /\ inputs[i].module = before.ref.module
                             /\ before.ref.symbol \in DOMAIN inputs[i].labels
                             /\ LeadsTo(i, inputs[i].labels[before.ref.symbol], after.at)
  <2> DEFINE before == ValueAt(merged[k])[j]
             new    == values[k][j]
  <2>1. Lands(merged[k][1], before, new)
    BY <1>1 DEF Full, Meant, ValueLands
  <2>2. before \in Leaf
    <3>1. merged[k] \in Entries /\ IsCommandLine(inputs) /\ j \in 1..Len(ValueAt(merged[k]))
      BY <1>1 DEF Full, IInv, TypeOK, Meant, ValueLands
    <3> QED BY <3>1, EntryShape DEF Value
  <2> HIDE DEF before, new
  <2>3. /\ before.ref.kind \in {"int", "deferred"} /\ before.pos \in BOOLEAN
    BY <2>2 DEF Leaf, IntRef, DeferredRef
  <2>4. /\ new.ref.kind = "int" /\ new.pos = before.pos
    BY <2>1 DEF Lands
  <2>5. CASE before.ref.kind = "int" /\ before.pos
    <3>1. LeadsTo(merged[k][1], before.ref.at, new.ref.at)
      BY <2>1, <2>5 DEF Lands, Leads
    <3> QED BY <2>4, <2>5, <3>1 DEF before, new
  <2>6. CASE before.ref.kind = "int" /\ ~before.pos
    <3>1. new.ref = before.ref
      BY <2>1, <2>6 DEF Lands
    <3> QED BY <2>4, <2>6, <3>1 DEF before, new
  <2>7. CASE before.ref.kind = "deferred" /\ before.ref.module = LinkModule
    <3>1. new.ref.at = IF before.ref.symbol = "image_start" THEN 0 ELSE Len(merged)
      BY <2>1, <2>7 DEF Lands, LinkSymbol
    <3> QED BY <2>4, <2>7, <3>1 DEF before, new
  <2>8. CASE before.ref.kind = "deferred" /\ before.ref.module # LinkModule
    <3>1. \E i \in 1..Len(inputs) :
              /\ inputs[i].module = before.ref.module
              /\ before.ref.symbol \in DOMAIN inputs[i].labels
              /\ LeadsTo(i, inputs[i].labels[before.ref.symbol], new.ref.at)
      BY <2>1, <2>8 DEF Lands, Leads, LastToDeclare, Label
    <3> QED BY <2>4, <2>8, <3>1 DEF before, new
  <2> QED BY <2>3, <2>5, <2>6, <2>7, <2>8
<1>2. Full => ReferencesLand
  BY <1>1 DEF ReferencesLand
<1> QED BY <1>2, FullHolds, PTL

---------------------------------------------------------------------------
(* The image, or the refusal, is the specification's.                      *)

\* What the last loop has written when it ends is what the inputs denote.
LEMMA RewrittenIsDenoted ==
    ASSUME Full, phase = "values", Len(values) = Len(merged)
    PROVE  Promise!Denotable /\ Promise!Denoted = values
<1>0. /\ IInv /\ Order /\ DOMAIN globalIndex = Entries /\ \A e \in Entries : Known(e)
      /\ LabelsFiled /\ LabelsLast /\ Len(merged) \in Nat /\ merged \in Seq(Entries)
      /\ values \in Seq(Value) /\ IsCommandLine(inputs) /\ DOMAIN inputs = 1..Len(inputs)
      /\ \A o \in 1..Len(inputs) : \A s : s \in DOMAIN inputs[o].labels => Read(o, s)
  BY DEF Full, IInv, TypeOK, Progress, Tables, IsCommandLine, Read
<1>1. ASSUME NEW k \in 1..Len(merged)
      PROVE  /\ merged[k] \in Entries /\ merged[k][1] \in 1..Len(inputs)
             /\ ValueAt(merged[k]) \in Seq(Leaf) /\ values[k] \in Seq(Leaf)
             /\ Len(values[k]) = Len(ValueAt(merged[k]))
             /\ Promise!EntryOf(merged[k]).value = ValueAt(merged[k])
             /\ \A j \in 1..Len(values[k]) : Lands(merged[k][1], ValueAt(merged[k])[j], values[k][j])
  BY <1>0, EntryShape, SameEntries DEF Value, Full, Meant, ValueLands
<1>2. ASSUME NEW k \in 1..Len(merged), NEW j \in 1..Len(ValueAt(merged[k]))
      PROVE  /\ Promise!Meaningful(merged[k][1], ValueAt(merged[k])[j])
             /\ values[k][j] =
                    [pos |-> ValueAt(merged[k])[j].pos,
                     ref |-> [kind |-> "int",
                              at   |-> Promise!Meaning(merged, merged[k][1], ValueAt(merged[k])[j])]]
  <2>1. /\ merged[k][1] \in 1..Len(inputs) /\ j \in 1..Len(values[k])
        /\ ValueAt(merged[k])[j] \in Leaf /\ values[k][j] \in Leaf
        /\ Lands(merged[k][1], ValueAt(merged[k])[j], values[k][j])
    BY <1>1
  <2> QED BY <1>0, <2>1, LandsIsMeant
<1>3. Promise!Denotable
  <2>1. ASSUME NEW s, NEW i \in Promise!DeclaredBy(s)
        PROVE  /\ i \in 1..Len(inputs) /\ s \in DOMAIN symbols
               /\ inputs[i].module = symbols[s].module
               /\ inputs[i].labels[s] \in 0..Promise!Size(i)
    <3>1. i \in 1..Len(inputs) /\ s \in DOMAIN inputs[i].labels
      BY <1>0 DEF Promise!DeclaredBy
    <3> QED BY <1>0, <3>1, SameEntries DEF LabelsFiled, ValidPosition, Label
  <2>2. ASSUME NEW e \in Promise!AllEntries, NEW j \in DOMAIN Promise!EntryOf(e).value
        PROVE  Promise!Meaningful(e[1], Promise!EntryOf(e).value[j])
    <3>1. PICK k \in 1..Len(merged) : merged[k] = e
      <4>1. e \in Entries
        BY <1>0, SameEntries
      <4>2. globalIndex[e] \in 0..(Len(merged) - 1) /\ merged[globalIndex[e] + 1] = e
        BY <1>0, <4>1 DEF IInv, TypeOK, IndexMatchesStream
      <4> QED BY <1>0, <4>2
    <3>2. Promise!EntryOf(e).value = ValueAt(merged[k]) /\ DOMAIN ValueAt(merged[k]) = 1..Len(ValueAt(merged[k]))
      BY <1>1, <3>1
    <3> QED BY <1>2, <2>2, <3>1, <3>2
  <2> QED BY <2>1, <2>2 DEF Promise!Denotable
<1>4. Promise!Denoted = values
  <2>1. ASSUME NEW k \in 1..Len(merged)
        PROVE  [j \in DOMAIN ValueAt(merged[k]) |->
                  [pos |-> ValueAt(merged[k])[j].pos,
                   ref |-> [kind |-> "int",
                            at   |-> Promise!Meaning(merged, merged[k][1], ValueAt(merged[k])[j])]]]
                = values[k]
    <3>1. DOMAIN ValueAt(merged[k]) = 1..Len(ValueAt(merged[k]))
      BY <1>1
    <3>2. values[k] = [j \in 1..Len(values[k]) |-> values[k][j]]
      BY <1>1
    <3>3. values[k] = [j \in 1..Len(ValueAt(merged[k])) |-> values[k][j]]
      BY <1>1, <3>2
    <3> QED BY <1>2, <3>1, <3>3
  <2>2. Promise!Layout = merged /\ DOMAIN merged = 1..Len(merged)
    BY <1>0, StreamIsLayout
  <2>3. Promise!Denoted = [k \in 1..Len(merged) |->
            [j \in DOMAIN ValueAt(merged[k]) |->
                [pos |-> ValueAt(merged[k])[j].pos,
                 ref |-> [kind |-> "int",
                          at   |-> Promise!Meaning(merged, merged[k][1], ValueAt(merged[k])[j])]]]]
    BY <2>2 DEF Promise!Denoted, Promise!EntryOf, ValueAt
  <2>4. values = [k \in 1..Len(merged) |-> values[k]]
    BY <1>0
  <2> QED BY <2>1, <2>3, <2>4
<1> QED BY <1>3, <1>4

\* A label that is refused has no meaning.
LEMMA RefusedLabel ==
    ASSUME Full, NEW name \in Symbols, DeclareLabel(name), phase' = "failed"
    PROVE  ~Promise!Denotable
<1>0. /\ phase = "symbols" /\ cur.i \in 1..Len(inputs) /\ name \in DOMAIN inputs[cur.i].labels
      /\ LabelsFiled /\ LabelsLast /\ DOMAIN inputs = 1..Len(inputs)
      /\ Promise!Size(cur.i) = NumEntries(cur.i)
  BY SameEntries DEF DeclareLabel, Full, IInv, TypeOK, IsCommandLine, Tables
<1>1. /\ cur.i \in Promise!DeclaredBy(name)
      /\ name \in UNION {DOMAIN inputs[i].labels : i \in DOMAIN inputs}
  BY <1>0 DEF Promise!DeclaredBy
<1>2. CASE ~ValidPosition(cur.i, inputs[cur.i].labels[name])
  BY <1>0, <1>1, <1>2 DEF Promise!Denotable, ValidPosition
<1>3. CASE name \in DOMAIN symbols /\ symbols[name].module # inputs[cur.i].module
  <2>1. PICK i \in 1..Len(inputs) : Read(i, name)
    BY <1>0, <1>3 DEF LabelsLast
  <2>2. inputs[i].module # inputs[cur.i].module /\ i \in Promise!DeclaredBy(name)
    BY <1>0, <1>3, <2>1 DEF LabelsFiled, Read, Promise!DeclaredBy
  <2> QED BY <1>1, <2>2 DEF Promise!Denotable
<1> QED BY <1>0, <1>2, <1>3 DEF DeclareLabel

\* Nor has a value that is rejected.
LEMMA RejectedValue == ASSUME Full, RejectValue PROVE ~Promise!Denotable
<1> DEFINE i     == NextEntry[1]
           value == ValueAt(NextEntry)
<1>0. /\ phase = "values" /\ Len(values) < Len(merged) /\ Len(values) \in Nat
      /\ merged \in Seq(Entries) /\ IsCommandLine(inputs) /\ LabelsFiled /\ LabelsLast
      /\ DOMAIN inputs = 1..Len(inputs)
      /\ \A o \in 1..Len(inputs) : \A s : s \in DOMAIN inputs[o].labels => Read(o, s)
  BY DEF RejectValue, Full, IInv, TypeOK, Tables, IsCommandLine, Read
<1>1. NextEntry \in Entries
  BY <1>0 DEF NextEntry
<1>2. /\ i \in 1..Len(inputs) /\ value \in Seq(Leaf) /\ Len(value) \in Nat
      /\ NextEntry \in Promise!AllEntries /\ Promise!EntryOf(NextEntry).value = value
      /\ Promise!Size(i) = NumEntries(i)
  BY <1>0, <1>1, EntryShape, SameEntries DEF Value
<1>3. PICK j \in DOMAIN ErrorsOf(i, value) : ErrorsOf(i, value)[j] # "none"
  BY DEF RejectValue
<1> HIDE DEF i, value
<1>4. PICK h \in 1..Len(value) : TranslationError(i, value[h]) # "none" \/ ResolutionError(value[h]) # "none"
  <2>1. j \in 1..(2 * Len(value))
    BY <1>3 DEF ErrorsOf
  <2>2. CASE j <= Len(value)
    <3>1. ErrorsOf(i, value)[j] = TranslationError(i, value[j])
      BY <2>1, <2>2 DEF ErrorsOf
    <3> QED BY <1>2, <1>3, <2>1, <2>2, <3>1
  <2>3. CASE ~(j <= Len(value))
    <3>1. ErrorsOf(i, value)[j] = ResolutionError(value[j - Len(value)])
      BY <2>1, <2>3 DEF ErrorsOf
    <3>2. j - Len(value) \in 1..Len(value)
      BY <1>2, <2>1, <2>3
    <3> QED BY <1>3, <3>1, <3>2
  <2> QED BY <2>2, <2>3
<1> DEFINE leaf == value[h]
<1>5. leaf \in Leaf
  BY <1>2
<1> HIDE DEF leaf
<1>6. ~Promise!Meaningful(i, leaf)
  <2>1. CASE leaf.ref.kind = "int"
    <3>1. leaf.pos /\ ~ValidPosition(i, leaf.ref.at)
      BY <1>4, <2>1 DEF TranslationError, ResolutionError, leaf
    <3> QED BY <1>2, <2>1, <3>1 DEF Promise!Meaningful, ValidPosition
  <2>2. CASE leaf.ref.kind # "int" /\ leaf.ref.module = LinkModule
    <3>1. leaf.ref.symbol \notin LinkSymbols
      BY <1>4, <2>2 DEF TranslationError, ResolutionError, leaf
    <3> QED BY <2>2, <3>1 DEF Promise!Meaningful, LinkSymbols
  <2>3. CASE leaf.ref.kind # "int" /\ leaf.ref.module # LinkModule
    <3>1. leaf.ref.symbol \notin DOMAIN symbols \/ symbols[leaf.ref.symbol].module # leaf.ref.module
      BY <1>4, <2>3 DEF TranslationError, ResolutionError, leaf
    <3>2. ASSUME NEW o \in Promise!Targets(leaf.ref) PROVE FALSE
      <4>1. o \in 1..Len(inputs) /\ leaf.ref.symbol \in DOMAIN inputs[o].labels
            /\ inputs[o].module = leaf.ref.module
        BY <1>0 DEF Promise!Targets, Promise!DeclaredBy
      <4> QED BY <1>0, <3>1, <4>1 DEF LabelsFiled
    <3> QED BY <2>3, <3>2 DEF Promise!Meaningful
  <2> QED BY <2>1, <2>2, <2>3
<1>7. /\ NextEntry \in Promise!AllEntries /\ h \in DOMAIN Promise!EntryOf(NextEntry).value
      /\ ~Promise!Meaningful(NextEntry[1], Promise!EntryOf(NextEntry).value[h])
  BY <1>2, <1>6 DEF leaf, i
<1> QED BY <1>7 DEF Promise!Denotable

---------------------------------------------------------------------------
(* Each step of the loops is the specification's one step, or none.        *)

\* While a loop still runs nothing has been decided.
LEMMA PendingOutcome ==
    ASSUME phase \in Phases
    PROVE  /\ phase \notin {"done", "failed"} => Outcome = Promise!Pending
           /\ phase = "done" => Outcome = Promise!Image(values)
           /\ phase = "failed" => Outcome = Promise!Refused
BY DEF Outcome, Phases, Promise!Pending, Promise!Image, Promise!Refused

\* The outcome after a step, by the phase it ends in.
LEMMA PendingOutcomeNext ==
    ASSUME phase' \in Phases
    PROVE  /\ phase' \notin {"done", "failed"} => Outcome' = Promise!Pending
           /\ phase' = "done" => Outcome' = Promise!Image(values')
           /\ phase' = "failed" => Outcome' = Promise!Refused
BY DEF Outcome, Phases, Promise!Pending, Promise!Image, Promise!Refused

\* A step that leaves the link undecided is no step of the specification;
\* the one that ends it gives the image or the refusal that is denoted.
LEMMA StepOfThePromise ==
    ASSUME Full, [Next]_vars, phase' \in Phases
    PROVE  [Promise!Link]_<<inputs, Outcome>>
<1> DEFINE undecided == {"sections", "place", "symbols", "values"}
<1>0. phase \in Phases
  BY DEF Full, IInv, TypeOK
<1>1. ASSUME inputs' = inputs, phase \in undecided, phase' \in undecided
      PROVE  [Promise!Link]_<<inputs, Outcome>>
  BY <1>0, <1>1, PendingOutcome, PendingOutcomeNext
<1>2. ASSUME inputs' = inputs, phase \in undecided, phase' = "failed", ~Promise!Denotable
      PROVE  Promise!Link
  BY <1>0, <1>2, PendingOutcome, PendingOutcomeNext DEF Promise!Link
<1>3. ASSUME Linked PROVE Promise!Link
  <2>1. /\ phase = "values" /\ Len(values) = Len(merged)
        /\ phase' = "done" /\ values' = values /\ inputs' = inputs
    BY <1>3 DEF Linked
  <2>2. Promise!Denotable /\ Promise!Denoted = values
    BY <2>1, RewrittenIsDenoted
  <2>3. Outcome = Promise!Pending /\ Outcome' = Promise!Image(values)
    BY <1>0, <2>1, PendingOutcome, PendingOutcomeNext DEF Promise!Image
  <2> QED BY <2>1, <2>2, <2>3 DEF Promise!Link
<1>4. ASSUME NEW name \in Symbols, DeclareLabel(name) PROVE [Promise!Link]_<<inputs, Outcome>>
  <2>1. phase = "symbols" /\ inputs' = inputs /\ phase' \in {"symbols", "failed"}
    BY <1>4 DEF DeclareLabel, Fail
  <2>2. CASE phase' = "failed"
    BY <1>2, <1>4, <2>1, <2>2, RefusedLabel
  <2>3. CASE phase' = "symbols"
    BY <1>1, <2>1, <2>3
  <2> QED BY <2>1, <2>2, <2>3
<1>5. ASSUME RejectValue PROVE Promise!Link
  <2>1. phase = "values" /\ inputs' = inputs /\ phase' = "failed"
    BY <1>5 DEF RejectValue, Fail
  <2> QED BY <1>2, <1>5, <2>1, RejectedValue
<1>6. CASE SeeEntry
  BY <1>1, <1>6 DEF SeeEntry
<1>7. CASE SeeNextInput
  BY <1>1, <1>7 DEF SeeNextInput
<1>8. CASE SectionsKnown
  BY <1>1, <1>8 DEF SectionsKnown
<1>9. CASE PlaceEntry
  BY <1>1, <1>9 DEF PlaceEntry
<1>10. CASE PlaceNextInput
  BY <1>1, <1>10 DEF PlaceNextInput
<1>11. CASE PlaceNextSection
  BY <1>1, <1>11 DEF PlaceNextSection
<1>12. CASE EntriesPlaced
  BY <1>1, <1>12 DEF EntriesPlaced
<1>13. CASE LabelsDeclared
  BY <1>1, <1>13 DEF LabelsDeclared
<1>14. CASE SymbolsKnown
  BY <1>1, <1>14 DEF SymbolsKnown
<1>15. CASE RewriteValue
  BY <1>1, <1>15 DEF RewriteValue
<1>16. CASE Stopped \/ UNCHANGED vars
  BY <1>16 DEF Stopped, vars, Outcome
<1> QED
  BY <1>3, <1>4, <1>5, <1>6, <1>7, <1>8, <1>9, <1>10, <1>11, <1>12, <1>13, <1>14, <1>15, <1>16
  DEF Next

\* Whatever inputs it is given, `link` never yields anything but the one
\* image LinkSpec says they denote, and refuses only what denotes none.
THEOREM LinkRefinesPromise == Spec => Promise!Spec
<1>1. Init => Promise!Init
  BY PendingOutcome DEF Init, Promise!Init, Phases
<1>2. Full /\ Full' /\ [Next]_vars => [Promise!Link]_<<inputs, Outcome>>
  BY StepOfThePromise DEF Full, IInv, TypeOK
<1> QED BY <1>1, <1>2, FullHolds, PTL DEF Spec, Promise!Spec

===========================================================================
