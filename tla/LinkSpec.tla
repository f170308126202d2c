------------------------------ MODULE LinkSpec ----------------------------
(* What linking promises, with no loop and no table: given the inputs,     *)
(* either the one image they denote or a refusal.  Link implements it.     *)
EXTENDS Integers, Sequences, FiniteSets

CONSTANT LinkModule

VARIABLES inputs, outcome   \* any inputs; fixed

Pending   == [state |-> "pending"]
Refused   == [state |-> "refused"]
Image(vs) == [state |-> "linked", values |-> vs]

Size(i)      == Len(inputs[i].entries)
AllEntries   == UNION {{i} \X (0..(Size(i) - 1)) : i \in DOMAIN inputs}
EntryOf(e)   == inputs[e[1]].entries[e[2] + 1]
InSection(s) == {e \in AllEntries : EntryOf(e).section = s}

Sooner(e, f) == e[1] < f[1] \/ (e[1] = f[1] /\ e[2] < f[2])
FirstOf(s)   == CHOOSE e \in InSection(s) : \A f \in InSection(s) \ {e} : Sooner(e, f)

LaidBefore(e, f) ==
    LET s == EntryOf(e).section
        t == EntryOf(f).section IN
    IF s = t THEN Sooner(e, f) ELSE Sooner(FirstOf(s), FirstOf(t))

\* Entries by first-seen section, then file, then source order.
Rank(e) == Cardinality({d \in AllEntries : LaidBefore(d, e)})
Layout  == [k \in 1..Cardinality(AllEntries) |-> CHOOSE e \in AllEntries : Rank(e) = k - 1]

\* The merged position of input i's local position `local`.
Place(layout, i, local) ==
    IF local < Size(i) THEN (CHOOSE k \in DOMAIN layout : layout[k] = <<i, local>>) - 1
    ELSE IF Size(i) = 0 THEN Len(layout)
    ELSE CHOOSE k \in DOMAIN layout : layout[k] = <<i, Size(i) - 1>>

DeclaredBy(s) == {i \in DOMAIN inputs : s \in DOMAIN inputs[i].labels}
Targets(ref)  == {i \in DeclaredBy(ref.symbol) : inputs[i].module = ref.module}

Meaningful(i, leaf) ==
    IF leaf.ref.kind = "int" THEN leaf.pos => leaf.ref.at \in 0..Size(i)
    ELSE IF leaf.ref.module = LinkModule THEN leaf.ref.symbol \in {"image_start", "image_end"}
    ELSE Targets(leaf.ref) # {}

Denotable ==
    /\ \A s \in UNION {DOMAIN inputs[i].labels : i \in DOMAIN inputs} :
           /\ \A i, j \in DeclaredBy(s) : inputs[i].module = inputs[j].module
           /\ \A i \in DeclaredBy(s) : inputs[i].labels[s] \in 0..Size(i)
    /\ \A e \in AllEntries : \A j \in DOMAIN EntryOf(e).value : Meaningful(e[1], EntryOf(e).value[j])

\* The last input declaring a label gives it its place.
Meaning(layout, i, leaf) ==
    LET ref == leaf.ref IN
    IF ref.kind = "int" THEN IF leaf.pos THEN Place(layout, i, ref.at) ELSE ref.at
    ELSE IF ref.module = LinkModule THEN IF ref.symbol = "image_start" THEN 0 ELSE Len(layout)
    ELSE LET d == CHOOSE d \in Targets(ref) : \A o \in Targets(ref) : o <= d
         IN  Place(layout, d, inputs[d].labels[ref.symbol])

Denoted ==
    LET layout == Layout IN
    [k \in DOMAIN layout |->
        LET value == EntryOf(layout[k]).value IN
        [j \in DOMAIN value |->
            [pos |-> value[j].pos,
             ref |-> [kind |-> "int", at |-> Meaning(layout, layout[k][1], value[j])]]]]

Init == outcome = Pending

Link ==
    /\ outcome = Pending
    /\ outcome' = IF Denotable THEN Image(Denoted) ELSE Refused
    /\ UNCHANGED inputs

Spec == Init /\ [][Link]_<<inputs, outcome>>

\* No command line leaves a link pending for ever.
EndingSpec == Spec /\ <>(outcome # Pending)

===========================================================================
