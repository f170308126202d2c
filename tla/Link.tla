------------------------------- MODULE Link -------------------------------
(* `bitter`'s linker (src/bitter/src/link.rs): several compiled files'     *)
(* entry streams become one image.  Sections are ordered by the first     *)
(* entry seen in each, every entry is placed, every `pub` label gets a     *)
(* merged position, and the references left inside the values are          *)
(* rewritten.  One action per iteration of each loop of `link`.            *)
(*                                                                         *)
(* A value is the sequence of its reference leaves, in the order the       *)
(* recursive walks visit them; everything else in it is untouched by the   *)
(* linker.  Inputs are numbered from 1 in command-line order; positions    *)
(* and local entry indices count from 0, as in the code.                   *)
EXTENDS Integers, Sequences

CONSTANTS
    InputSpace,   \* the command lines considered: a set of input sequences
    Modules,      \* module paths
    LinkModule,   \* std.bitter.link, whose labels the linker itself defines
    Sections,     \* section names, the default section among them
    Symbols       \* `pub` label names

LinkSymbols == {"image_start", "image_end"}

---------------------------------------------------------------------------
(* Values, entries and inputs.                                             *)

IntRef      == [kind : {"int"}, at : Int]
DeferredRef == [kind : {"deferred"}, module : Modules \cup {LinkModule}, symbol : Symbols \cup LinkSymbols]

\* A leaf is what a Deferred.Pos wraps (pos = TRUE), or stands bare.
Leaf  == [pos : BOOLEAN, ref : IntRef \cup DeferredRef]
Value == Seq(Leaf)
Entry == [section : Sections, value : Value]

IsLinkInput(inp) ==
    /\ DOMAIN inp = {"module", "entries", "labels"}
    /\ inp.module \in Modules
    /\ inp.entries \in Seq(Entry)
    /\ DOMAIN inp.labels \subseteq Symbols
    /\ \A s \in DOMAIN inp.labels : inp.labels[s] \in Nat

IsCommandLine(inps) ==
    /\ Len(inps) \in Nat
    /\ DOMAIN inps = 1..Len(inps)
    /\ \A i \in 1..Len(inps) : IsLinkInput(inps[i])

ASSUME InputSpaceAssumption == \A inps \in InputSpace : IsCommandLine(inps)

ASSUME LinkModuleAssumption == LinkModule \notin Modules

---------------------------------------------------------------------------
VARIABLES
    inputs,        \* the LinkInputs, fixed
    phase,         \* which loop of `link` is running
    cur,           \* the loop's position: section rank, input, local entry
    sectionOrder,  \* sections in first-seen order
    merged,        \* placed entries, as <<input, local index>>
    globalIndex,   \* <<input, local index>> -> merged position
    declared,      \* labels of input cur.i already in the table
    symbols,       \* pub label -> declaring module and merged position
    values,        \* rewritten values
    error          \* why the link failed

vars == <<inputs, phase, cur, sectionOrder, merged, globalIndex, declared, symbols, values, error>>

Phases == {"sections", "place", "symbols", "values", "done", "failed"}
Errors == {"none", "past_entries", "duplicate_label", "unresolved", "wrong_module", "no_link_symbol"}

NumEntries(i)   == Len(inputs[i].entries)
SectionAt(e)    == inputs[e[1]].entries[e[2] + 1].section
ValueAt(e)      == inputs[e[1]].entries[e[2] + 1].value
Entries         == {e \in (1..Len(inputs)) \X UNION {0..(NumEntries(i) - 1) : i \in 1..Len(inputs)} :
                        e[2] < NumEntries(e[1])}
Start           == [s |-> 1, i |-> 1, l |-> 0]
Put(f, k, v)    == [x \in DOMAIN f \cup {k} |-> IF x = k THEN v ELSE f[x]]

AtEntry     == cur.i <= Len(inputs) /\ cur.l < NumEntries(cur.i)
AtInputEnd  == cur.i <= Len(inputs) /\ cur.l = NumEntries(cur.i)
AtLastInput == cur.i = Len(inputs) + 1

Init ==
    /\ inputs \in InputSpace
    /\ phase = "sections"
    /\ cur = Start
    /\ sectionOrder = <<>>
    /\ merged = <<>>
    /\ globalIndex = [e \in {} |-> 0]
    /\ declared = {}
    /\ symbols = [s \in {} |-> 0]
    /\ values = <<>>
    /\ error = "none"

Fail(why) == phase' = "failed" /\ error' = why

---------------------------------------------------------------------------
(* Section order: every section is remembered when its first entry is met. *)

\* Variants of the definitions below, each with one plausible slip, are what
\* the properties are tested against; no specification here uses them.
SeeEntryNewestFirst ==
    /\ phase = "sections" /\ AtEntry
    /\ LET section == SectionAt(<<cur.i, cur.l>>) IN
       sectionOrder' = IF \E r \in 1..Len(sectionOrder) : sectionOrder[r] = section
                       THEN sectionOrder ELSE <<section>> \o sectionOrder
    /\ cur' = [cur EXCEPT !.l = @ + 1]
    /\ UNCHANGED <<inputs, phase, merged, globalIndex, declared, symbols, values, error>>

SeeEntry ==
    /\ phase = "sections" /\ AtEntry
    /\ LET section == SectionAt(<<cur.i, cur.l>>) IN
       sectionOrder' = IF \E r \in 1..Len(sectionOrder) : sectionOrder[r] = section
                       THEN sectionOrder ELSE Append(sectionOrder, section)
    /\ cur' = [cur EXCEPT !.l = @ + 1]
    /\ UNCHANGED <<inputs, phase, merged, globalIndex, declared, symbols, values, error>>

SeeNextInput ==
    /\ phase = "sections" /\ AtInputEnd
    /\ cur' = [cur EXCEPT !.i = @ + 1, !.l = 0]
    /\ UNCHANGED <<inputs, phase, sectionOrder, merged, globalIndex, declared, symbols, values, error>>

SectionsKnown ==
    /\ phase = "sections" /\ AtLastInput
    /\ phase' = "place" /\ cur' = Start
    /\ UNCHANGED <<inputs, sectionOrder, merged, globalIndex, declared, symbols, values, error>>

---------------------------------------------------------------------------
(* Placement: for each section, each input, each local entry of it.        *)

PlaceEntry ==
    /\ phase = "place" /\ cur.s <= Len(sectionOrder) /\ AtEntry
    /\ LET e == <<cur.i, cur.l>> IN
       IF SectionAt(e) = sectionOrder[cur.s]
       THEN /\ globalIndex' = Put(globalIndex, e, Len(merged))
            /\ merged' = Append(merged, e)
       ELSE UNCHANGED <<globalIndex, merged>>
    /\ cur' = [cur EXCEPT !.l = @ + 1]
    /\ UNCHANGED <<inputs, phase, sectionOrder, declared, symbols, values, error>>

PlaceNextInputWithoutReset ==
    /\ phase = "place" /\ cur.s <= Len(sectionOrder) /\ AtInputEnd
    /\ cur' = [cur EXCEPT !.i = @ + 1]
    /\ UNCHANGED <<inputs, phase, sectionOrder, merged, globalIndex, declared, symbols, values, error>>

PlaceNextInput ==
    /\ phase = "place" /\ cur.s <= Len(sectionOrder) /\ AtInputEnd
    /\ cur' = [cur EXCEPT !.i = @ + 1, !.l = 0]
    /\ UNCHANGED <<inputs, phase, sectionOrder, merged, globalIndex, declared, symbols, values, error>>

PlaceNextSection ==
    /\ phase = "place" /\ cur.s <= Len(sectionOrder) /\ AtLastInput
    /\ cur' = [s |-> cur.s + 1, i |-> 1, l |-> 0]
    /\ UNCHANGED <<inputs, phase, sectionOrder, merged, globalIndex, declared, symbols, values, error>>

EntriesPlaced ==
    /\ phase = "place" /\ cur.s = Len(sectionOrder) + 1
    /\ phase' = "symbols" /\ cur' = Start
    /\ UNCHANGED <<inputs, sectionOrder, merged, globalIndex, declared, symbols, values, error>>

---------------------------------------------------------------------------
(* Positions: `Layout::global_position`.                                   *)

ValidPosition(i, local) == local \in 0..NumEntries(i)

GlobalPosition(i, local) ==
    IF local < NumEntries(i) THEN globalIndex[<<i, local>>]
    ELSE IF NumEntries(i) = 0 THEN Len(merged)
    ELSE globalIndex[<<i, NumEntries(i) - 1>>] + 1

(* Symbols: each input's labels, in whatever order its HashMap yields them. *)

DeclareLabel(name) ==
    /\ phase = "symbols" /\ cur.i <= Len(inputs)
    /\ name \in DOMAIN inputs[cur.i].labels \ declared
    /\ LET inp == inputs[cur.i]
           local == inp.labels[name] IN
       IF ~ValidPosition(cur.i, local)
       THEN Fail("past_entries") /\ UNCHANGED <<declared, symbols>>
       ELSE IF name \in DOMAIN symbols /\ symbols[name].module # inp.module
       THEN Fail("duplicate_label") /\ UNCHANGED <<declared, symbols>>
       ELSE /\ symbols' = Put(symbols, name, [module   |-> inp.module,
                                              position |-> GlobalPosition(cur.i, local)])
            /\ declared' = declared \cup {name}
            /\ UNCHANGED <<phase, error>>
    /\ UNCHANGED <<inputs, cur, sectionOrder, merged, globalIndex, values>>

LabelsDeclared ==
    /\ phase = "symbols" /\ cur.i <= Len(inputs)
    /\ declared = DOMAIN inputs[cur.i].labels
    /\ cur' = [cur EXCEPT !.i = @ + 1]
    /\ declared' = {}
    /\ UNCHANGED <<inputs, phase, sectionOrder, merged, globalIndex, symbols, values, error>>

SymbolsKnown ==
    /\ phase = "symbols" /\ AtLastInput
    /\ phase' = "values"
    /\ UNCHANGED <<inputs, cur, sectionOrder, merged, globalIndex, declared, symbols, values, error>>

---------------------------------------------------------------------------
(* Values: a Pos's own integer is translated first, a Deferred resolved    *)
(* second, so that a resolved position is never translated again.          *)

AsInt(n) == [kind |-> "int", at |-> n]

TranslationError(i, leaf) ==
    IF leaf.pos /\ leaf.ref.kind = "int" /\ ~ValidPosition(i, leaf.ref.at)
    THEN "past_entries" ELSE "none"

Translate(i, leaf) ==
    IF leaf.pos /\ leaf.ref.kind = "int"
    THEN [leaf EXCEPT !.ref = AsInt(GlobalPosition(i, leaf.ref.at))] ELSE leaf

ResolutionError(leaf) ==
    IF leaf.ref.kind = "int" THEN "none"
    ELSE IF leaf.ref.module = LinkModule
    THEN IF leaf.ref.symbol \in LinkSymbols THEN "none" ELSE "no_link_symbol"
    ELSE IF leaf.ref.symbol \notin DOMAIN symbols THEN "unresolved"
    ELSE IF symbols[leaf.ref.symbol].module # leaf.ref.module THEN "wrong_module"
    ELSE "none"

LinkSymbol(symbol) == IF symbol = "image_start" THEN 0 ELSE Len(merged)

Resolve(leaf) ==
    IF leaf.ref.kind = "int" THEN leaf
    ELSE [leaf EXCEPT !.ref = AsInt(IF leaf.ref.module = LinkModule
                                    THEN LinkSymbol(leaf.ref.symbol)
                                    ELSE symbols[leaf.ref.symbol].position)]

RewriteLeafBackwards(i, leaf) == Translate(i, Resolve(leaf))

RewriteLeaf(i, leaf) == Resolve(Translate(i, leaf))

\* The errors a value meets, translation before resolution, first leaf first.
ErrorsOf(i, value) ==
    [j \in 1..(2 * Len(value)) |->
        IF j <= Len(value) THEN TranslationError(i, value[j])
                           ELSE ResolutionError(value[j - Len(value)])]

NextEntry == merged[Len(values) + 1]

RewriteValue ==
    /\ phase = "values" /\ Len(values) < Len(merged)
    /\ LET i      == NextEntry[1]
           value  == ValueAt(NextEntry)
           errors == ErrorsOf(i, value) IN
       /\ \A j \in DOMAIN errors : errors[j] = "none"
       /\ values' = Append(values, [j \in 1..Len(value) |-> RewriteLeaf(i, value[j])])
    /\ UNCHANGED <<inputs, phase, cur, sectionOrder, merged, globalIndex, declared, symbols, error>>

RejectValue ==
    /\ phase = "values" /\ Len(values) < Len(merged)
    /\ LET errors == ErrorsOf(NextEntry[1], ValueAt(NextEntry)) IN
       \E j \in DOMAIN errors :
          /\ errors[j] # "none"
          /\ \A h \in 1..(j - 1) : errors[h] = "none"
          /\ Fail(errors[j])
    /\ UNCHANGED <<inputs, cur, sectionOrder, merged, globalIndex, declared, symbols, values>>

Linked ==
    /\ phase = "values" /\ Len(values) = Len(merged)
    /\ phase' = "done"
    /\ UNCHANGED <<inputs, cur, sectionOrder, merged, globalIndex, declared, symbols, values, error>>

Stopped == phase \in {"done", "failed"} /\ UNCHANGED vars

Next ==
    \/ SeeEntry \/ SeeNextInput \/ SectionsKnown
    \/ PlaceEntry \/ PlaceNextInput \/ PlaceNextSection \/ EntriesPlaced
    \/ \E name \in Symbols : DeclareLabel(name)
    \/ LabelsDeclared \/ SymbolsKnown
    \/ RewriteValue \/ RejectValue \/ Linked
    \/ Stopped

Spec     == Init /\ [][Next]_vars
FairSpec == Spec /\ WF_vars(Next)

---------------------------------------------------------------------------
(* Properties.                                                             *)

\* The loop variables stay inside the inputs and each table keeps its shape.
TypeOK ==
    /\ IsCommandLine(inputs)
    /\ phase \in Phases
    /\ cur \in [s : 1..(Len(sectionOrder) + 1), i : 1..(Len(inputs) + 1), l : Nat]
    /\ sectionOrder \in Seq(Sections)
    /\ merged \in Seq(Entries)
    /\ DOMAIN globalIndex \subseteq Entries
    /\ \A e \in DOMAIN globalIndex : globalIndex[e] \in 0..(Len(merged) - 1)
    /\ declared \subseteq Symbols
    /\ DOMAIN symbols \subseteq Symbols
    /\ \A s \in DOMAIN symbols : symbols[s] \in [module : Modules, position : 0..Len(merged)]
    /\ values \in Seq(Value) /\ Len(values) <= Len(merged)
    /\ error \in Errors /\ (error # "none") = (phase = "failed")

\* `global_index` and `merged` describe one and the same placement: each
\* entry of the merged stream is indexed where it stands, and each indexed
\* entry stands there, so no entry is placed twice.
IndexMatchesStream ==
    /\ \A k \in 1..Len(merged) : /\ merged[k] \in DOMAIN globalIndex
                                 /\ globalIndex[merged[k]] = k - 1
    /\ \A e \in DOMAIN globalIndex : merged[globalIndex[e] + 1] = e

\* Once placement is over every entry of every input has been placed.
EverythingPlaced ==
    phase \in {"symbols", "values", "done"} => DOMAIN globalIndex = Entries

\* The regrouping loses no entry and duplicates none.
Placement == IndexMatchesStream /\ EverythingPlaced

\* Merged position p is where input i's local position leads: the entry
\* that follows the label, or the end of the file's own last entry.
LeadsTo(i, local, p) ==
    IF local < NumEntries(i) THEN p < Len(merged) /\ merged[p + 1] = <<i, local>>
    ELSE IF NumEntries(i) = 0 THEN p = Len(merged)
    ELSE p > 0 /\ merged[p] = <<i, NumEntries(i) - 1>>

\* A reference still means after the link what it meant before it: a label
\* of the same file leads to the entry it labelled, one of another file to
\* an entry that module labels so, and plain integers are left alone.
ReferencesLand ==
    \A k \in 1..Len(values) : \A j \in 1..Len(values[k]) :
        LET before == ValueAt(merged[k])[j]
            after  == values[k][j].ref IN
        /\ after.kind = "int"
        /\ values[k][j].pos = before.pos
        /\ CASE before.ref.kind = "int" /\ before.pos ->
                    LeadsTo(merged[k][1], before.ref.at, after.at)
             [] before.ref.kind = "int" /\ ~before.pos -> after = before.ref
             [] before.ref.kind = "deferred" /\ before.ref.module = LinkModule ->
                    after.at = IF before.ref.symbol = "image_start" THEN 0 ELSE Len(merged)
             [] OTHER ->
                    \E i \in 1..Len(inputs) :
                        /\ inputs[i].module = before.ref.module
                        /\ before.ref.symbol \in DOMAIN inputs[i].labels
                        /\ LeadsTo(i, inputs[i].labels[before.ref.symbol], after.at)

---------------------------------------------------------------------------
(* Refinement: the loops implement LinkSpec.  Everything before the last   *)
(* loop ends is a pending outcome.                                         *)

Outcome ==
    CASE phase = "done"   -> [state |-> "linked", values |-> values]
      [] phase = "failed" -> [state |-> "refused"]
      [] OTHER            -> [state |-> "pending"]

Promise == INSTANCE LinkSpec WITH outcome <- Outcome

\* Whatever inputs it is given, `link` ends with exactly the image they
\* denote when they denote one, and with an error when they do not.
LinkImplementsSpec == Promise!EndingSpec

===========================================================================
