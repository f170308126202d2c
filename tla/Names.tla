------------------------------- MODULE Names ------------------------------
(* What a name means inside a module, and how meanings combine: the        *)
(* loader's `Binding`, its `merge`, `shadow` and the precedence of         *)
(* explicit imports (src/src/loader.rs, "namespaces").                     *)
(*                                                                         *)
(* A binding says what kind of thing a name is and which modules, by id,   *)
(* it comes from; the name itself is the key of the table holding it.      *)
EXTENDS Integers, Sequences

Bound(kind, of)   == [kind |-> kind, of |-> of, span |-> 0]
DeclOf(id)        == Bound("decl", {id})
LabelOf(id)       == Bound("label", {id})
Macros(ids)       == Bound("macros", ids)
Ambiguous(ids)    == Bound("ambiguous", ids)

\* An imported label remembers where it was imported.
ExternOf(id, span) == [kind |-> "extern", of |-> {id}, span |-> span]

Kinds    == {"decl", "label", "macros", "ambiguous", "extern"}
Bindings == [kind : Kinds, of : SUBSET Nat, span : Nat]

Merge(a, b) ==
    IF a = b THEN a
    ELSE IF a.kind = "macros" /\ b.kind = "macros" THEN Macros(a.of \cup b.of)
    ELSE Ambiguous(a.of \cup b.of)

---------------------------------------------------------------------------
(* Tables: functions from a set of names.                                  *)

NoNames     == [n \in {} |-> 0]
Only(t, S)  == [n \in DOMAIN t \cap S |-> t[n]]

\* Table `over` laid over table `under`.
Over(over, under) ==
    [n \in DOMAIN over \cup DOMAIN under |-> IF n \in DOMAIN over THEN over[n] ELSE under[n]]

MergeTables(s, t) ==
    [n \in DOMAIN s \cup DOMAIN t |->
        IF n \notin DOMAIN t THEN s[n] ELSE IF n \notin DOMAIN s THEN t[n] ELSE Merge(s[n], t[n])]

\* A file's own names over what it imports; its macro overloads join.
Shadow(own, imported) ==
    [n \in DOMAIN own \cup DOMAIN imported |->
        IF n \notin DOMAIN own THEN imported[n]
        ELSE IF /\ n \in DOMAIN imported
                /\ own[n].kind = "macros" /\ imported[n].kind = "macros"
        THEN Macros(own[n].of \cup imported[n].of)
        ELSE own[n]]

\* Candidate tables, in import order.
Merged(tables) ==
    LET upto[k \in 0..Len(tables)] == IF k = 0 THEN NoNames ELSE MergeTables(upto[k - 1], tables[k])
    IN  upto[Len(tables)]

\* Explicit imports beat `*`.
Combined(explicit, glob) == Over(Merged(explicit), Merged(glob))

===========================================================================
