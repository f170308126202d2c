----------------------------- MODULE Resolution ---------------------------
(* What a compiler pass does before any statement is expanded              *)
(* (`resolve_and_expand` and `resolve_structs_and_aliases` of              *)
(* src/src/main.rs): fold the constants that look like integers, resolve   *)
(* the types, and value all constants.                                     *)
EXTENDS TypeResolution, Constants

CONSTANT Declarations   \* [types : a member of Programs, consts : one of ConstPrograms]

ASSUME DeclarationAssumption ==
    \A d \in Declarations : d.types \in Programs /\ d.consts \in ConstPrograms

DeclInit == \E d \in Declarations : InitFor(d.types) /\ ConstInitFor(d.consts)

EvaluateConstants == ConstStep /\ UNCHANGED vars
ResolveTypes      == stage = "folded" /\ Resolving /\ UNCHANGED constVars
ValueConstants    == phase = "done" /\ StartValues /\ UNCHANGED vars

Settled  == stage \in {"refused", "valued"} \/ phase = "failed"
RunEnded == Settled /\ UNCHANGED <<vars, constVars>>

DeclNext == EvaluateConstants \/ ResolveTypes \/ ValueConstants \/ RunEnded
DeclSpec == DeclInit /\ [][DeclNext]_<<vars, constVars>> /\ WF_<<vars, constVars>>(DeclNext)

\* What is reported as a circle, of types or of constants, is one: it ends
\* where it began, and each declaration in it needs the next.
ReportsAreCircles == CyclesAreReal /\ CirclesAreReal

\* Every program's declarations are accepted or refused.
Terminates == <>Settled

===========================================================================
