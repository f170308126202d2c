SPECIFICATION Spec
CONSTANT Inputs <- MCInputs
CHECK_DEADLOCK FALSE
INVARIANT LexemesAreLongest
INVARIANT SpelledIsRead
INVARIANT PrintedIsRead
INVARIANT MostLiteralWins
INVARIANT DeclaredWhereSeen
INVARIANT DocsAreAccounted
