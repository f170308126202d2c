\* A main macro over a helper, loops in loops, recursion past both limits,
\* overloads; calls nest 3 deep and tail calls repeat twice.
SPECIFICATION FairSpec
CONSTANTS
    None = None
    MaxDepth = 3
    MaxTail = 2
    Labels <- MCLabels
    Programs <- MCPrograms
INVARIANTS
    Consistent
    Aligned
    Conforms
    BlamesInnermost
PROPERTY Terminates
