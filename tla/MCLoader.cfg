\* Graphs of 3 files with up to 2 imports each, diamonds of 4, seeds of 3.
SPECIFICATION FairSpec
CONSTANTS
    M = M
    A = A
    B = B
    C = C
    P = P
    Q = Q
    NoFile = NoFile
    Entry = M
    Files <- MCFiles
    Identifiers <- MCNames
    Patterns <- MCPatterns
    WorldSpace <- MCWorldSpace
INVARIANTS
    Consistent
    OverridesAgree
    ScopeIsVisibility
    CyclesReported
    ProgramIsClosed
PROPERTY Terminates
