\* Two libraries whose seeds meet in one importer.
SPECIFICATION Spec
CONSTANTS
    M = M
    A = A
    B = B
    C = C
    P = P
    Q = Q
    NoFile = NoFile
    Entry = M
    Files <- MCFiles
    Identifiers <- MCNames
    Patterns <- MCPatterns
    WorldSpace <- MCSeedSpace
INVARIANT NeverPanics
