SPECIFICATION MCUnrollSpec
CONSTANTS
    UnrollPrograms <- MCPrograms
    MaxForIterations = 3
INVARIANTS
    MeansTheSame
    UnrolledStays
