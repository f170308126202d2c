SPECIFICATION MCUnrollSpec
CONSTANTS
    UnrollPrograms <- MCNested
    MaxForIterations = 4
INVARIANT
    LoopVariablesStay
