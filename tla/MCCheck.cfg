SPECIFICATION Spec
CONSTANT Inputs <- MCInputs
CONSTANT Packages <- MCPackages
CHECK_DEADLOCK FALSE
INVARIANT LevelsAsSaid
INVARIANT ExpectationsKept
INVARIANT UnusedIsUnsaid
INVARIANT FoldsWithoutNext
