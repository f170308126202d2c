\* A bare @return inside a branch, a loop or a fold.
SPECIFICATION Spec
CONSTANTS
    None = None
    MaxDepth = 3
    MaxTail = 2
    Labels <- MCLabels
    Programs <- MCBareReturns
INVARIANT Conforms
