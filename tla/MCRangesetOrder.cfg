SPECIFICATION Spec
CONSTANTS
    Width = 3
    MaxRanges = 3
INVARIANT
    Ascending
