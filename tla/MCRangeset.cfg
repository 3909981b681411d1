SPECIFICATION Spec
CONSTANTS
    Width = 3
    MaxRanges = 3
INVARIANTS
    Canonical
    QueriesExact
    ReportSound
PROPERTY
    IsNumberSet
