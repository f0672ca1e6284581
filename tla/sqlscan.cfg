SPECIFICATION Spec
CONSTANTS
    Alphabets <- MCAlphabets
    MaxLen <- MCMaxLen
INVARIANTS
    SplitsAtVisibleSemicolons
    HiddenTextDecidesNothing
    ReadOnlyTextsOnlyRead
CHECK_DEADLOCK FALSE
