SPECIFICATION Spec
CONSTANTS
    MaxParagraphs = 3
    Texts <- MCTexts
    Sizes = {0, 1, 2, 3, 4}
    BatchSize = 2
INVARIANTS TypeOK WholeRuns NoneInside Aligned
CHECK_DEADLOCK FALSE
