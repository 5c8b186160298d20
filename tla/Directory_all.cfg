SPECIFICATION Spec
CONSTANTS
    MaxItems = 2
    PageSize = 1
    Terms = {all, some}
    All = all
    Texts = {"other", "match"}
    Matches <- MCMatches
    Starts <- MCStarts
    None = None
    MaxOps = 3
INVARIANT SettledIsCurrent
PROPERTY RowsSpec
CHECK_DEADLOCK FALSE
