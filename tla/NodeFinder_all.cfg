SPECIFICATION FinderSpec
CONSTANTS
    Terms = {a, b}
    TooShort = short
    Filters = {any, pdf}
    NoFilter = any
    NoRequest = NoRequest
    MaxPages = 2
    MaxSteps = 5
INVARIANT ShownMatchesInputs
PROPERTY SearchSettles
CHECK_DEADLOCK FALSE
