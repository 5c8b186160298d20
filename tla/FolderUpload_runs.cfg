SPECIFICATION Spec
CONSTANTS
    root = root  a = a  b = b  fa = fa  fb = fb  Top = Top  None = None
    Folders = {root, a, b}
    Files = {fa, fb}
    Parent <- MCParent
    Depth <- MCDepth
    Dests = {d1, d2}
    Limit = 2
    Refusals = {a, fa}
    Losses = {b, fb}
    MaxRuns = 3
CHECK_DEADLOCK FALSE
INVARIANTS ListIsTrue LandsWhereAsked FullyCounted
PROPERTIES ParentsComeFirst CancelEnds
