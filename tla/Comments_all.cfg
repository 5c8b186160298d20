SPECIFICATION Spec
CONSTANTS
    n1 = n1  n2 = n2  c1 = c1  c2 = c2  other = other
    Starts <- MCStarts
    NodeIds = {n1, n2}
    Remarks = {c1, c2}
    Me = me
    Authors = {me, other}
    Accounts <- MCAccounts
    None = None
    MaxOps = 3
INVARIANT TalkIsCurrent
PROPERTY TalkSpec
CHECK_DEADLOCK FALSE
