SPECIFICATION Spec
CONSTANTS
    root = root  sub = sub  file = file  made = made  sent = sent
    Removed = Removed  Home = Home  None = None
    NodeIds = {root, sub, file, made, sent}
    Starts = {root}
    TypeOf <- MCTypeOf
    Placed <- MCPlaced
    Accounts <- MCAccounts
    MaxOps = 3
INVARIANTS GoneStaysGone SettledIsCurrent OfferedIsTaken
PROPERTY PageSpec
CHECK_DEADLOCK FALSE
