SPECIFICATION Spec
CONSTANTS
    root = root  file = file
    Nodes = {root, file}
    Roots = {root}
    Children <- MCChildren
    Terms = {a}
    TooShort = short
    None = None
    Groups = {g1, g2}
    Usrs = {u}
    Accounts = {"normal"}
    Start = g1
    Home = Home
    MaxOps = 4
INVARIANTS SettledIsCurrent FoundHere
PROPERTY GroupSpec
CHECK_DEADLOCK FALSE
