SPECIFICATION FairSpec
CONSTANTS
    root = root  g = g  w = w  l = l  NoNode = NoNode
    Requests = {r1, r2}
    Sweepers = {s1}
    NodeIds = {root, n1, n2}
    Names = {a, b}
    Roots <- MCRoots
    Usrs <- MCWriter
    Role <- MCRole
    Groups <- MCGroups
    Members <- MCMembers
    RootGrants <- MCRootGrants
    Ops = {"create_folder", "create_file", "delete_node", "delete_file", "download"}
    Faults = {"put", "db", "close"}
    MaxCrashes = 0
CHECK_DEADLOCK FALSE
PROPERTIES SweptContentGoes
