SPECIFICATION Spec
CONSTANTS
    root = root  g = g  w = w  l = l  NoNode = NoNode
    Requests = {r1, r2}
    Sweepers = {s1}
    NodeIds = {root, n1, n2, n3}
    Names = {a}
    Roots <- MCRoots
    Usrs <- MCBoth
    Role <- MCRole
    Groups <- MCGroups
    Members <- MCMembers
    RootGrants <- MCRootGrants
    Ops = {"create_folder", "create_file", "delete_node", "delete_file", "download"}
    Faults = {"put", "db", "commit", "remove"}
    MaxCrashes = 1
SYMMETRY Symmetric
CHECK_DEADLOCK FALSE
INVARIANTS TypeOK TreeWellFormed RowsAgree NoTornContent
PROPERTIES ContentLossHasCause LeakHasCause DeleteIsExact CatalogSpec
