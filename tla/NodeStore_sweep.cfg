SPECIFICATION Spec
CONSTANTS
    root = root  g = g  w = w  l = l  NoNode = NoNode
    Requests = {r1}
    Sweepers = {s1}
    NodeIds = {root, n1, n2, n3}
    Names = {a, b}
    Roots <- MCRoots
    Usrs <- MCWriter
    Role <- MCRole
    Groups <- MCGroups
    Members <- MCMembers
    RootGrants <- MCRootGrants
    Ops = {"create_folder", "create_file", "delete_node"}
    Faults = {}
    MaxCrashes = 0
CHECK_DEADLOCK FALSE
INVARIANT DocsHaveContent
