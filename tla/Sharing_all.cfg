SPECIFICATION Spec
CONSTANTS
    sue = sue  sam = sam  nora = nora  lee = lee
    name1 = name1  name2 = name2  name3 = name3  None = None
    Requests = {r1, r2}
    UsrIds = {sue, sam, nora, lee}
    RoleOf <- MCRoleOf
    Settled = {sue, nora}
    FirstName <- MCFirstName
    NewGroups = {g}
    RootGroup = rg  UsrRoot = ur  SharedRoot = sr
    UsrNames = {name1, name2, name3}
    GroupNames = {name2}
    Levels = {"read_only", "write"}
    MaxRequests = 3
SYMMETRY Symmetric
CHECK_DEADLOCK FALSE
INVARIANTS RowsRefer LimitedOnlyReads
PROPERTIES SupersAreNotAssigned NewAccountsWhole ClosedForGood
