SPECIFICATION Spec
CONSTANTS
    sue = sue  lee = lee  None = None
    Usrs = {sue, lee}
    RoleOf <- MCRoleOf
    Pages = {"nodes", "usrs"}
    Failures = {0, 500}
    MaxCalls = 3
INVARIANT ShownUserHoldsSession
PROPERTIES LogoutIsFinal HiddenUntilAsked SpinnerEnds
CHECK_DEADLOCK FALSE
