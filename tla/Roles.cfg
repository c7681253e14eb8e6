SPECIFICATION Spec
CONSTANTS
    administrator = administrator
    other = other
    Users = {u1, u2}
    AllRoles <- MCRoleSet
    SystemGrants <- MCSystemGrants
    Transactions = {t1, t2}
    MaxEdits = 1
    Nobody = Nobody
CHECK_DEADLOCK FALSE
SYMMETRY Symmetry
INVARIANTS
    FlagsFollowRoles
