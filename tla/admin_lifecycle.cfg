SPECIFICATION Spec
CONSTANTS
    Users = {u1, u2, u3}
    Bootstrap = u1
    Operator = operator
    Requests = {r1, r2}
    Free = free
    Admission = {"role", "key"}
SYMMETRY Symmetry
INVARIANTS
    BlockedInBoth
    RowHasLogin
PROPERTIES
    SuperAdminRemains
    DisabledIsNotRevived
