SPECIFICATION Spec
CONSTANTS
    a = a
    b = b
    r1 = r1
    r2 = r2
    Accounts = {a, b}
    Initial = a
    SpelledAlike = TRUE
    TestUsers = {b}
    Requests = {r1, r2}
    Asked <- AskedOf
    Roles = {admin, viewer}
    Admin = admin
    DefaultRole = viewer
SYMMETRY RequestSymmetry
INVARIANT TypeOK
INVARIANT AdminRemains
PROPERTY AssignmentsReplace
INVARIANT AccessKept
