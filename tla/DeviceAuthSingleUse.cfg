SPECIFICATION Spec
CONSTANTS
    p1 = p1
    p2 = p2
    f1 = f1
    f2 = f2
    u1 = u1
    u2 = u2
    Users = {u1, u2}
    NoUser = NoUser
    Codes = {c1}
    Polls = {p1, p2}
    Forms = {f1, f2}
    Never = Never
    CodeTtl = 1
    PollInterval = 1
    UsedRetention = 1
    MaxApprovals = 2
    MaxGrants = 2
    MaxNow = 2
INVARIANT SingleUseCode
