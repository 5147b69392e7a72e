SPECIFICATION Spec
CONSTANTS
    t1 = t1
    t2 = t2
    t3 = t3
    b1 = b1
    b2 = b2
    Users = {u1}
    NoUser = NoUser
    Tabs = {t1, t2}
    Browsers = {b1}
    BrowserOf <- OneBrowser
    MaxTokens = 3
    RefreshTtl = 0
    MaxNow = 1
SYMMETRY TabSymmetry
INVARIANT TypeOK
INVARIANT LineageOrder
INVARIANT BrowserKeepsSession
PROPERTY ClosedTokenStaysClosed
PROPERTY QuietUserNeedsLogin
PROPERTY DeactivatedUserGetsNoToken
PROPERTY TurnsAreSingleUse
