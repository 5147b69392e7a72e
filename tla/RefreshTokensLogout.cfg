SPECIFICATION Spec
CONSTANTS
    t1 = t1
    t2 = t2
    t3 = t3
    b1 = b1
    b2 = b2
    Users = {u1}
    NoUser = NoUser
    Tabs = {t1, t2, t3}
    Browsers = {b1, b2}
    BrowserOf <- AllBrowsers
    MaxTokens = 3
    RefreshTtl = 0
    MaxNow = 1
PROPERTY LogoutIsSingleSession
