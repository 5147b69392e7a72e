SPECIFICATION SettingsSpec
CONSTANTS
    a1 = a1
    a2 = a2
    f1 = f1
    Admins = {a1, a2}
    Clients = {a1, a2}
    ClientPatches <- FlagOn
    Documents <- BothOther
    Flags = {f1}
    UI = UI
    Absent = Absent
    MaxVersion = 3
    t1 = t1
    t2 = t2
    Tabs = {t1, t2}
    Callers = {t2}
    System = System
    Dark = Dark
    Themes = {System, Dark}
    SystemTheme = System
    n1 = n1
    Names = {n1}
    Empty = Empty
    Unset = Unset
    SentChanges <- ClearName
    SentDocuments <- ForgetName
    MaxSaves = 3
    m0 = m0
    m1 = m1
    Members = {m1}
    Administrator = m0
    e1 = e1
    Emails = {e1}
    All = All
    s1 = s1
    Searches = {All, s1}
    Pages = {1, 2}
    r1 = r1
    r2 = r2
    Slots = {r1, r2}
    MaxChanges = 2
SYMMETRY Symmetry
INVARIANT TypeOK
INVARIANT PageIsSnapshot
INVARIANT AuditTrail
PROPERTY UnracedSaveSawTheRow
INVARIANT TabIsSnapshot
INVARIANT NamesAgree
INVARIANT ShownIsFresh
INVARIANT ListedIsAsked
