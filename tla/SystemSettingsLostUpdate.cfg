SPECIFICATION Spec
CONSTANTS
    a1 = a1
    a2 = a2
    f1 = f1
    Admins = {a1, a2}
    Clients = {}
    ClientPatches <- FlagOn
    Documents <- BothOther
    Flags = {f1}
    UI = UI
    Absent = Absent
    MaxVersion = 3
SYMMETRY AdminSymmetry
PROPERTY NoLostUpdate
