SPECIFICATION Spec
CONSTANTS
    User = {ann, bob}
    Content = {c1, c2}
    FirstContent = c1
    FilterName = {n1, n2}
    Definition = {d1, d2}
    RequestedRole = {"NONE", "GUEST", "ADMIN"}
    Shared = shared
    MaxVersion = 4
    MaxFilter = 2
    MaxTime = 2
    PageMixes <- Mixes
SYMMETRY Alike
INVARIANTS
    FilterNamesDistinct
PROPERTIES
    SavesReplaceWhatWasShown
    SwitchesWhatWasShown
    ChangesRowsAsShown
