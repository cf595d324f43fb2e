SPECIFICATION Spec
CONSTANTS
    User = {ann, bob}
    Content = {c1, c2}
    FirstContent = c1
    FilterName = {n1}
    Definition = {d1}
    RequestedRole = {"USER"}
    Shared = shared
    MaxVersion = 4
    MaxFilter = 0
    MaxTime = 1
    PageMixes <- EditOnly
PROPERTIES
    NothingOverwrittenUnseen
