SPECIFICATION Spec
CONSTANTS
    k1 = k1
    k2 = k2
    k3 = k3
    k4 = k4
    x = x
    y = y
    None = None
    Key <- SmallKeys
    Name <- SmallNames
    Bootstrap = k1
    BootstrapName = y
    Admin = {ann}
    Document <- Files
    MaxDepth = 3
    MaxOrganizations = 4
    MaxChanges = 2
    MaxTokens = 2
INVARIANTS
    TreeSound
    ImportMeetsNoConflict
PROPERTIES
    MovesLandActive
    AppliesWhatWasShown
