SPECIFICATION Spec
CONSTANTS
    User = {ann, root}
    Administrator = {root}
    Address = {home}
    Password = {p1, p2}
    Request = {r1, r2, r3}
    Window = 1
    MaxFailures = 1
    MaxAddressFailures = 2
    Lifetime = 2
    MaxTime = 3
    MaxSalt = 2
SYMMETRY Alike
INVARIANTS
    SessionsFollowAccount
    GuessesBounded
PROPERTIES
    ChangesAreProved
CHECK_DEADLOCK FALSE
