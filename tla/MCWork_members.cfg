SPECIFICATION Spec
CONSTANTS
    User = {ann, bob}
    NoUser = nobody
    Title = {t1}
    RequestedType = {"TASK"}
    Assignable = {ann, bob}
    RequestedStatus = {"TODO", "IN_PROGRESS", "DONE", "ON_HOLD", "CANCELLED"}
    RequestedLink = {}
    FirstAdmin = ann
    FirstSystemAdmins = {ann}
    MaxTicket = 1
    MaxVersion = 60
    MaxBatch = 2
    MaxRelation = 0
VIEW View
INVARIANTS
    TypeOK
    OpenWorkHasWriter
    StampsMatchStatus
    AdministratorsRemain
PROPERTIES
    StartedOnce
    InactiveProjectFrozen
CHECK_DEADLOCK FALSE
