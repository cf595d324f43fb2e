SPECIFICATION Spec
CONSTANTS
    User = {ann}
    NoUser = nobody
    Title = {t1}
    RequestedType = {"TASK"}
    Assignable = {}
    RequestedStatus = {"TODO", "IN_PROGRESS", "DONE", "CANCELLED"}
    RequestedLink = {"DEPENDS_ON"}
    FirstAdmin = ann
    FirstSystemAdmins = {ann}
    MaxTicket = 2
    MaxVersion = 60
    MaxBatch = 2
    MaxRelation = 1
VIEW View
INVARIANTS
    DependenciesOutsideTrash
CHECK_DEADLOCK FALSE
