SPECIFICATION Spec
CONSTANTS
    User = {ann}
    NoUser = nobody
    Title = {t1}
    RequestedType = {"EPIC", "TASK", "SUBTASK"}
    Assignable = {}
    RequestedStatus = {}
    RequestedLink = {}
    FirstAdmin = ann
    FirstSystemAdmins = {ann}
    MaxTicket = 4
    MaxVersion = 60
    MaxBatch = 3
    MaxRelation = 0
VIEW View
INVARIANTS
    ParentsInPlace
    BatchesAreUnits
PROPERTIES
    TrashKeepsTickets
CHECK_DEADLOCK FALSE
