SPECIFICATION Spec
CONSTANTS
    User = {ann}
    NoUser = nobody
    Title = {t1}
    RequestedType = {"TASK"}
    Assignable = {}
    RequestedStatus = {"TODO", "IN_PROGRESS", "DONE", "CANCELLED"}
    RequestedLink = {"RELATED", "DEPENDS_ON"}
    FirstAdmin = ann
    FirstSystemAdmins = {ann}
    MaxTicket = 3
    MaxVersion = 60
    MaxBatch = 1
    MaxRelation = 2
VIEW View
INVARIANTS
    HistoryReplaysState
    RelationsWellFormed
PROPERTIES
    FinishedTicketsFrozen
CHECK_DEADLOCK FALSE
