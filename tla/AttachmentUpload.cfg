SPECIFICATION Spec
CONSTANTS
    Upload = {u1, u2}
    MaxVersion = 4
    MaxCrash = 1
INVARIANTS
    RowsHaveBlobs
    OrphansExcused
PROPERTIES
    KeepsPromise
    UploadsEnd
