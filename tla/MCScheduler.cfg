SPECIFICATION Spec
CONSTANTS
    Job = {j1}
    Definition = {d1, d2, bad}
    Invalid = {bad}
    Process = {p1, p2}
    MaxStop = 1
INVARIANTS
    NoOverlap
    LateTriggersIgnored
    NoRunFromEarlierLife
PROPERTIES
    ResultsStay
    CrontabFollows
