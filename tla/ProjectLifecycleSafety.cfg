\* Three jobs, two approvals, a stop and a restart.
SPECIFICATION Spec
CONSTANTS
    Jobs = {j1, j2, j3}
    Approvers = {a1, a2}
    Stoppers = {s1}
    Deleters = {}
    Plans = {"first", "second"}
    Keys <- MCKeys
    Tasks <- MCTasks
    Edits = {}
    NoJob = NoJob
    NoPlan = NoPlan
    MaxCrashes = 1
INVARIANTS
    TypeOK
    OneJob
    StopStops
    RowPerTask
    ReportTruthful
    ApprovedPlanHeld
SYMMETRY Symmetry
CHECK_DEADLOCK FALSE
