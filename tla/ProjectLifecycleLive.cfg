\* Two jobs, an approval, a stop, a delete and an edit: every job ends.
SPECIFICATION FairSpec
CONSTANTS
    Jobs = {j1, j2}
    Approvers = {a1}
    Stoppers = {s1}
    Deleters = {d1}
    Plans = {"first", "empty"}
    Keys <- MCKeys
    Tasks <- MCTasks
    Edits = {"first"}
    NoJob = NoJob
    NoPlan = NoPlan
    MaxCrashes = 0
PROPERTY JobsFinish
CHECK_DEADLOCK FALSE
