\* The single-flight claim of tests/test_target_matrix.py.
SPECIFICATION Spec
CONSTANTS
    t1 = t1
    Targets = {t1}
    Plans = {p1}
    Requests = {r1, r2}
    Contents = {"compose"}
    Snapshots = {"free"}
    ActionTypes <- MCActionTypes
    Forbidden <- MCForbidden
    NotImplemented <- MCNotImplemented
    Local <- MCLocal
    PlanTarget <- OneTarget
    Actions <- MCActions
    BlockedRisk <- MCBlockedRisk
    Checks <- MCChecks
    NoSnapshot = NoSnapshot
    NoPlan = NoPlan
    NoContent = NoContent
    MaxValidations = 1
    MaxApprovals = 1
    MaxEdits = 0
    MaxCrashes = 0
INVARIANT SingleFlight
CHECK_DEADLOCK FALSE
