\* One plan, an outside edit, two requests racing validations and an approval,
\* and a restart at any point.
SPECIFICATION FairSpec
CONSTANTS
    t1 = t1
    Targets = {t1}
    Plans = {p1}
    Requests = {r1, r2}
    Contents <- MCContents
    Snapshots = {"free", "busy"}
    ActionTypes <- MCActionTypes
    Forbidden <- MCForbidden
    NotImplemented <- MCNotImplemented
    Local <- MCLocal
    PlanTarget <- OneTarget
    Actions <- MCActions
    BlockedRisk <- MCBlockedRisk
    Checks <- MCChecks
    NoSnapshot = NoSnapshot
    NoPlan = NoPlan
    NoContent = NoContent
    MaxValidations = 2
    MaxApprovals = 1
    MaxEdits = 1
    MaxCrashes = 1
INVARIANTS
    TypeOK
    ExecutedContentAuthorised
    PreparedRunIsExecutable
    GuardHonest
    InterleavingOnlyFromRace
    StepLogFaithful
PROPERTIES
    PromiseKept
    RunFinishes
CHECK_DEADLOCK FALSE
