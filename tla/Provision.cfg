\* Planning again, beside another project, and with supplied credentials.
CONSTANTS
    p1 = p1  p2 = p2  p3 = p3  p4 = p4
    r1 = r1  r2 = r2  r3 = r3  r4 = r4  r5 = r5
    t1 = t1  t2 = t2
    Projects = {p1, p2, p3, p4}
    Runs = {r1, r2, r3, r4, r5}
    ProjectOf <- MCProjectOf
    Stored = {p1, p2, p3}
    Supplied = {p4}
    SuppliedTables = {t1}
    Tables = {t1, t2}
    Answers <- MCAnswers
    SharedRoles <- MCSharedRoles
    NoRun = NoRun
    Mixes <- MCMixes
    Deleted = {p1}
    MaxFaults = 1
SPECIFICATION FairSpec
CHECK_DEADLOCK FALSE
INVARIANTS
    TypeOK
    SavedCredentialsServe
    WrittenTablesLive
    
PROPERTIES
    FailureHasCause
    PlanningEnds
