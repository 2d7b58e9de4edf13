\* Two syncs among a build, a merge, a stray pull request and a restart.
SPECIFICATION Spec
CONSTANTS
    Issues = {i1, x1}
    NoIssue = NoIssue
    Strays = {x1}
    Builders = {b1}
    Reviewers = {}
    Asked = {}
    Syncs = {s1, s2}
    Creators = {}
    Checkers = {k1}
    Hooks = {h1}
    MaxHead = 1
    MaxDeliveries = 2
    MaxCrashes = 1
INVARIANTS
    OfferedPRExists
    SyncRepairs
SYMMETRY Symmetry
CHECK_DEADLOCK FALSE
