\* A build, an asked and a webhook review, redeliveries and a restart.
SPECIFICATION Spec
CONSTANTS
    Issues = {i1}
    NoIssue = NoIssue
    Strays = {}
    Builders = {b1}
    Reviewers = {r1, r2}
    Asked = {r1}
    Syncs = {}
    Creators = {c1}
    Checkers = {}
    Hooks = {h1, h2}
    MaxHead = 2
    MaxDeliveries = 2
    MaxCrashes = 1
INVARIANTS
    TypeOK
    ReviewOfItsDiff
    WorkedOnce
PROPERTIES
    SkipSound
SYMMETRY Symmetry
CHECK_DEADLOCK FALSE
