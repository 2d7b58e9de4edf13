\* One delivery, retried, and a restart.
SPECIFICATION Spec
CONSTANTS
    Issues = {i1}
    NoIssue = NoIssue
    Strays = {}
    Builders = {}
    Reviewers = {r1}
    Asked = {}
    Syncs = {}
    Creators = {c1}
    Checkers = {}
    Hooks = {h1, h2}
    MaxHead = 1
    MaxDeliveries = 1
    MaxCrashes = 1
INVARIANTS
    DuplicateWasProcessed
CHECK_DEADLOCK FALSE
