\* Two builds of one issue, a webhook and two reviews; nothing restarts.
SPECIFICATION LiveSpec
CONSTANTS
    Issues = {i1}
    NoIssue = NoIssue
    Strays = {}
    Builders = {b1, b2}
    Reviewers = {r1, r2}
    Asked = {r1}
    Syncs = {}
    Creators = {c1}
    Checkers = {}
    Hooks = {h1}
    MaxHead = 1
    MaxDeliveries = 1
    MaxCrashes = 0
PROPERTIES
    FailureReleases
    OpenedIsReviewed
CHECK_DEADLOCK FALSE
