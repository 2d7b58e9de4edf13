\* Two builds of one project, or previews of two, a person or a restart.
CONSTANTS
    Issues = {i1, i2}
    Main = Main
    Person = Person
    Builders = {b1, b2}
    Reworks = {b2}
    Previews = {v1, v2, v3}
    Automatic = {v2}
    Projects = {p1, p2}
    b1 = b1  b2 = b2
    v1 = v1  v2 = v2  v3 = v3
    i1 = i1  i2 = i2
    p1 = p1  p2 = p2
    HostName = 9
    MaxTurns = 1
    MaxDisturbed = 1
    Fix <- MCFix
    Shows <- MCShows
    ProjectOf <- MCProjectOf
    Ports <- MCPorts
    Worked <- MCWorked
    Mixes <- MCMixes
SPECIFICATION Spec
CHECK_DEADLOCK FALSE
INVARIANTS
    TypeOK
    OwnWorkPushed
    LeaseKept
    ServesAsked
    UrlServed
    PortClashOnlyFromRace
