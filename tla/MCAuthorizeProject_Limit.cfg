CONSTANTS
    c1 = c1
    u1 = u1
    u2 = u2
    tA = tA
    tB = tB
    p1 = p1
    p2 = p2
    p3 = p3
    n1 = n1
    n2 = n2
    UnknownClient = cx
    NoUri = nouri
    NoState = nostate
    NoToken = notoken
    NoProject = noproject
    Unloaded = notloaded
    NoRequest = norequest
    MaxProjects = 3
    Clients <- MCClients
    Uris <- MCUris
    Allowed <- MCAllowed
    ResponseTypes <- MCResponseTypes
    States <- MCStates
    Teams <- MCTeams
    Projects <- MCProjects2
    InitialProjects <- MCInitialProjects
    NewProjects <- MCNewProjects2

SPECIFICATION Spec
INVARIANT CreatesWithinLimit
