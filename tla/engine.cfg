\* Two servers, two clients, three grants: a stdio, an executable and an endpointless launch.
CONSTANTS
    n1 = n1  n2 = n2  c1 = c1  c2 = c2
    hStdio = hStdio  hExe = hExe  hBroken = hBroken
    Names = {n1, n2}
    Conns = {c1, c2}
    Hashes = {hStdio, hExe, hBroken}
    LaunchOf <- MCLaunchOf
    MaxGrants = 3
    JobObject = TRUE
SPECIFICATION Spec
SYMMETRY Interchangeable
INVARIANTS
    TypeOK
    RefcountExact
    ClaimedOrTimed
    ProcsAccounted
PROPERTIES
    StopsOnlyUnclaimed
    LaunchApproved
    KeepsLifetime
