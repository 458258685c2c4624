\* Liveness and what clients may expect of their grants: two clients, no symmetry.
CONSTANTS
    n1 = n1  n2 = n2  c1 = c1  c2 = c2  c3 = c3
    hStdio = hStdio  hExe = hExe  hBare = hBare
    Names = {n1}
    Conns = {c1, c2}
    Hashes = {hStdio, hExe}
    LaunchOf <- MCLaunchOf
    MaxGrants = 3
    JobObject = TRUE
    PromptAvailable = TRUE
SPECIFICATION FairBrokerSpec
PROPERTIES
    KeepsGrants
    EveryRequestAnswered
    NothingLeftRunning
    IdleEventuallyStops
