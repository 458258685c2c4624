\* Three clients of one server whose card changes between two launches.
CONSTANTS
    n1 = n1  n2 = n2  c1 = c1  c2 = c2  c3 = c3
    hStdio = hStdio  hExe = hExe  hBare = hBare
    Names = {n1}
    Conns = {c1, c2, c3}
    Hashes = {hStdio, hExe, hBare}
    LaunchOf <- MCLaunchOf
    MaxGrants = 3
    JobObject = TRUE
    PromptAvailable = TRUE
SPECIFICATION BrokerSpec
SYMMETRY Interchangeable
INVARIANTS
    BrokerTypeOK
    OneDialog
PROPERTIES
    EngineKept
    KeepsQuestion
