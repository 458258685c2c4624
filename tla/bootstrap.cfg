\* Two clients and two broker processes, on either platform.
CONSTANTS
    c1 = c1  c2 = c2  b1 = b1  b2 = b2
    Nobody = Nobody
    Clients = {c1, c2}
    Processes = {b1, b2}
    Platforms = {"windows", "unix"}
    MaxAttempts = 2
SPECIFICATION FairSpec
\* Connected clients and brokers that serve may stay so.
CHECK_DEADLOCK FALSE
INVARIANTS
    TypeOK
    OneBrokerOnPipe
    LabelPending
PROPERTY
    EveryConnectEnds
