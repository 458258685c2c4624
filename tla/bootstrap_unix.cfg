\* Two brokers start at once where the address is a socket file.
CONSTANTS
    c1 = c1  c2 = c2  b1 = b1  b2 = b2
    Nobody = Nobody
    Clients = {c1, c2}
    Processes = {b1, b2}
    Platforms = {"unix"}
    MaxAttempts = 2
SPECIFICATION Spec
CHECK_DEADLOCK FALSE
INVARIANT
    OneBroker
