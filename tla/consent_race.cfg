\* Two writers overlap: the later one does not merge.
CONSTANTS
    n1 = n1  n2 = n2  h1 = h1  h2 = h2  broker = broker  cli = cli
    Procs = {broker, cli}
    Broker = broker
    Names = {n1, n2}
    Hashes = {h1}
    Worlds <- WritersOverlap
SPECIFICATION Spec
SYMMETRY Interchangeable
INVARIANTS
    FileIsCurrent
