\* Two calls under way at a time, two servers whose aliases clash.
CONSTANTS
    t1 = t1  t2 = t2
    Calls = {t1, t2}
    Names <- MCNames
    Aliases <- MCAliases
    Qualified <- MCQualified
    Numbered <- MCNumbered
    MaxGrants = 3
    MaxConnections = 2
SPECIFICATION FairSpec
\* The gateway process may end.
CHECK_DEADLOCK FALSE
INVARIANTS
    TypeOK
    AliasesUnique
    ReleasesOnlyForgotten
    NothingDanglesIfPolite
PROPERTIES
    EveryCallAnswered
    NothingHeldAfterExit
