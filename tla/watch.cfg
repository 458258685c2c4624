\* Three directories, one of them listed twice, that change twice while a client watches them.
CONSTANTS
    Roots <- MCRoots
    Labels = {"com", "notes", "mail"}
    Variables = {"HOME", "TMP"}
    Env <- MCEnv
    Path <- MCPath
    Programs <- MCPrograms
    Files <- MCFiles
    Contents <- MCContents
    Written <- MCWritten
    Installed <- MCInstalled
    MaxChanges = 2
SPECIFICATION FairSpec
\* A watcher that was closed has nothing left to do.
CHECK_DEADLOCK FALSE
INVARIANTS
    TypeOK
    CatalogAtRest
    SteadyCardsListed
    ReportIsCurrent
PROPERTY
    ChangesRead
