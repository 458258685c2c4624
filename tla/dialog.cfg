\* Two requests about two cards of one server, two dialogs, a broker that may die.
CONSTANTS
    None = None  LowCaller = LowCaller
    r1 = r1  r2 = r2
    Requests = {r1, r2}
    Cards <- MCCards
    Callers = {LowCaller, "--title"}
    Platforms = {"windows", "unix"}
    MaxDialogs = 2
SPECIFICATION FairSpec
CHECK_DEADLOCK FALSE
INVARIANTS
    TypeOK
    ShownIsAsked
    SwapShown
    GrantsAreApproved
    NoDialogLingers
PROPERTY
    QuestionEnds
