CONSTANTS
    o1 = o1
    o2 = o2
    n1 = n1
    a1 = a1
    a2 = a2
    r1 = r1
    r2 = r2
    Org <- MCOrg
    Runner <- MCRunner
    Grace = 1
    AgeOut = 2
    Longest = 1
    Gone = Gone
    Account <- MCAccount
    Repo <- MCRepo
    Nobody = Nobody
    Untracked = Untracked
    GateRepo <- MCGateRepo
    MaxRun = 3
SPECIFICATION MCSpec
INVARIANTS
    RosterIsTrue
    NothingUnmentioned
    ToldOnceAtMost
PROPERTIES
    RowsFollowSelection
    ReadByItsOwner
    NeverSilent
