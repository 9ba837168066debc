CONSTANTS
    e1 = e1
    e2 = e2
    c1 = c1
    t1 = t1
    t2 = t2
    Actors <- MCActors
    Endpoint <- MCEndpoint
    Pin <- MCPin
    NoPin = NoPin
    Token <- MCToken
    NoToken = NoToken
    Unread = Unread
    Free = Free
    Nothing = Nothing
    MaxHosts = 2
    MaxFaults = 2
    d1 = d1
    d2 = d2
    Tile <- MCTile
    NoTile = NoTile
    MaxUndo = 2
    MaxSteps = 5
    MaxEdits = 3
    MaxViews = 3
    MaxReads = 2
SPECIFICATION MCSpec
INVARIANTS
    PollSetFollowsStore
SYMMETRY MCSymmetry
