CONSTANTS
    p1 = p1
    p2 = p2
    r1 = r1
    r2 = r2
    r3 = r3
    src = src
    bare = bare
    Proc <- MCProc
    Bin <- MCBin
    Ver <- MCVer
    Feeds <- MCFeeds
    Authentic <- MCAuthentic
    Signed <- MCSigned
    Local <- MCLocal
    NoProc = NoProc
    Absent = Absent
    Partial = Partial
    Down = Down
SPECIFICATION Spec
INVARIANT HalfDoneIsTrue
