CONSTANTS
    github = github
    host = host
    account = account
    old = old
    new = new
    NoValue = NoValue
    NoJob = NoJob
    NoFile = NoFile
    Static <- MCStatic
    Host <- MCHost
    Vendor <- MCVendor
    Value <- MCValue
    Release <- MCRelease
    TlsSince = 2
    MaxMint = 3
    MaxScripts = 2
    Absent = Absent
    Partial = Partial
    runner = runner
    Here = Here
    Remote <- MCHost
    Name <- MCContainer
    Tools = 2
    Grace = 1
    LastTick = 2
SPECIFICATION MCSpec
INVARIANT NothingStranded
