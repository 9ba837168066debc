CONSTANTS
    Cadence = 2
    Longest = 1
    MaxRetry = 3
    Retry <- MCRetry
SPECIFICATION FairSpec
INVARIANTS
    ReadingsFollowOptIns
    AlarmInTime
PROPERTIES
    NotAskedTooSoon
    DueIsRead
