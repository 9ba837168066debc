CONSTANTS
    Cadence = 2
    Longest = 1
    MaxRetry = 3
    Retry <- MCRetry
SPECIFICATION Spec
PROPERTIES
    OffNeverRead
