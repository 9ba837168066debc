CONSTANTS
    g1 = g1
    g2 = g2
    Gateway <- MCGateway
    NoGateway = NoGateway
    NoToken = NoToken
    MaxLevel = 2
    Cadence <- MCCadence
    Interval = 3
    Settle = 2
    Newest = 3
    Tasks = 2
SPECIFICATION MCSpec
INVARIANTS
    ClawInv
    UsageInv
    GuardInv
    AppInv
PROPERTIES
    SessionFollowsSettings
    HalvesKeepTheirOwnTime
    AttemptsArePaced
