CONSTANTS
    h1 = h1
    h2 = h2
    v1 = v1
    v2 = v2
    Host <- MCHost
    Threshold = 2
    Vendor <- MCVendor
    Credentialed <- MCCredentialed
    ProcessTicks = 2
    StaleIntervals = 2
    ProbeInterval = 2
    ProbeTimeout = 1
    MaxPanics = 1
    Placeholder = Placeholder
    NoRows = NoRows
SPECIFICATION MCSpec
INVARIANTS
    CardsAreDebounced
    PanelIsOfTheList
    SamplerInv
PROPERTIES
    HostsAreTold
    VendorsAreTold
    FreshAgain
