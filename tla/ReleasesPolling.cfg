CONSTANTS
    e1 = e1
    r1 = r1
    r2 = r2
    d1 = d1
    d2 = d2
    u1 = u1
    dev = dev
    stable = stable
    NoRow = NoRow
    Lines = {dev, stable}
    LineOf <- OnDev
    CodeOf <- Codes
    NumberOf <- Numbers
    Asks <- AskDev
    UserOf <- OneUser
    Bucket <- LowAndHigh
    Rows = {e1, r1}
    EnvRow = e1
    Devices = {d1}
    Creates = {c1}
    Targets <- ForAll
    Percentages <- Half
    Failures = FALSE
    MaxTime = 2
SPECIFICATION FairSpec
PROPERTY WithdrawalReachesDevices
PROPERTY BestOfferReachesDevices
PROPERTY NotBeforeSchedule
INVARIANT ColumnsAgree
PROPERTY WithdrawnStaysWithdrawn
