CONSTANTS
    e1 = e1
    r1 = r1
    r2 = r2
    d1 = d1
    d2 = d2
    u1 = u1
    dev = dev
    stable = stable
    NoRow = NoRow
    Lines = {dev, stable}
    LineOf <- OnDev
    CodeOf <- Codes
    NumberOf <- Numbers
    Asks <- AskDev
    UserOf <- OneUser
    Bucket <- LowAndHigh
    Rows = {r1}
    EnvRow = NoRow
    Devices = {d1, d2}
    Creates = {c1, c2}
    Targets <- ForOneDevice
    Percentages <- HalfOrFull
    Failures = TRUE
    MaxTime = 1
SPECIFICATION Spec
INVARIANT TypeOK
INVARIANT SerialCreateTargets
PROPERTY RolloutKeepsAudience
