CONSTANTS
    r1 = r1
    r2 = r2
    r3 = r3
    v1 = v1
    v2 = v2
    d1 = d1
    d2 = d2
    NoRow = NoRow
    NoVersion = NoVersion
    VersionOf <- VersionByRow
    Admits <- Channels
    Ranges <- NoneOrAny
    Bucket <- LowAndHigh
    Rows = {r1, r2}
    Versions = {v1}
    Devices = {d1}
    Percentages <- HalfOrFull
    Reports = {e1}
    Overviews = {}
    Threshold = 1
    AutoPause = TRUE
    Webhook = FALSE
    Failures = FALSE
    MaxContents = 2
    MaxEvents = 1
SPECIFICATION FairSpec
INVARIANT PackagesNotOlder
INVARIANT AuditTruthful
PROPERTY ReportStops
PROPERTY StoppedLeavesDevices
