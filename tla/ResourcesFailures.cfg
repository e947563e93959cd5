CONSTANTS
    r1 = r1
    r2 = r2
    r3 = r3
    v1 = v1
    v2 = v2
    d1 = d1
    d2 = d2
    NoRow = NoRow
    NoVersion = NoVersion
    VersionOf <- VersionByRow
    Admits <- Channels
    Ranges <- AnyVersion
    Bucket <- LowAndHigh
    Rows = {r1, r3}
    Versions = {v1, v2}
    Devices = {d1}
    Percentages <- Half
    Reports = {e1}
    Overviews = {o1}
    Threshold = 1
    AutoPause = TRUE
    Webhook = TRUE
    Failures = TRUE
    MaxContents = 1
    MaxEvents = 1
SPECIFICATION Spec
INVARIANT TypeOK
PROPERTY OnlyPublishGoesLive
PROPERTY ImplementsCatalogue
