CONSTANTS
    a1 = a1
    a2 = a2
    a3 = a3
    none = none
    u1 = u1
    d1 = d1
    Artifacts = {a1, a2, a3}
    NoArtifact = none
    CodeOf <- Codes
    Built = {a2, a3}
    Numbers = {1, 2}
    Stores = {"postgres", "demo"}
    SeedNumber = 1
    SeedArtifact = a1
    EnvNumber = 2
    EnvArtifact = a1
    Uploads = {u1}
    Devices = {d1}
    MaxBuilds = 2
SPECIFICATION FairSpec
INVARIANT TypeOK
INVARIANT LastUploadServed
INVARIANT OfferSum
PROPERTY CopyIsKept
PROPERTY LinkReachesDevices
