CONSTANTS
    r1 = r1
    r2 = r2
    none = none
    MaxCode = 2
    Resources = {r1, r2}
    NoResource = none
    Offers <- OffersHere
    ResOffers <- ResOffersHere
    Stores = {"postgres", "demo"}
    InFlight = 2
SPECIFICATION FairSpec
INVARIANT TypeOK
INVARIANT RowTrue
PROPERTY RowCatchesUp
PROPERTY AppUpdates
PROPERTY ResourceUpdates
PROPERTY AppBlockEnds
