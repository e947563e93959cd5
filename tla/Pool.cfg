CONSTANTS
    c1 = c1
    c2 = c2
    c3 = c3
    overview = overview
    check = check
    event = event
    heartbeat = heartbeat
    Conns = {c1, c2, c3}
    Resources = {overview, check}
    Others = {heartbeat, event}
    MaxQueries = 2
    MaxRows = 2
SPECIFICATION FairSpec
INVARIANT TypeOK
INVARIANT NothingLeaks
INVARIANT NeverStuck
PROPERTY EveryRequestEnds
