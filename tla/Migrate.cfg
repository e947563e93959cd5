CONSTANTS
    m1 = m1
    m2 = m2
    m3 = m3
    Migrators = {m1, m2, m3}
    LastFile = 3
SPECIFICATION FairSpec
INVARIANT TypeOK
INVARIANT AppliedOnceInOrder
INVARIANT DoneIsComplete
PROPERTY RunsComplete
