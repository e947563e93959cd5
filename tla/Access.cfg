CONSTANTS
    admin = admin
    reader = reader
    sys = sys
    rel = rel
    entry = entry
    q1 = q1
    q2 = q2
    Accounts = {admin, reader}
    TokenAccounts = {admin, reader}
    RoleCodes = {sys, rel}
    Grants <- AllGrants
    Entries = {entry}
    SeedUsers <- UsersHere
    SeedRoles <- RolesHere
    SeedEntries <- EntriesHere
    Requests = {q1, q2}
    Routed <- RoutedHere
    Stores = {"postgres", "demo"}
    MaxUsers = 3
    MaxRoles = 3
    MaxEntries = 1
SYMMETRY Alike
SPECIFICATION Spec
INVARIANT TypeOK
INVARIANT ServedHeld
INVARIANT ShownHeld
INVARIANT DisabledIsOut
PROPERTY LockoutIsFinal
