------------------------------- MODULE Access -------------------------------
(***************************************************************************)
(* Who may administer: the RBAC middleware of the admin routes and the     *)
(* system tables it reads, which are written through those same routes.    *)
(*                                                                         *)
(* A request is authorised by one read of the tables, is served later by   *)
(* one statement, and the permission is not read again, except by the      *)
(* system overview, whose answer is filtered by a second read.  The tables *)
(* are those of PostgresStore, where a row is saved over the row with its  *)
(* key, or of DemoStore, where it is put before the rows there are and a   *)
(* restart brings the seed back.  Rows are held newest first and an index  *)
(* stands for an id.                                                       *)
(*                                                                         *)
(* Without a configured token every request is served unasked; that server *)
(* has nothing to check.                                                   *)
(***************************************************************************)
EXTENDS Integers, Sequences

CONSTANTS
    Accounts,      \* system_users.account values, the token accounts among them
    TokenAccounts, \* the accounts ADMIN_TOKEN and ADMIN_TOKEN_ACCOUNTS name
    RoleCodes,     \* system_roles.code values
    Grants,        \* system_roles.permissions values an administrator may save
    Entries,       \* keys of system_permissions, _dictionaries and _menus
    SeedUsers,     \* the users, roles and entries of the second migration and
    SeedRoles,     \* of demoSystemManagementOverview
    SeedEntries,
    Requests,      \* admin requests in flight at once
    Routed,        \* the permissions of the routes asked for
    Stores,        \* the stores the server may be configured with
    MaxUsers,      \* bounds on the rows of the tables
    MaxRoles,
    MaxEntries

Perm(module, verb) == [module |-> module, verb |-> verb]
Everything == Perm("*", "*")
AdminAccess == Perm("admin", "access")
SystemRead == Perm("system", "read")
SystemWrite == Perm("system", "write")
ReleaseRead == Perm("release", "read")

User == [account: Accounts, role: RoleCodes, enabled: BOOLEAN]
Role == [code: RoleCodes, permissions: Grants, enabled: BOOLEAN]
Entry == [key: Entries, enabled: BOOLEAN]
Parts == {"dashboard", "release-center", "system"}

ASSUME AccountsAssumption ==
    /\ TokenAccounts \subseteq Accounts
    /\ Stores \subseteq {"postgres", "demo"}

ASSUME SeedAssumption ==
    /\ SeedUsers \in Seq(User)
    /\ SeedRoles \in Seq({role \in Role : role.permissions # {}})
    /\ SeedEntries \in Seq(Entry)
    /\ MaxUsers \in Nat /\ MaxRoles \in Nat /\ MaxEntries \in Nat

(* UNIQUE (tenant_id, account) and UNIQUE (tenant_id, code)                *)
ASSUME KeysAssumption ==
    /\ \A i, j \in DOMAIN SeedUsers : SeedUsers[i].account = SeedUsers[j].account => i = j
    /\ \A i, j \in DOMAIN SeedRoles : SeedRoles[i].code = SeedRoles[j].code => i = j

VARIABLES
    store,      \* which store the server is configured with
    users,      \* system_users
    roles,      \* system_roles
    entries,    \* system_permissions, system_dictionaries, system_menus
    request,    \* admin requests after the middleware has looked up the account
    held        \* history: the permissions of Routed and SystemRead that the
                \* account of a request has had at some moment of it

tables == <<users, roles, entries>>
vars == <<store, users, roles, entries, request, held>>

Idle == [step |-> "idle"]
Steps == {"authorise", "serve", "filter"}

TypeOK ==
    /\ store \in Stores
    /\ users \in Seq(User)
    /\ roles \in Seq(Role)
    /\ store = "postgres" => \A j \in DOMAIN roles : roles[j].permissions # {}
    /\ entries \in Seq(Entry)
    /\ request \in [Requests ->
            {Idle} \cup [step: Steps, account: TokenAccounts, permission: Routed]
                   \cup [step: {"answered"}, account: TokenAccounts, parts: SUBSET Parts]]
    /\ held \in [Requests -> SUBSET (Routed \cup {SystemRead})]

-----------------------------------------------------------------------------
(* Broken variants of definitions below.  Nothing uses them: replacing the *)
(* definition each is named after by it makes the property in its comment  *)
(* fail, which shows that the property depends on that piece of the code.  *)

(* TypeOK: the empty list of permissions is saved.                         *)
CreateSystemRole_Null(row) ==
    /\ roles' = << row >> \o roles
    /\ Len(roles') <= MaxRoles
    /\ UNCHANGED <<users, entries>>

(* DisabledIsOut: the insert has no "on conflict".                         *)
Upsert_Insert(rows, same, row) == <<row>> \o rows

(* ShownHeld: everything is shown to every active account.                 *)
Filtered_Active(account) ==
    IF \E i \in DOMAIN users : users[i].account = account /\ users[i].enabled
    THEN Parts ELSE {}

-----------------------------------------------------------------------------
(* Authorisation                                                           *)

permissionsAllow(permissions, required) ==
    \/ required = AdminAccess
    \/ Everything \in permissions
    \/ required \in permissions
    \/ Perm(required.module, "*") \in permissions
    \/ required.verb = "read" /\ Perm(required.module, "write") \in permissions

(* accountPermissionsFromOverview: the first row of the account decides,   *)
(* disabled roles are passed over.  Where keys are unique this is the join *)
(* of AdminRolePermissions.  An account without an active role has none.   *)
First(found) == {i \in found : \A j \in found : i <= j}

RolesOf(us, rs, account) ==
    LET mine == First({i \in DOMAIN us : us[i].account = account})
    IN  First({j \in DOMAIN rs : \E i \in mine :
                  us[i].enabled /\ rs[j].code = us[i].role /\ rs[j].enabled})

AllowedBy(us, rs, account, permission) ==
    \E j \in RolesOf(us, rs, account) : permissionsAllow(rs[j].permissions, permission)

Allowed(account, permission) == AllowedBy(users, roles, account, permission)

(* FilterSystemManagementOverview                                          *)
Filtered(account) ==
    {part \in Parts : CASE part = "dashboard" -> Allowed(account, AdminAccess)
                        [] part = "release-center" -> Allowed(account, ReleaseRead)
                        [] part = "system" -> \/ Allowed(account, SystemRead)
                                              \/ Allowed(account, SystemWrite)}

-----------------------------------------------------------------------------
(* The tables.  Saving a row of a known key replaces the row, and enables  *)
(* it again unless the request says otherwise; DemoStore has two rows then.*)

Prepend(rows, row) == <<row>> \o rows

Upsert(rows, same, row) ==
    IF same = {} THEN Prepend(rows, row)
    ELSE [i \in DOMAIN rows |-> IF i \in same THEN row ELSE rows[i]]

Put(rows, same, row) ==
    IF store = "postgres" THEN Upsert(rows, same, row) ELSE Prepend(rows, row)

CreateSystemUser(row) ==
    /\ users' = Put(users, {i \in DOMAIN users : users[i].account = row.account}, row)
    /\ Len(users') <= MaxUsers
    /\ UNCHANGED <<roles, entries>>

SystemUserAction(i, enabled) ==
    /\ users' = [users EXCEPT ![i].enabled = enabled]
    /\ UNCHANGED <<roles, entries>>

(* PostgresStore sends an empty list as null, which the column refuses.    *)
CreateSystemRole(row) ==
    /\ store = "postgres" => row.permissions # {}
    /\ roles' = Put(roles, {i \in DOMAIN roles : roles[i].code = row.code}, row)
    /\ Len(roles') <= MaxRoles
    /\ UNCHANGED <<users, entries>>

SystemRoleAction(i, enabled) ==
    /\ roles' = [roles EXCEPT ![i].enabled = enabled]
    /\ UNCHANGED <<users, entries>>

(* CreateSystemPermission, CreateSystemDictionary and CreateSystemMenu.    *)
(* No authorisation reads what they write.                                 *)
CreateSystemEntry(row) ==
    /\ entries' = Put(entries, {i \in DOMAIN entries : entries[i].key = row.key}, row)
    /\ Len(entries') <= MaxEntries
    /\ UNCHANGED <<users, roles>>

SystemEntryAction(i, enabled) ==
    /\ entries' = [entries EXCEPT ![i].enabled = enabled]
    /\ UNCHANGED <<users, roles>>

(* An id nobody has is answered with an error and changes nothing.         *)
WriteTables ==
    \/ \E row \in User : CreateSystemUser(row)
    \/ \E i \in DOMAIN users, enabled \in BOOLEAN : SystemUserAction(i, enabled)
    \/ \E row \in Role : CreateSystemRole(row)
    \/ \E i \in DOMAIN roles, enabled \in BOOLEAN : SystemRoleAction(i, enabled)
    \/ \E row \in Entry : CreateSystemEntry(row)
    \/ \E i \in DOMAIN entries, enabled \in BOOLEAN : SystemEntryAction(i, enabled)
    \/ UNCHANGED tables

-----------------------------------------------------------------------------
(* A request                                                               *)

Watched == Routed \cup {SystemRead}

(* What the accounts of the requests hold now is added to what they held.  *)
Witness ==
    held' = [q \in Requests |->
                IF request'[q] = Idle THEN {}
                ELSE held[q] \cup {p \in Watched :
                        AllowedBy(users', roles', request'[q].account, p)}]

(* The middleware finds the account of the bearer token.                   *)
Arrive(q, account, permission) ==
    /\ request[q] = Idle
    /\ request' = [request EXCEPT ![q] = [step |-> "authorise", account |-> account,
                                          permission |-> permission]]
    /\ UNCHANGED <<store, tables>>
    /\ Witness

(* ServedHeld, LockoutIsFinal: the status of the user is not looked at.    *)
Authorise_AnyStatus(q) ==
    /\ request[q].step = "authorise"
    /\ request' = [request EXCEPT ![q] =
                       IF \E i \in DOMAIN users, j \in DOMAIN roles :
                              /\ users[i].account = @.account
                              /\ roles[j].code = users[i].role /\ roles[j].enabled
                              /\ permissionsAllow(roles[j].permissions, @.permission)
                       THEN [@ EXCEPT !.step = "serve"] ELSE Idle]
    /\ UNCHANGED <<store, tables>>
    /\ Witness

(* AdminHasPermission: the handler runs, or the answer is 403.             *)
Authorise(q) ==
    /\ request[q].step = "authorise"
    /\ request' = [request EXCEPT ![q] =
                       IF Allowed(@.account, @.permission) THEN [@ EXCEPT !.step = "serve"]
                       ELSE Idle]
    /\ UNCHANGED <<store, tables>>
    /\ Witness

(* The routes of system:write.                                             *)
ServeWrite(q) ==
    /\ request[q].step = "serve"
    /\ request[q].permission = SystemWrite
    /\ WriteTables
    /\ request' = [request EXCEPT ![q] = Idle]
    /\ UNCHANGED store
    /\ Witness

(* GET of the overview and of the lists: one handler, which reads all the  *)
(* tables and then filters.                                                *)
ServeOverview(q) ==
    /\ request[q].step = "serve"
    /\ request[q].permission \in {AdminAccess, SystemRead}
    /\ request' = [request EXCEPT ![q].step = "filter"]
    /\ UNCHANGED <<store, tables>>
    /\ Witness

FilterOverview(q) ==
    /\ request[q].step = "filter"
    /\ request' = [request EXCEPT ![q] = [step |-> "answered", account |-> @.account,
                                          parts |-> Filtered(@.account)]]
    /\ UNCHANGED <<store, tables>>
    /\ Witness

(* The answer is sent.  A release route changes nothing here, and a        *)
(* request may fail or be given up at any of its steps.                    *)
EndRequest(q) ==
    /\ request[q] # Idle
    /\ request' = [request EXCEPT ![q] = Idle]
    /\ UNCHANGED <<store, tables>>
    /\ Witness

(* The server stops and starts again.  DemoStore begins with the seed.     *)
Restart ==
    /\ request' = [q \in Requests |-> Idle]
    /\ IF store = "demo"
       THEN users' = SeedUsers /\ roles' = SeedRoles /\ entries' = SeedEntries
       ELSE UNCHANGED tables
    /\ UNCHANGED store
    /\ Witness

Init ==
    /\ store \in Stores
    /\ users = SeedUsers
    /\ roles = SeedRoles
    /\ entries = SeedEntries
    /\ request = [q \in Requests |-> Idle]
    /\ held = [q \in Requests |-> {}]

Next ==
    \/ \E q \in Requests, account \in TokenAccounts, permission \in Routed :
          Arrive(q, account, permission)
    \/ \E q \in Requests : \/ Authorise(q)
                           \/ ServeWrite(q)
                           \/ ServeOverview(q)
                           \/ FilterOverview(q)
                           \/ EndRequest(q)
    \/ Restart

Spec == Init /\ [][Next]_vars

-----------------------------------------------------------------------------
(* A handler runs only for an account that held the permission of its      *)
(* route at some moment since the request arrived, whatever other          *)
(* administrators save, enable and disable in between.                     *)
ServedHeld ==
    \A q \in Requests :
        request[q].step \in {"serve", "filter"} => request[q].permission \in held[q]

(* The system tables and menus are shown only to an account that held      *)
(* system:read during the request, also through admin:access, which every  *)
(* active account has: the filter reads the permissions after the lists.   *)
ShownHeld ==
    \A q \in Requests :
        request[q].step = "answered" =>
            ("system" \in request[q].parts => SystemRead \in held[q])

(* No account that a token names may write the system tables, and no       *)
(* request that may is still on its way.                                   *)
LockedOut ==
    /\ \A account \in TokenAccounts : ~Allowed(account, SystemWrite)
    /\ \A q \in Requests :
          request[q].step = "serve" => request[q].permission # SystemWrite

(* Lockout is final: once the last administrator has been disabled (two of *)
(* them may disable each other at the same time) no request, begun before  *)
(* or after, changes the tables again; DemoStore is seeded by a restart.   *)
LockoutIsFinal ==
    [][LockedOut => \/ LockedOut' /\ UNCHANGED tables
                    \/ store = "demo" /\ Restart]_vars

(* On PostgresStore disabling a user, or the role of a user, leaves that   *)
(* account no permission: no other row of its key takes the place of the   *)
(* disabled one.  On DemoStore a row saved twice stays behind.             *)
Disabled(i) ==
    \/ ~users[i].enabled
    \/ \E j \in DOMAIN roles : roles[j].code = users[i].role /\ ~roles[j].enabled

DisabledIsOut ==
    store = "postgres" =>
        \A i \in DOMAIN users : Disabled(i) =>
            \A permission \in Routed : ~Allowed(users[i].account, permission)
=============================================================================
