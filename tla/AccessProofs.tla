---------------------------- MODULE AccessProofs ----------------------------
(***************************************************************************)
(* Proofs about Access, for every set of accounts, roles, grants and       *)
(* requests and for either store.                                          *)
(***************************************************************************)
EXTENDS Access, SequenceTheorems, TLAPS

(* The operator the middleware decides with: write implies read.           *)
LEMMA WriteImpliesRead ==
    ASSUME NEW permissions, permissionsAllow(permissions, SystemWrite)
    PROVE  permissionsAllow(permissions, SystemRead)
  BY DEF permissionsAllow, SystemWrite, SystemRead, AdminAccess, Everything, Perm

LEMMA WriterReads ==
    ASSUME NEW us, NEW rs, NEW account, AllowedBy(us, rs, account, SystemWrite)
    PROVE  AllowedBy(us, rs, account, SystemRead)
  BY WriteImpliesRead DEF AllowedBy

-----------------------------------------------------------------------------
(* What a request in flight holds now is among what it has held.           *)
HeldNow ==
    \A q \in Requests : request[q] # Idle =>
        \A p \in Watched : Allowed(request[q].account, p) => p \in held[q]

IInv ==
    /\ \A q \in Requests : request[q] # Idle =>
          /\ request[q].step \in Steps \cup {"answered"}
          /\ request[q].account \in TokenAccounts
          /\ request[q].step \in Steps => request[q].permission \in Routed
    /\ DOMAIN request = Requests
    /\ HeldNow
    /\ ServedHeld
    /\ ShownHeld

(* What every step does to held.                                           *)
LEMMA WitnessHeld ==
    ASSUME Witness, NEW q \in Requests, request'[q] # Idle
    PROVE  /\ held[q] \subseteq held'[q]
           /\ \A p \in Watched :
                 AllowedBy(users', roles', request'[q].account, p) => p \in held'[q]
  BY DEF Witness

(* A request that a step leaves alone keeps its part of the invariant.     *)
LEMMA OthersKeep ==
    ASSUME IInv, Witness, NEW q \in Requests, request'[q] = request[q]
    PROVE  /\ request'[q].step \in {"serve", "filter"} => request'[q].permission \in held'[q]
           /\ request'[q].step = "answered" =>
                 ("system" \in request'[q].parts => SystemRead \in held'[q])
  <1>1. CASE request[q] = Idle
    BY <1>1 DEF Idle
  <1>2. CASE request[q] # Idle
    BY <1>2, WitnessHeld DEF IInv, ServedHeld, ShownHeld
  <1>3. QED BY <1>1, <1>2

-----------------------------------------------------------------------------
LEMMA InitIInv == Init => IInv
  BY DEF Init, IInv, HeldNow, ServedHeld, ShownHeld, Idle

(* Whatever a step does to one request, the permissions it and the others  *)
(* hold afterwards are recorded.                                           *)
LEMMA WitnessHeldNow == ASSUME Witness PROVE HeldNow'
  BY WitnessHeld DEF HeldNow, Allowed

(* An admitted request holds the permission of its route.                  *)
LEMMA AuthoriseHeld ==
    ASSUME IInv, NEW q \in Requests, Authorise(q)
    PROVE  request'[q].step \in {"serve", "filter"} => request'[q].permission \in held'[q]
  <1>1. request[q].permission \in Routed /\ request[q] # Idle
    BY DEF Authorise, IInv, Idle, Steps
  <1>2. CASE Allowed(request[q].account, request[q].permission)
    <2>1. request[q].permission \in held[q]
      BY <1>1, <1>2 DEF IInv, HeldNow, Watched
    <2>2. request'[q] = [request[q] EXCEPT !.step = "serve"]
      BY <1>2 DEF Authorise, IInv
    <2>3. request'[q].permission = request[q].permission
      BY <2>2
    <2>4. CASE request'[q] = Idle
      BY <2>4 DEF Idle
    <2>5. CASE request'[q] # Idle
      BY <2>1, <2>3, <2>5, WitnessHeld DEF Authorise
    <2>6. QED BY <2>4, <2>5
  <1>3. CASE ~Allowed(request[q].account, request[q].permission)
    BY <1>3 DEF Authorise, IInv, Idle
  <1>4. QED BY <1>2, <1>3

(* The filter shows the system part to accounts that read or write it.     *)
LEMMA FilterHeld ==
    ASSUME IInv, NEW q \in Requests, FilterOverview(q)
    PROVE  "system" \in request'[q].parts => SystemRead \in held'[q]
  <1>1. request'[q] = [step |-> "answered", account |-> request[q].account,
                       parts |-> Filtered(request[q].account)]
    BY DEF FilterOverview, IInv
  <1>2. request[q] # Idle /\ request'[q] # Idle
    BY <1>1 DEF FilterOverview, Idle
  <1>3. SUFFICES ASSUME "system" \in Filtered(request[q].account)
                 PROVE  SystemRead \in held'[q]
    BY <1>1
  <1>4. \/ Allowed(request[q].account, SystemRead)
        \/ Allowed(request[q].account, SystemWrite)
    BY <1>3 DEF Filtered
  <1>5. Allowed(request[q].account, SystemRead)
    BY <1>4, WriterReads DEF Allowed
  <1>6. SystemRead \in held[q]
    BY <1>2, <1>5 DEF IInv, HeldNow, Watched
  <1>7. QED
    BY <1>2, <1>6, WitnessHeld DEF FilterOverview

(* A step of one request: what it does to that request is all there is to  *)
(* show.                                                                   *)
LEMMA StepIInv ==
    ASSUME IInv, Witness, DOMAIN request' = Requests, NEW q \in Requests,
           \A j \in Requests \ {q} : request'[j] = request[j],
           request'[q] # Idle =>
               /\ request'[q].step \in Steps \cup {"answered"}
               /\ request'[q].account \in TokenAccounts
               /\ request'[q].step \in Steps => request'[q].permission \in Routed
               /\ request'[q].step \in {"serve", "filter"} => request'[q].permission \in held'[q]
               /\ request'[q].step = "answered" =>
                     ("system" \in request'[q].parts => SystemRead \in held'[q])
    PROVE  IInv'
  <1>1. HeldNow'
    BY WitnessHeldNow
  <1>2. ServedHeld' /\ ShownHeld'
    <2>1. ASSUME NEW j \in Requests
          PROVE  /\ request'[j].step \in {"serve", "filter"} =>
                        request'[j].permission \in held'[j]
                 /\ request'[j].step = "answered" =>
                        ("system" \in request'[j].parts => SystemRead \in held'[j])
      <3>1. CASE j # q
        BY <3>1, OthersKeep
      <3>2. CASE j = q /\ request'[q] # Idle
        BY <3>2
      <3>3. CASE j = q /\ request'[q] = Idle
        BY <3>3 DEF Idle
      <3>4. QED BY <3>1, <3>2, <3>3
    <2>2. QED BY <2>1 DEF ServedHeld, ShownHeld
  <1>3. \A j \in Requests : request'[j] # Idle =>
            /\ request'[j].step \in Steps \cup {"answered"}
            /\ request'[j].account \in TokenAccounts
            /\ request'[j].step \in Steps => request'[j].permission \in Routed
    BY DEF IInv
  <1>4. QED BY <1>1, <1>2, <1>3 DEF IInv

LEMMA NextIInv == ASSUME IInv, [Next]_vars PROVE IInv'
  <1>1. CASE UNCHANGED vars
    BY <1>1 DEF IInv, HeldNow, ServedHeld, ShownHeld, Allowed, vars, tables
  <1>2. ASSUME NEW q \in Requests, NEW account \in TokenAccounts, NEW permission \in Routed,
               Arrive(q, account, permission)
        PROVE  IInv'
    <2>1. request'[q] = [step |-> "authorise", account |-> account, permission |-> permission]
      BY <1>2 DEF Arrive, IInv
    <2>2. QED BY <1>2, <2>1, StepIInv DEF Arrive, IInv, Steps
  <1>3. ASSUME NEW q \in Requests, Authorise(q)
        PROVE  IInv'
    <2>1. /\ request[q].permission \in Routed
          /\ request[q].account \in TokenAccounts
          /\ request[q].step \in Steps
      BY <1>3 DEF Authorise, IInv, Idle, Steps
    <2>2. \/ request'[q] = Idle
          \/ request'[q] = [request[q] EXCEPT !.step = "serve"]
      BY <1>3 DEF Authorise, IInv
    <2>3. request'[q] # Idle => /\ request'[q].step \in Steps \cup {"answered"}
                                /\ request'[q].permission = request[q].permission
                                /\ request'[q].account = request[q].account
                                /\ request'[q].step # "answered"
      <3>1. CASE request'[q] = Idle
        BY <3>1
      <3>2. ASSUME request'[q] = [request[q] EXCEPT !.step = "serve"], request'[q] # Idle
            PROVE  /\ request'[q].step = "serve"
                   /\ request'[q].permission = request[q].permission
                   /\ request'[q].account = request[q].account
        BY <3>2, <1>3 DEF IInv, Authorise
      <3>3. QED BY <2>2, <3>1, <3>2 DEF Steps
    <2>4. Witness /\ DOMAIN request' = Requests
                  /\ \A j \in Requests \ {q} : request'[j] = request[j]
      BY <1>3 DEF Authorise, IInv
    <2>5. QED BY <1>3, <2>1, <2>3, <2>4, AuthoriseHeld, StepIInv
  <1>4. ASSUME NEW q \in Requests, ServeWrite(q)
        PROVE  IInv'
    BY <1>4, StepIInv DEF ServeWrite, IInv
  <1>5. ASSUME NEW q \in Requests, ServeOverview(q)
        PROVE  IInv'
    <2>1. request'[q] = [request[q] EXCEPT !.step = "filter"]
      BY <1>5 DEF ServeOverview, IInv
    <2>2. /\ request[q] # Idle
          /\ request[q].permission \in held[q]
          /\ request[q].permission \in Routed
          /\ request[q].account \in TokenAccounts
      BY <1>5 DEF ServeOverview, IInv, ServedHeld, Idle, Steps
    <2>3. /\ request'[q].step = "filter"
          /\ request'[q].permission = request[q].permission
          /\ request'[q].account = request[q].account
      BY <1>5, <2>1 DEF ServeOverview, IInv
    <2>4. request'[q] # Idle
      BY <2>3 DEF Idle
    <2>5. request'[q].permission \in held'[q]
      BY <1>5, <2>2, <2>3, <2>4, WitnessHeld DEF ServeOverview
    <2>6. QED
      BY <1>5, <2>2, <2>3, <2>5, StepIInv DEF ServeOverview, IInv, Steps
  <1>6. ASSUME NEW q \in Requests, FilterOverview(q)
        PROVE  IInv'
    <2>1. request'[q] = [step |-> "answered", account |-> request[q].account,
                         parts |-> Filtered(request[q].account)]
      BY <1>6 DEF FilterOverview, IInv
    <2>2. request[q].account \in TokenAccounts
      BY <1>6 DEF FilterOverview, IInv, Idle
    <2>3. QED BY <1>6, <2>1, <2>2, FilterHeld, StepIInv DEF FilterOverview, IInv, Steps
  <1>7. ASSUME NEW q \in Requests, EndRequest(q)
        PROVE  IInv'
    BY <1>7, StepIInv DEF EndRequest, IInv
  <1>8. CASE Restart
    BY <1>8, WitnessHeldNow DEF Restart, IInv, ServedHeld, ShownHeld, Idle
  <1>9. QED
    BY <1>1, <1>2, <1>3, <1>4, <1>5, <1>6, <1>7, <1>8 DEF Next

-----------------------------------------------------------------------------
(* A handler runs only for an account that held the permission of its      *)
(* route at some moment of the request.                                    *)
THEOREM ServedHeldHolds == Spec => []ServedHeld
  <1>1. IInv => ServedHeld
    BY DEF IInv
  <1>2. QED BY <1>1, InitIInv, NextIInv, PTL DEF Spec

(* The system tables are shown only to accounts that held system:read at   *)
(* some moment of the request.                                             *)
THEOREM ShownHeldHolds == Spec => []ShownHeld
  <1>1. IInv => ShownHeld
    BY DEF IInv
  <1>2. QED BY <1>1, InitIInv, NextIInv, PTL DEF Spec

-----------------------------------------------------------------------------
(* A step after the lockout: nothing but a write that was let through      *)
(* changes the tables, and nothing lets a write through.                   *)
LEMMA LockoutStep ==
    ASSUME IInv, [Next]_vars
    PROVE  [LockedOut => \/ LockedOut' /\ UNCHANGED tables
                         \/ store = "demo" /\ Restart]_vars
  <1>1. SUFFICES ASSUME LockedOut, Next
                 PROVE  \/ LockedOut' /\ UNCHANGED tables
                        \/ store = "demo" /\ Restart
    OBVIOUS
  <1>2. ASSUME UNCHANGED tables, NEW q \in Requests,
               \A j \in Requests \ {q} : request'[j] = request[j],
               request'[q].step = "serve" => request'[q].permission # SystemWrite
        PROVE  LockedOut' /\ UNCHANGED tables
    BY <1>1, <1>2 DEF LockedOut, Allowed, tables
  <1>3. ASSUME NEW q \in Requests, NEW account \in TokenAccounts, NEW permission \in Routed,
               Arrive(q, account, permission)
        PROVE  LockedOut' /\ UNCHANGED tables
    BY <1>2, <1>3 DEF Arrive, IInv
  <1>4. ASSUME NEW q \in Requests, Authorise(q)
        PROVE  LockedOut' /\ UNCHANGED tables
    <2>1. request[q] # Idle /\ request[q].account \in TokenAccounts
      BY <1>4 DEF Authorise, IInv, Idle
    <2>2. CASE Allowed(request[q].account, request[q].permission)
      <3>1. request[q].permission # SystemWrite
        BY <1>1, <2>1, <2>2 DEF LockedOut
      <3>2. request'[q] = [request[q] EXCEPT !.step = "serve"]
        BY <1>4, <2>2 DEF Authorise, IInv
      <3>3. request'[q].permission = request[q].permission
        BY <3>2
      <3>4. QED BY <1>2, <1>4, <3>1, <3>3 DEF Authorise, IInv
    <2>3. CASE ~Allowed(request[q].account, request[q].permission)
      <3>1. request'[q] = Idle
        BY <1>4, <2>3 DEF Authorise, IInv
      <3>2. QED BY <1>2, <1>4, <3>1 DEF Authorise, IInv, Idle
    <2>4. QED BY <2>2, <2>3
  <1>5. ASSUME NEW q \in Requests, ServeWrite(q)
        PROVE  FALSE
    BY <1>1, <1>5 DEF ServeWrite, LockedOut
  <1>6. ASSUME NEW q \in Requests, ServeOverview(q)
        PROVE  LockedOut' /\ UNCHANGED tables
    <2>1. request'[q].step = "filter"
      BY <1>6 DEF ServeOverview, IInv
    <2>2. QED BY <1>2, <1>6, <2>1 DEF ServeOverview, IInv
  <1>7. ASSUME NEW q \in Requests, FilterOverview(q)
        PROVE  LockedOut' /\ UNCHANGED tables
    BY <1>2, <1>7 DEF FilterOverview, IInv
  <1>8. ASSUME NEW q \in Requests, EndRequest(q)
        PROVE  LockedOut' /\ UNCHANGED tables
    BY <1>2, <1>8 DEF EndRequest, IInv, Idle
  <1>9. CASE Restart
    <2>1. CASE store = "demo"
      BY <1>9, <2>1
    <2>2. CASE store # "demo"
      BY <1>1, <1>9, <2>2 DEF Restart, LockedOut, Allowed, tables, Idle
    <2>3. QED BY <2>1, <2>2
  <1>10. QED
    BY <1>1, <1>3, <1>4, <1>5, <1>6, <1>7, <1>8, <1>9 DEF Next

(* Nobody gets the system tables back through the API once no account of a *)
(* token may write them.                                                   *)
THEOREM LockoutIsFinalHolds == Spec => LockoutIsFinal
  BY InitIInv, NextIInv, LockoutStep, PTL DEF Spec, LockoutIsFinal

-----------------------------------------------------------------------------
(* The types.  A row is put before the others, or in the place of those of *)
(* its key, and a table stays a sequence of rows.                          *)
LEMMA PrependType ==
    ASSUME NEW S, NEW rows \in Seq(S), NEW row \in S
    PROVE  /\ Prepend(rows, row) \in Seq(S)
           /\ Len(Prepend(rows, row)) = Len(rows) + 1
           /\ Prepend(rows, row)[1] = row
           /\ \A i \in 1 .. Len(rows) : Prepend(rows, row)[i + 1] = rows[i]
  <1>1. <<row>> \in Seq(S) /\ Len(<<row>>) = 1 /\ <<row>>[1] = row /\ Len(rows) \in Nat
    BY LenProperties
  <1>2. /\ <<row>> \o rows \in Seq(S)
        /\ Len(<<row>> \o rows) = 1 + Len(rows)
        /\ \A i \in 1 .. 1 + Len(rows) :
              (<<row>> \o rows)[i] = IF i <= 1 THEN <<row>>[i] ELSE rows[i - 1]
    BY <1>1, ConcatProperties
  <1>3. QED BY <1>1, <1>2 DEF Prepend

LEMMA UpsertType ==
    ASSUME NEW S, NEW rows \in Seq(S), NEW row \in S, NEW same
    PROVE  Upsert(rows, same, row) \in Seq(S)
  <1>1. Len(rows) \in Nat /\ DOMAIN rows = 1 .. Len(rows) /\ rows \in [1 .. Len(rows) -> S]
    BY LenProperties
  <1>2. [i \in 1 .. Len(rows) |-> IF i \in same THEN row ELSE rows[i]] \in [1 .. Len(rows) -> S]
    BY <1>1
  <1>3. [i \in DOMAIN rows |-> IF i \in same THEN row ELSE rows[i]] \in Seq(S)
    BY <1>1, <1>2, SeqDef
  <1>4. QED BY <1>3, PrependType DEF Upsert

LEMMA PutType ==
    ASSUME NEW S, NEW rows \in Seq(S), NEW row \in S, NEW same
    PROVE  Put(rows, same, row) \in Seq(S)
  BY UpsertType, PrependType DEF Put

(* A request with a step left to take is the record of one.                *)
LEMMA OnItsWay ==
    ASSUME TypeOK, NEW q \in Requests, request[q].step \in Steps
    PROVE  request[q] \in [step: Steps, account: TokenAccounts, permission: Routed]
  BY DEF TypeOK, Idle, Steps

(* What one request becomes, and what is recorded of it.                   *)
LEMMA RequestType ==
    ASSUME TypeOK, NEW q \in Requests, NEW new, request' = [request EXCEPT ![q] = new],
           \/ new = Idle
           \/ new \in [step: Steps, account: TokenAccounts, permission: Routed]
           \/ new \in [step: {"answered"}, account: TokenAccounts, parts: SUBSET Parts]
    PROVE  request' \in [Requests ->
              {Idle} \cup [step: Steps, account: TokenAccounts, permission: Routed]
                     \cup [step: {"answered"}, account: TokenAccounts, parts: SUBSET Parts]]
  BY DEF TypeOK

LEMMA HeldType ==
    ASSUME TypeOK, Witness
    PROVE  held' \in [Requests -> SUBSET (Routed \cup {SystemRead})]
  BY DEF TypeOK, Witness, Watched

TablesTypeOK ==
    /\ users \in Seq(User)
    /\ roles \in Seq(Role)
    /\ store = "postgres" => \A j \in DOMAIN roles : roles[j].permissions # {}
    /\ entries \in Seq(Entry)

(* No way of writing the tables leaves an empty list of permissions where  *)
(* the column is not null.                                                 *)
LEMMA WriteType ==
    ASSUME TypeOK, WriteTables, store' = store
    PROVE  TablesTypeOK'
  <1>1. /\ users \in Seq(User) /\ roles \in Seq(Role) /\ entries \in Seq(Entry)
        /\ DOMAIN users = 1 .. Len(users)
        /\ DOMAIN roles = 1 .. Len(roles)
        /\ DOMAIN entries = 1 .. Len(entries)
        /\ Len(roles) \in Nat
    BY LenProperties DEF TypeOK
  <1>2. store = "postgres" => \A j \in DOMAIN roles : roles[j].permissions # {}
    BY DEF TypeOK
  <1>3. ASSUME NEW row \in User, CreateSystemUser(row)
        PROVE  TablesTypeOK'
    BY <1>1, <1>2, <1>3, PutType DEF CreateSystemUser, TablesTypeOK
  <1>4. ASSUME NEW i \in DOMAIN users, NEW enabled \in BOOLEAN, SystemUserAction(i, enabled)
        PROVE  TablesTypeOK'
    <2>1. users[i] \in User
      BY <1>1, ElementOfSeq
    <2>2. [users[i] EXCEPT !.enabled = enabled] \in User
      BY <2>1 DEF User
    <2>3. users' \in Seq(User)
      BY <1>1, <1>4, <2>2, ExceptSeq DEF SystemUserAction
    <2>4. QED BY <1>1, <1>2, <1>4, <2>3 DEF SystemUserAction, TablesTypeOK
  <1>5. ASSUME NEW row \in Role, CreateSystemRole(row)
        PROVE  TablesTypeOK'
    <2> DEFINE same == {j \in DOMAIN roles : roles[j].code = row.code}
    <2>1. roles' = Put(roles, same, row) /\ roles' \in Seq(Role)
      BY <1>1, <1>5, PutType DEF CreateSystemRole
    <2>2. ASSUME store' = "postgres"
          PROVE  \A j \in DOMAIN roles' : roles'[j].permissions # {}
      <3>1. row.permissions # {} /\ roles' = Upsert(roles, same, row)
        BY <1>5, <2>1, <2>2 DEF CreateSystemRole, Put
      <3>2. \A j \in 1 .. Len(roles) : roles[j].permissions # {}
        BY <1>1, <1>2, <2>2
      <3> HIDE DEF same
      <3>3. CASE same = {}
        <4>1. roles' = Prepend(roles, row)
          BY <3>1, <3>3 DEF Upsert
        <4>2. Len(roles') = Len(roles) + 1 /\ DOMAIN roles' = 1 .. Len(roles) + 1
          BY <1>1, <2>1, <4>1, PrependType, LenProperties
        <4>3. /\ Prepend(roles, row)[1] = row
              /\ \A j \in 1 .. Len(roles) : Prepend(roles, row)[j + 1] = roles[j]
          <5>1. row \in Role /\ roles \in Seq(Role)
            BY <1>1, <1>5
          <5>2. QED BY ONLY <5>1, PrependType
        <4>4. ASSUME NEW j \in 2 .. Len(roles) + 1
              PROVE  roles'[j].permissions # {}
          <5>1. j - 1 \in 1 .. Len(roles) /\ (j - 1) + 1 = j
            BY <1>1
          <5>2. roles'[j] = roles[j - 1]
            BY <4>1, <4>3, <5>1
          <5>3. QED BY <3>2, <5>1, <5>2
        <4>5. QED BY <1>1, <3>1, <4>1, <4>2, <4>3, <4>4
      <3>4. CASE same # {}
        BY <3>1, <3>2, <3>4, <1>1 DEF Upsert
      <3>5. QED BY <3>3, <3>4
    <2>3. QED BY <1>1, <1>5, <2>1, <2>2 DEF CreateSystemRole, TablesTypeOK
  <1>6. ASSUME NEW i \in DOMAIN roles, NEW enabled \in BOOLEAN, SystemRoleAction(i, enabled)
        PROVE  TablesTypeOK'
    <2>1. roles[i] \in Role
      BY <1>1, ElementOfSeq
    <2>2. /\ [roles[i] EXCEPT !.enabled = enabled] \in Role
          /\ [roles[i] EXCEPT !.enabled = enabled].permissions = roles[i].permissions
      BY <2>1 DEF Role
    <2>3. roles' = [roles EXCEPT ![i] = [roles[i] EXCEPT !.enabled = enabled]]
      BY <1>6 DEF SystemRoleAction
    <2>4. roles' \in Seq(Role)
      BY <1>1, <2>2, <2>3, ExceptSeq
    <2>5. DOMAIN roles' = DOMAIN roles
          /\ \A j \in DOMAIN roles : roles'[j].permissions = roles[j].permissions
      BY <2>2, <2>3
    <2>6. QED BY <1>1, <1>2, <1>6, <2>4, <2>5 DEF SystemRoleAction, TablesTypeOK
  <1>7. ASSUME NEW row \in Entry, CreateSystemEntry(row)
        PROVE  TablesTypeOK'
    BY <1>1, <1>2, <1>7, PutType DEF CreateSystemEntry, TablesTypeOK
  <1>8. ASSUME NEW i \in DOMAIN entries, NEW enabled \in BOOLEAN, SystemEntryAction(i, enabled)
        PROVE  TablesTypeOK'
    <2>1. entries[i] \in Entry
      BY <1>1, ElementOfSeq
    <2>2. [entries[i] EXCEPT !.enabled = enabled] \in Entry
      BY <2>1 DEF Entry
    <2>3. entries' \in Seq(Entry)
      BY <1>1, <1>8, <2>2, ExceptSeq DEF SystemEntryAction
    <2>4. QED BY <1>1, <1>2, <1>8, <2>3 DEF SystemEntryAction, TablesTypeOK
  <1>9. CASE UNCHANGED tables
    BY <1>1, <1>2, <1>9 DEF tables, TablesTypeOK
  <1>10. QED BY <1>3, <1>4, <1>5, <1>6, <1>7, <1>8, <1>9 DEF WriteTables

(* The seed is a state of the tables.                                      *)
LEMMA SeedType ==
    /\ SeedUsers \in Seq(User)
    /\ SeedRoles \in Seq(Role)
    /\ \A j \in DOMAIN SeedRoles : SeedRoles[j].permissions # {}
    /\ SeedEntries \in Seq(Entry)
  <1>1. /\ SeedRoles \in Seq(Role)
        /\ \A j \in DOMAIN SeedRoles : SeedRoles[j].permissions # {}
    <2> DEFINE Granted == {role \in Role : role.permissions # {}}
    <2>1. SeedRoles \in Seq(Granted) /\ Granted \subseteq Role
      BY SeedAssumption
    <2>2. \A j \in DOMAIN SeedRoles : SeedRoles[j] \in Granted
      <3> HIDE DEF Granted
      <3>1. QED BY <2>1, LenProperties, ElementOfSeq
    <2>3. SeedRoles \in Seq(Role)
      <3> HIDE DEF Granted
      <3>1. QED BY <2>1, SeqMonotonic
    <2>4. QED BY <2>2, <2>3
  <1>2. QED BY <1>1, SeedAssumption

LEMMA TypeNext == ASSUME TypeOK, [Next]_vars PROVE TypeOK'
  <1>1. TablesTypeOK /\ store \in Stores
    BY DEF TypeOK, TablesTypeOK
  <1>2. CASE UNCHANGED vars
    BY <1>2 DEF TypeOK, vars, tables
  <1>3. ASSUME NEW q \in Requests, NEW new, request' = [request EXCEPT ![q] = new],
               \/ new = Idle
               \/ new \in [step: Steps, account: TokenAccounts, permission: Routed]
               \/ new \in [step: {"answered"}, account: TokenAccounts, parts: SUBSET Parts],
               Witness, store' = store, WriteTables
        PROVE  TypeOK'
    <2>1. TablesTypeOK' /\ store' \in Stores
      BY <1>1, <1>3, WriteType
    <2>2. QED BY <1>3, <2>1, RequestType, HeldType DEF TypeOK, TablesTypeOK
  <1>4. UNCHANGED tables => WriteTables
    BY DEF WriteTables
  <1>5. ASSUME NEW q \in Requests, NEW account \in TokenAccounts, NEW permission \in Routed,
               Arrive(q, account, permission)
        PROVE  TypeOK'
    BY <1>3, <1>4, <1>5 DEF Arrive, Steps
  <1>6. ASSUME NEW q \in Requests, Authorise(q)
        PROVE  TypeOK'
    <2>1. request[q] \in [step: Steps, account: TokenAccounts, permission: Routed]
      BY <1>6, OnItsWay DEF Authorise, Steps
    <2>2. [request[q] EXCEPT !.step = "serve"]
              \in [step: Steps, account: TokenAccounts, permission: Routed]
      BY <2>1 DEF Steps
    <2>3. \/ request' = [request EXCEPT ![q] = [request[q] EXCEPT !.step = "serve"]]
          \/ request' = [request EXCEPT ![q] = Idle]
      BY <1>6 DEF Authorise
    <2>4. Witness /\ store' = store /\ WriteTables
      BY <1>4, <1>6 DEF Authorise
    <2>5. QED BY <1>3, <2>2, <2>3, <2>4
  <1>7. ASSUME NEW q \in Requests, ServeWrite(q)
        PROVE  TypeOK'
    BY <1>3, <1>7 DEF ServeWrite
  <1>8. ASSUME NEW q \in Requests, ServeOverview(q)
        PROVE  TypeOK'
    <2>1. request[q] \in [step: Steps, account: TokenAccounts, permission: Routed]
      BY <1>8, OnItsWay DEF ServeOverview, Steps
    <2>2. [request[q] EXCEPT !.step = "filter"]
              \in [step: Steps, account: TokenAccounts, permission: Routed]
      BY <2>1 DEF Steps
    <2>3. request' = [request EXCEPT ![q] = [request[q] EXCEPT !.step = "filter"]]
      BY <1>8 DEF ServeOverview
    <2>4. Witness /\ store' = store /\ WriteTables
      BY <1>4, <1>8 DEF ServeOverview
    <2>5. QED BY <1>3, <2>2, <2>3, <2>4
  <1>9. ASSUME NEW q \in Requests, FilterOverview(q)
        PROVE  TypeOK'
    <2> DEFINE new == [step |-> "answered", account |-> request[q].account,
                       parts |-> Filtered(request[q].account)]
    <2>1. request[q].account \in TokenAccounts
      BY <1>9, OnItsWay DEF FilterOverview, Steps
    <2>2. new \in [step: {"answered"}, account: TokenAccounts, parts: SUBSET Parts]
      BY <2>1 DEF Filtered
    <2>3. request' = [request EXCEPT ![q] = new]
      BY <1>9 DEF FilterOverview
    <2>4. Witness /\ store' = store /\ WriteTables
      BY <1>4, <1>9 DEF FilterOverview
    <2> HIDE DEF new
    <2>5. QED BY <1>3, <2>2, <2>3, <2>4
  <1>10. ASSUME NEW q \in Requests, EndRequest(q)
        PROVE  TypeOK'
    BY <1>3, <1>4, <1>10 DEF EndRequest
  <1>11. CASE Restart
    <2>1. TablesTypeOK'
      <3>1. CASE store = "demo"
        BY <1>11, <3>1, SeedType DEF Restart, TablesTypeOK
      <3>2. CASE store # "demo"
        BY <1>1, <1>11, <3>2 DEF Restart, tables, TablesTypeOK
      <3>3. QED BY <3>1, <3>2
    <2>2. request' = [q \in Requests |-> Idle] /\ store' \in Stores /\ Witness
      BY <1>1, <1>11 DEF Restart
    <2>3. QED BY <2>1, <2>2, HeldType DEF TypeOK, TablesTypeOK
  <1>12. QED
    BY <1>2, <1>5, <1>6, <1>7, <1>8, <1>9, <1>10, <1>11 DEF Next

(* The variables hold what they should; a role without permissions is      *)
(* never saved to the table that refuses it.                               *)
THEOREM TypeOKHolds == Spec => []TypeOK
  <1>1. Init => TypeOK
    BY SeedType DEF Init, TypeOK, TablesTypeOK
  <1>2. QED BY <1>1, TypeNext, PTL DEF Spec

-----------------------------------------------------------------------------
(* DisabledIsOut holds because a key has one row: saving a row of a known  *)
(* key replaces it in its place, and no update changes a key.              *)
OneRow ==
    /\ \A i, j \in DOMAIN users : users[i].account = users[j].account => i = j
    /\ \A i, j \in DOMAIN roles : roles[i].code = roles[j].code => i = j

OneRowInv == store = "postgres" => OneRow

(* An upsert keeps the keys apart, whatever the key of a row is.           *)
LEMMA UpsertApart ==
    ASSUME NEW S, NEW rows \in Seq(S), NEW row \in S, NEW key,
           \A i, j \in DOMAIN rows : key[rows[i]] = key[rows[j]] => i = j
    PROVE  LET new == Upsert(rows, {i \in DOMAIN rows : key[rows[i]] = key[row]}, row)
           IN  \A i, j \in DOMAIN new : key[new[i]] = key[new[j]] => i = j
  <1> DEFINE same == {i \in DOMAIN rows : key[rows[i]] = key[row]}
             new == Upsert(rows, same, row)
  <1>1. Len(rows) \in Nat /\ DOMAIN rows = 1 .. Len(rows)
    BY LenProperties
  <1>2. CASE same = {}
    <2>1. new = Prepend(rows, row)
      BY <1>2 DEF Upsert
    <2>2. \A i \in 1 .. Len(rows) : key[rows[i]] # key[row]
      BY <1>1, <1>2
    <2> HIDE DEF new, same
    <2>3. DOMAIN new = 1 .. Len(rows) + 1
      BY <1>1, <2>1, PrependType, LenProperties
    <2>4. /\ Prepend(rows, row)[1] = row
          /\ \A i \in 1 .. Len(rows) : Prepend(rows, row)[i + 1] = rows[i]
      BY PrependType
    <2>5. \A i \in 2 .. Len(rows) + 1 : i - 1 \in 1 .. Len(rows) /\ new[i] = rows[i - 1]
      <3>1. ASSUME NEW i \in 2 .. Len(rows) + 1
            PROVE  i - 1 \in 1 .. Len(rows) /\ new[i] = rows[i - 1]
        <4>1. i - 1 \in 1 .. Len(rows) /\ (i - 1) + 1 = i
          BY <1>1
        <4>2. QED BY <2>1, <2>4, <4>1
      <3>2. QED BY <3>1
    <2>6. ASSUME NEW i \in 1 .. Len(rows) + 1, NEW j \in 1 .. Len(rows) + 1,
                 key[new[i]] = key[new[j]]
          PROVE  i = j
      <3>1. new[1] = row
        BY <2>1, <2>4
      <3>2. CASE i = 1 \/ j = 1
        BY <1>1, <2>2, <2>5, <2>6, <3>1, <3>2
      <3>3. CASE i # 1 /\ j # 1
        <4>1. i \in 2 .. Len(rows) + 1 /\ j \in 2 .. Len(rows) + 1
          BY <1>1, <3>3
        <4>2. i - 1 = j - 1
          BY <1>1, <2>5, <2>6, <4>1
        <4>3. QED BY <1>1, <4>2
      <3>4. QED BY <3>2, <3>3
    <2>7. QED BY <2>3, <2>6 DEF new, same
  <1>3. CASE same # {}
    <2>1. DOMAIN new = DOMAIN rows
          /\ \A i \in DOMAIN rows : new[i] = IF i \in same THEN row ELSE rows[i]
      BY <1>3 DEF Upsert
    <2>2. \A i \in DOMAIN rows : key[new[i]] = key[rows[i]]
      BY <2>1
    <2> HIDE DEF new, same
    <2>3. \A i, j \in DOMAIN new : key[new[i]] = key[new[j]] => i = j
      BY <2>1, <2>2
    <2>4. QED BY <2>3 DEF new, same
  <1>4. QED BY <1>2, <1>3

(* The accounts stay apart, and the codes.                                 *)
LEMMA OneUser ==
    ASSUME TypeOK, OneRow, NEW row \in User,
           users' = Upsert(users, {i \in DOMAIN users : users[i].account = row.account}, row)
    PROVE  \A i, j \in DOMAIN users' : users'[i].account = users'[j].account => i = j
  <1> DEFINE key == [u \in User |-> u.account]
             same == {i \in DOMAIN users : users[i].account = row.account}
             new == Upsert(users, same, row)
  <1>1. users \in Seq(User) /\ \A i \in DOMAIN users : users[i] \in User
    BY LenProperties, ElementOfSeq DEF TypeOK
  <1>2. \A i, j \in DOMAIN users : key[users[i]] = key[users[j]] => i = j
    BY <1>1 DEF OneRow
  <1>3. {i \in DOMAIN users : key[users[i]] = key[row]} = same
    BY <1>1
  <1>4. new \in Seq(User)
    BY <1>1, UpsertType
  <1>5. \A i \in DOMAIN new : new[i] \in User
    <2> HIDE DEF new
    <2>1. QED BY <1>4, LenProperties, ElementOfSeq
  <1>6. \A i, j \in DOMAIN new : key[new[i]] = key[new[j]] => i = j
    <2>1. \A i, j \in DOMAIN Upsert(users, {n \in DOMAIN users : key[users[n]] = key[row]}, row) :
              key[Upsert(users, {n \in DOMAIN users : key[users[n]] = key[row]}, row)[i]]
            = key[Upsert(users, {n \in DOMAIN users : key[users[n]] = key[row]}, row)[j]] => i = j
      <3> HIDE DEF key
      <3>1. QED BY <1>1, <1>2, UpsertApart
    <2>2. QED BY <1>3, <2>1
  <1>7. \A i, j \in DOMAIN new : new[i].account = new[j].account => i = j
    <2> HIDE DEF new
    <2>1. QED BY <1>5, <1>6
  <1>8. QED BY <1>7

LEMMA OneRole ==
    ASSUME TypeOK, OneRow, NEW row \in Role,
           roles' = Upsert(roles, {i \in DOMAIN roles : roles[i].code = row.code}, row)
    PROVE  \A i, j \in DOMAIN roles' : roles'[i].code = roles'[j].code => i = j
  <1> DEFINE key == [r \in Role |-> r.code]
             same == {i \in DOMAIN roles : roles[i].code = row.code}
             new == Upsert(roles, same, row)
  <1>1. roles \in Seq(Role) /\ \A i \in DOMAIN roles : roles[i] \in Role
    BY LenProperties, ElementOfSeq DEF TypeOK
  <1>2. \A i, j \in DOMAIN roles : key[roles[i]] = key[roles[j]] => i = j
    BY <1>1 DEF OneRow
  <1>3. {i \in DOMAIN roles : key[roles[i]] = key[row]} = same
    BY <1>1
  <1>4. new \in Seq(Role)
    BY <1>1, UpsertType
  <1>5. \A i \in DOMAIN new : new[i] \in Role
    <2> HIDE DEF new
    <2>1. QED BY <1>4, LenProperties, ElementOfSeq
  <1>6. \A i, j \in DOMAIN new : key[new[i]] = key[new[j]] => i = j
    <2>1. \A i, j \in DOMAIN Upsert(roles, {n \in DOMAIN roles : key[roles[n]] = key[row]}, row) :
              key[Upsert(roles, {n \in DOMAIN roles : key[roles[n]] = key[row]}, row)[i]]
            = key[Upsert(roles, {n \in DOMAIN roles : key[roles[n]] = key[row]}, row)[j]] => i = j
      <3> HIDE DEF key
      <3>1. QED BY <1>1, <1>2, UpsertApart
    <2>2. QED BY <1>3, <2>1
  <1>7. \A i, j \in DOMAIN new : new[i].code = new[j].code => i = j
    <2> HIDE DEF new
    <2>1. QED BY <1>5, <1>6
  <1>8. QED BY <1>7

LEMMA WriteOneRow ==
    ASSUME TypeOK, OneRow, store = "postgres", WriteTables
    PROVE  OneRow'
  <1>1. ASSUME NEW row \in User, CreateSystemUser(row)
        PROVE  OneRow'
    <2>1. users' = Upsert(users, {i \in DOMAIN users : users[i].account = row.account}, row)
          /\ roles' = roles
      BY <1>1 DEF CreateSystemUser, Put
    <2>2. QED BY <2>1, OneUser DEF OneRow
  <1>2. ASSUME NEW row \in Role, CreateSystemRole(row)
        PROVE  OneRow'
    <2>1. roles' = Upsert(roles, {i \in DOMAIN roles : roles[i].code = row.code}, row)
          /\ users' = users
      BY <1>2 DEF CreateSystemRole, Put
    <2>2. QED BY <2>1, OneRole DEF OneRow
  <1>3. \A i \in DOMAIN users : users[i] \in User
    BY LenProperties, ElementOfSeq DEF TypeOK
  <1>4. \A i \in DOMAIN roles : roles[i] \in Role
    BY LenProperties, ElementOfSeq DEF TypeOK
  <1>5. ASSUME NEW n \in DOMAIN users, NEW enabled \in BOOLEAN, SystemUserAction(n, enabled)
        PROVE  OneRow'
    <2>1. /\ DOMAIN users' = DOMAIN users /\ roles' = roles
          /\ \A i \in DOMAIN users : users'[i].account = users[i].account
      BY <1>3, <1>5 DEF SystemUserAction, User
    <2>2. QED BY <2>1 DEF OneRow
  <1>6. ASSUME NEW n \in DOMAIN roles, NEW enabled \in BOOLEAN, SystemRoleAction(n, enabled)
        PROVE  OneRow'
    <2>1. /\ DOMAIN roles' = DOMAIN roles /\ users' = users
          /\ \A i \in DOMAIN roles : roles'[i].code = roles[i].code
      BY <1>4, <1>6 DEF SystemRoleAction, Role
    <2>2. QED BY <2>1 DEF OneRow
  <1>7. CASE UNCHANGED <<users, roles>>
    BY <1>7 DEF OneRow
  <1>8. QED
    BY <1>1, <1>2, <1>5, <1>6, <1>7 DEF WriteTables, CreateSystemEntry, SystemEntryAction, tables

LEMMA OneRowNext == ASSUME TypeOK, OneRowInv, [Next]_vars PROVE OneRowInv'
  <1>1. CASE UNCHANGED tables /\ store' = store
    BY <1>1 DEF OneRowInv, OneRow, tables
  <1>2. ASSUME NEW q \in Requests, ServeWrite(q)
        PROVE  OneRowInv'
    BY <1>2, WriteOneRow DEF ServeWrite, OneRowInv
  <1>3. CASE Restart
    <2>1. store' = store /\ (store = "postgres" => UNCHANGED tables)
      BY <1>3 DEF Restart
    <2>2. QED BY <2>1 DEF OneRowInv, OneRow, tables
  <1>4. QED
    BY <1>1, <1>2, <1>3 DEF Next, vars, tables, Arrive, Authorise, ServeOverview,
       FilterOverview, EndRequest

(* With one row per key, the row that is disabled is the one the lookup    *)
(* reads.                                                                  *)
LEMMA OneRowDecides == ASSUME OneRowInv PROVE DisabledIsOut
  <1>1. SUFFICES ASSUME OneRow, NEW i \in DOMAIN users, Disabled(i)
                 PROVE  RolesOf(users, roles, users[i].account) = {}
    BY DEF OneRowInv, DisabledIsOut, Allowed, AllowedBy
  <1>2. \A n \in First({m \in DOMAIN users : users[m].account = users[i].account}) : n = i
    BY <1>1 DEF First, OneRow
  <1>3. ASSUME NEW j \in DOMAIN roles, users[i].enabled, roles[j].code = users[i].role,
               roles[j].enabled
        PROVE  FALSE
    BY <1>1, <1>3 DEF Disabled, OneRow
  <1>4. QED BY <1>2, <1>3 DEF RolesOf, First

(* On PostgresStore an account whose user or role is disabled has no       *)
(* permission left, whatever was saved before and in whatever order.       *)
THEOREM DisabledIsOutHolds == Spec => []DisabledIsOut
  <1>1. Init => OneRowInv
    BY KeysAssumption DEF Init, OneRowInv, OneRow
  <1>2. TypeOK /\ OneRowInv /\ [Next]_vars => OneRowInv'
    BY OneRowNext
  <1>3. OneRowInv => DisabledIsOut
    BY OneRowDecides
  <1>4. QED BY TypeOKHolds, <1>1, <1>2, <1>3, PTL DEF Spec
=============================================================================
