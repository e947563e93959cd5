------------------------------- MODULE Pool --------------------------------
(***************************************************************************)
(* The requests of the server and the pooled database connections they     *)
(* run on (pgxpool.New of cmd/server/main.go).                             *)
(*                                                                         *)
(* A query keeps its connection until its rows are closed.  Most requests  *)
(* make one query after the other and hold one connection at a time; the   *)
(* resource queries (FindLatestResource, listAdminResourcesWhere) ask for  *)
(* the packages of a row while the rows are open, and hold one connection  *)
(* while they wait for another.  The server sets no deadline: a request    *)
(* leaves the queue when it is served or when its client goes away.        *)
(*                                                                         *)
(* The pool itself is external: it hands connections to those who wait in  *)
(* the order in which they came.                                           *)
(***************************************************************************)
EXTENDS Integers, SequencesExt

CONSTANTS
    Conns,        \* the connections of the pool
    Resources,    \* requests that read resources and their packages
    Others,       \* requests whose queries are not nested
    MaxQueries,   \* bound on the queries of a request, one after the other
    MaxRows       \* bound on the rows of a resource query

Requests == Resources \cup Others

ASSUME PoolAssumption ==
    /\ Conns # {}
    /\ Resources \cap Others = {}
    /\ MaxQueries \in Nat \ {0}
    /\ MaxRows \in Nat

VARIABLES
    free,      \* the connections nobody holds
    holds,     \* the connections each request holds
    queue,     \* the requests that wait for one, in their order
    pc,        \* what a request is about
    queries,   \* the queries it has yet to make
    rows       \* the rows of its query it has yet to read

vars == <<free, holds, queue, pc, queries, rows>>

Steps == {"idle", "query", "open", "packages", "inner"}

TypeOK ==
    /\ free \subseteq Conns
    /\ holds \in [Requests -> SUBSET Conns]
    /\ queue \in Seq(Requests)
    /\ pc \in [Requests -> Steps]
    /\ queries \in [Requests -> 0 .. MaxQueries]
    /\ rows \in [Requests -> 0 .. MaxRows]

Go(r, step) == pc' = [pc EXCEPT ![r] = step]
Waits(r) == pc[r] \in {"query", "packages"}

(* EveryRequestEnds: who came last is served first.                        *)
Enqueue_First(r) == queue' = <<r>> \o queue

Enqueue(r) == queue' = Append(queue, r)

-----------------------------------------------------------------------------
Arrive(r) ==
    /\ pc[r] = "idle"
    /\ Go(r, "query")
    /\ \E n \in 1 .. MaxQueries : queries' = [queries EXCEPT ![r] = n]
    /\ Enqueue(r)
    /\ UNCHANGED <<free, holds, rows>>

(* Acquire returns; the query is made and its rows are there to be read.   *)
Grant(c) ==
    /\ queue # <<>>
    /\ c \in free
    /\ LET r == Head(queue) IN
       /\ free' = free \ {c}
       /\ holds' = [holds EXCEPT ![r] = @ \cup {c}]
       /\ queue' = Tail(queue)
       /\ IF pc[r] = "query"
          THEN /\ Go(r, "open")
               /\ \E n \in 0 .. (IF r \in Resources THEN MaxRows ELSE 0) :
                     rows' = [rows EXCEPT ![r] = n]
               /\ queries' = [queries EXCEPT ![r] = @ - 1]
          ELSE Go(r, "inner") /\ UNCHANGED <<queries, rows>>

(* TypeOK: the packages are asked for again when the rows are exhausted.   *)
ScanResource_PastTheEnd(r) ==
    /\ pc[r] = "open"
    /\ rows' = [rows EXCEPT ![r] = @ - 1]
    /\ Go(r, "packages")
    /\ Enqueue(r)
    /\ UNCHANGED <<free, holds, queries>>

(* A row of a resource is scanned: its packages are a query of their own.  *)
ScanResource(r) ==
    /\ pc[r] = "open"
    /\ rows[r] > 0
    /\ rows' = [rows EXCEPT ![r] = @ - 1]
    /\ Go(r, "packages")
    /\ Enqueue(r)
    /\ UNCHANGED <<free, holds, queries>>

(* NeverStuck: the rows of the packages stay open until the outer ones     *)
(* are closed, as a defer in the loop would leave them.                    *)
ClosePackages_Deferred(r) ==
    /\ pc[r] = "inner"
    /\ Go(r, "open")
    /\ UNCHANGED <<free, holds, queue, queries, rows>>

(* The rows of the packages are closed when they have been read.           *)
ClosePackages(r) ==
    /\ pc[r] = "inner"
    /\ Go(r, "open")
    /\ \E c \in holds[r] :
          /\ holds' = [holds EXCEPT ![r] = @ \ {c}]
          /\ free' = free \cup {c}
    /\ UNCHANGED <<queue, queries, rows>>

(* The rows are closed; the next query, or the answer.                     *)
CloseRows(r) ==
    /\ pc[r] = "open"
    /\ rows[r] = 0
    /\ free' = free \cup holds[r]
    /\ holds' = [holds EXCEPT ![r] = {}]
    /\ IF queries[r] > 0
       THEN Go(r, "query") /\ Enqueue(r)
       ELSE Go(r, "idle") /\ UNCHANGED queue
    /\ UNCHANGED <<queries, rows>>

Leave(r) ==
    IF Waits(r)
    THEN \E i \in DOMAIN queue : queue[i] = r /\ queue' = RemoveAt(queue, i)
    ELSE UNCHANGED queue

(* NothingLeaks: the inner query returns an error and the outer rows are   *)
(* not closed.                                                             *)
Abandon_OuterOpen(r) ==
    /\ pc[r] # "idle"
    /\ Go(r, "idle")
    /\ Leave(r)
    /\ holds' = [holds EXCEPT ![r] = {}]
    /\ free' = IF pc[r] = "packages" THEN free ELSE free \cup holds[r]
    /\ queries' = [queries EXCEPT ![r] = 0]
    /\ rows' = [rows EXCEPT ![r] = 0]

(* The client goes away or a query fails: each call returns its error, and *)
(* the deferred rows.Close give back what the request holds.               *)
Abandon(r) ==
    /\ pc[r] # "idle"
    /\ Go(r, "idle")
    /\ Leave(r)
    /\ holds' = [holds EXCEPT ![r] = {}]
    /\ free' = free \cup holds[r]
    /\ queries' = [queries EXCEPT ![r] = 0]
    /\ rows' = [rows EXCEPT ![r] = 0]

Work(r) == ScanResource(r) \/ ClosePackages(r) \/ CloseRows(r)

-----------------------------------------------------------------------------
Init ==
    /\ free = Conns
    /\ holds = [r \in Requests |-> {}]
    /\ queue = <<>>
    /\ pc = [r \in Requests |-> "idle"]
    /\ queries = [r \in Requests |-> 0]
    /\ rows = [r \in Requests |-> 0]

Next ==
    \/ \E c \in Conns : Grant(c)
    \/ \E r \in Requests : Arrive(r) \/ Work(r) \/ Abandon(r)

Spec == Init /\ [][Next]_vars

(* The pool and the goroutines go on; no client has to come or to go.      *)
FairSpec ==
    /\ Spec
    /\ WF_vars(\E c \in Conns : Grant(c))
    /\ \A r \in Requests : WF_vars(Work(r))

-----------------------------------------------------------------------------
(* Whatever the order in which requests wait, are served, fail or are      *)
(* abandoned, each connection is free or held by one request, and a        *)
(* request that is over holds none (postgres.go 195 and 591,               *)
(* admin_postgres.go 912 and 946).                                         *)
NothingLeaks ==
    /\ Conns = free \cup UNION {holds[r] : r \in Requests}
    /\ \A r \in Requests : holds[r] \cap free = {}
    /\ \A r, s \in Requests : r # s => holds[r] \cap holds[s] = {}
    /\ \A r \in Requests : pc[r] \in {"idle", "query"} => holds[r] = {}

(* No connection is free and all are held by requests that wait for one    *)
(* more: from there only a client that goes away gets the server on.       *)
Stuck ==
    /\ free = {}
    /\ \A r \in Requests : holds[r] # {} => Waits(r)

(* There are more connections than resource requests at a time.            *)
Enough == \A f \in [Resources -> Conns] : \E c \in Conns : \A r \in Resources : f[r] # c

(* With more connections than resource requests the server never gets      *)
(* stuck: a request never holds more than one while it waits               *)
(* (postgres.go 217, admin_postgres.go 925).                               *)
NeverStuck == Enough => ~Stuck

(* And every request is then answered, without anyone giving up: those     *)
(* that hold a connection go on, and those that wait are served in turn.   *)
EveryRequestEnds ==
    Enough => \A r \in Requests : pc[r] # "idle" ~> pc[r] = "idle"
=============================================================================
