----------------------------- MODULE PoolProofs -----------------------------
(***************************************************************************)
(* No connection is lost and the server never gets stuck while there are   *)
(* more connections than resource requests, for pools and sets of requests *)
(* of any size.                                                            *)
(*                                                                         *)
(* The strengthening counts what a request holds by what it is about: one  *)
(* connection while its rows are open, a second one only while it reads    *)
(* packages, none before its first query and between two of them.  And the *)
(* queue names those who wait, each of them once, so that nobody is handed *)
(* a connection it is not waiting for.                                     *)
(***************************************************************************)
EXTENDS Pool, SequenceTheorems, TLAPS

QueueOK ==
    /\ \A i \in 1 .. Len(queue) : Waits(queue[i])
    /\ \A i, j \in 1 .. Len(queue) : queue[i] = queue[j] => i = j

HoldsOK ==
    \A r \in Requests :
        /\ pc[r] \in {"idle", "query"} => holds[r] = {}
        /\ pc[r] \in {"open", "packages"} => \E c \in Conns : holds[r] = {c}
        /\ pc[r] = "inner" => \E c, d \in Conns : c # d /\ holds[r] = {c, d}

Nested ==
    \A r \in Requests :
        /\ pc[r] \in {"packages", "inner"} => r \in Resources
        /\ rows[r] > 0 => r \in Resources
        /\ pc[r] = "query" => queries[r] > 0

Shared ==
    /\ Conns = free \cup UNION {holds[r] : r \in Requests}
    /\ \A r \in Requests : holds[r] \cap free = {}
    /\ \A r, s \in Requests : r # s => holds[r] \cap holds[s] = {}

IInv == TypeOK /\ QueueOK /\ HoldsOK /\ Nested /\ Shared

-----------------------------------------------------------------------------
(* The queue                                                               *)

(* Removing an element closes the gap and keeps the order.                 *)
LEMMA Removed ==
    ASSUME NEW S, NEW q \in Seq(S), NEW i \in 1 .. Len(q)
    PROVE  /\ RemoveAt(q, i) \in Seq(S)
           /\ Len(RemoveAt(q, i)) = Len(q) - 1
           /\ \A j \in 1 .. Len(q) - 1 :
                RemoveAt(q, i)[j] = IF j < i THEN q[j] ELSE q[j + 1]
<1> DEFINE a == SubSeq(q, 1, i - 1)
           b == SubSeq(q, i + 1, Len(q))
<1>1. /\ a \in Seq(S) /\ Len(a) = i - 1
      /\ \A j \in 1 .. i - 1 : a[j] = q[j]
  OBVIOUS
<1>2. /\ b \in Seq(S) /\ Len(b) = Len(q) - i
      /\ \A j \in 1 .. Len(q) - i : b[j] = q[i + j]
  OBVIOUS
<1>3. RemoveAt(q, i) = a \o b
  BY DEF RemoveAt
<1> HIDE DEF a, b
<1>4. /\ a \o b \in Seq(S) /\ Len(a \o b) = Len(a) + Len(b)
      /\ \A j \in 1 .. Len(a) + Len(b) :
           (a \o b)[j] = IF j <= Len(a) THEN a[j] ELSE b[j - Len(a)]
  BY <1>1, <1>2, ConcatProperties, Zenon
<1>5. Len(a) + Len(b) = Len(q) - 1
  BY <1>1, <1>2
<1>6. ASSUME NEW j \in 1 .. Len(q) - 1
      PROVE  (a \o b)[j] = IF j < i THEN q[j] ELSE q[j + 1]
  <2>1. (a \o b)[j] = IF j <= Len(a) THEN a[j] ELSE b[j - Len(a)]
    BY <1>4, <1>5, <1>6
  <2>2. CASE j < i
    BY <1>1, <1>6, <2>1, <2>2
  <2>3. CASE ~(j < i)
    <3>1. j - Len(a) \in 1 .. Len(q) - i /\ i + (j - Len(a)) = j + 1 /\ ~(j <= Len(a))
      BY <1>1, <1>6, <2>3
    <3>2. b[j - Len(a)] = q[i + (j - Len(a))]
      BY <1>2, <3>1
    <3> QED
      BY <2>1, <2>3, <3>1, <3>2
  <2> QED
    BY <2>2, <2>3
<1>7. a \o b \in Seq(S) /\ Len(a \o b) = Len(q) - 1
  BY <1>4, <1>5
<1> QED
  BY <1>3, <1>6, <1>7

(* A request that starts to wait is put into the queue once.               *)
LEMMA Enqueued ==
    ASSUME TypeOK, QueueOK, NEW r \in Requests, ~Waits(r), Enqueue(r),
           NEW step \in {"query", "packages"}, Go(r, step)
    PROVE  queue' \in Seq(Requests) /\ QueueOK'
<1>1. /\ queue' = Append(queue, r) /\ queue' \in Seq(Requests)
      /\ Len(queue') = Len(queue) + 1
      /\ queue'[Len(queue) + 1] = r
      /\ \A i \in 1 .. Len(queue) : queue'[i] = queue[i] /\ queue[i] \in Requests
  BY DEF Enqueue, TypeOK
<1>2. \A i \in 1 .. Len(queue) : queue[i] # r
  BY DEF QueueOK, Waits
<1>3. \A s \in Requests : pc'[s] = IF s = r THEN step ELSE pc[s]
  BY DEF Go, TypeOK
<1>4. \A i \in 1 .. Len(queue') : pc'[queue'[i]] \in {"query", "packages"}
  BY <1>1, <1>2, <1>3 DEF QueueOK, Waits
<1>5. \A i, j \in 1 .. Len(queue') : queue'[i] = queue'[j] => i = j
  BY <1>1, <1>2 DEF QueueOK, Waits
<1> QED
  BY <1>1, <1>4, <1>5 DEF QueueOK, Waits

(* The queue of those who still wait, when one of them is served.          *)
LEMMA Served ==
    ASSUME TypeOK, QueueOK, queue # <<>>, queue' = Tail(queue),
           NEW step, Go(Head(queue), step)
    PROVE  queue' \in Seq(Requests) /\ QueueOK'
<1>1. /\ queue' \in Seq(Requests) /\ Len(queue') = Len(queue) - 1
      /\ \A i \in 1 .. Len(queue') : queue'[i] = queue[i + 1] /\ queue[i + 1] \in Requests
      /\ Head(queue) = queue[1] /\ 1 \in 1 .. Len(queue)
  BY DEF TypeOK
<1>2. \A i \in 1 .. Len(queue') : queue[i + 1] # queue[1]
  BY <1>1 DEF QueueOK, Waits
<1>3. \A i \in 1 .. Len(queue') : pc'[queue'[i]] \in {"query", "packages"}
  BY <1>1, <1>2 DEF QueueOK, Waits, Go, TypeOK
<1>4. \A i, j \in 1 .. Len(queue') : queue'[i] = queue'[j] => i = j
  BY <1>1 DEF QueueOK, Waits
<1> QED
  BY <1>1, <1>3, <1>4 DEF QueueOK, Waits

(* A request that is over is no longer in the queue.                       *)
LEMMA HasLeft ==
    ASSUME TypeOK, QueueOK, NEW r \in Requests, Leave(r), Go(r, "idle")
    PROVE  queue' \in Seq(Requests) /\ QueueOK'
<1>1. \A s \in Requests : s # r => pc'[s] = pc[s]
  BY DEF Go, TypeOK
<1>2. CASE ~Waits(r)
  <2>1. queue' = queue /\ \A i \in 1 .. Len(queue) : queue[i] # r /\ queue[i] \in Requests
    BY <1>2 DEF Leave, QueueOK, TypeOK
  <2> QED
    BY <2>1, <1>1 DEF QueueOK, Waits, TypeOK
<1>3. CASE Waits(r)
  <2>1. PICK i \in DOMAIN queue : queue[i] = r /\ queue' = RemoveAt(queue, i)
    BY <1>3 DEF Leave
  <2>2. queue \in Seq(Requests) /\ i \in 1 .. Len(queue)
    BY <2>1 DEF TypeOK
  <2>3. /\ queue' \in Seq(Requests) /\ Len(queue') = Len(queue) - 1
        /\ \A j \in 1 .. Len(queue) - 1 :
             queue'[j] = IF j < i THEN queue[j] ELSE queue[j + 1]
    BY <2>1, <2>2, Removed
  <2> DEFINE from(j) == IF j < i THEN j ELSE j + 1
  <2>4. \A j \in 1 .. Len(queue') :
          /\ from(j) \in 1 .. Len(queue) /\ from(j) # i
          /\ queue'[j] = queue[from(j)] /\ queue[from(j)] \in Requests
    BY <2>2, <2>3
  <2>5. \A j \in 1 .. Len(queue') : queue'[j] # r /\ pc[queue'[j]] \in {"query", "packages"}
    BY <2>1, <2>2, <2>4 DEF QueueOK, Waits
  <2>6. \A j \in 1 .. Len(queue') : pc'[queue'[j]] \in {"query", "packages"}
    BY <2>4, <2>5, <1>1
  <2>7. \A j, k \in 1 .. Len(queue') : from(j) = from(k) => j = k
    BY <2>2, <2>3
  <2>8. \A j, k \in 1 .. Len(queue') : queue'[j] = queue'[k] => j = k
    BY <2>4, <2>7 DEF QueueOK, Waits
  <2> QED
    BY <2>3, <2>6, <2>8 DEF QueueOK, Waits
<1> QED
  BY <1>2, <1>3

-----------------------------------------------------------------------------
(* What a request holds                                                    *)

(* Taking a free connection and giving connections back keep every         *)
(* connection in one place.                                                *)
LEMMA Taken ==
    ASSUME TypeOK, Shared, NEW r \in Requests, NEW c \in free,
           free' = free \ {c}, holds' = [holds EXCEPT ![r] = @ \cup {c}]
    PROVE  Shared'
<1>1. \A s \in Requests : holds'[s] = IF s = r THEN holds[r] \cup {c} ELSE holds[s]
  BY DEF TypeOK
<1>2. free' \cup UNION {holds'[s] : s \in Requests}
        = free \cup UNION {holds[s] : s \in Requests}
  BY <1>1
<1>3. \A s \in Requests : c \notin holds[s]
  BY DEF Shared
<1> QED
  BY <1>1, <1>2, <1>3 DEF Shared

LEMMA GivenBack ==
    ASSUME TypeOK, Shared, NEW r \in Requests, NEW C \in SUBSET holds[r],
           free' = free \cup C, holds' = [holds EXCEPT ![r] = @ \ C]
    PROVE  Shared'
<1>1. \A s \in Requests : holds'[s] = IF s = r THEN holds[r] \ C ELSE holds[s]
  BY DEF TypeOK
<1>2. free' \cup UNION {holds'[s] : s \in Requests}
        = free \cup UNION {holds[s] : s \in Requests}
  BY <1>1
<1> QED
  BY <1>1, <1>2 DEF Shared

-----------------------------------------------------------------------------
LEMMA InitInv == Init => IInv
<1> SUFFICES ASSUME Init PROVE IInv
  OBVIOUS
<1>1. UNION {holds[r] : r \in Requests} = {}
  BY DEF Init
<1>2. TypeOK
  BY PoolAssumption DEF Init, TypeOK, Steps
<1>3. QueueOK /\ HoldsOK /\ Nested
  BY DEF Init, QueueOK, HoldsOK, Nested
<1>4. Shared
  BY <1>1 DEF Init, Shared
<1> QED
  BY <1>2, <1>3, <1>4 DEF IInv

LEMMA ArriveInv ==
    ASSUME IInv, NEW r \in Requests, Arrive(r)
    PROVE  IInv'
<1> USE DEF IInv
<1>1. queue' \in Seq(Requests) /\ QueueOK'
  <2>1. ~Waits(r) /\ Enqueue(r) /\ Go(r, "query")
    BY DEF Arrive, Waits
  <2> QED
    BY <2>1, Enqueued
<1>2. TypeOK'
  BY <1>1, PoolAssumption DEF Arrive, TypeOK, Go, Steps
<1>3. HoldsOK' /\ Nested'
  BY DEF Arrive, HoldsOK, Nested, Go, TypeOK
<1>4. Shared'
  BY DEF Arrive, Shared
<1> QED
  BY <1>1, <1>2, <1>3, <1>4

LEMMA GrantInv ==
    ASSUME IInv, NEW c \in Conns, Grant(c)
    PROVE  IInv'
<1> USE DEF IInv
<1> DEFINE r == Head(queue)
<1>1. r \in Requests /\ Waits(r)
  BY DEF Grant, TypeOK, QueueOK
<1> HIDE DEF r
<1>2. /\ c \in free /\ free' = free \ {c}
      /\ holds' = [holds EXCEPT ![r] = @ \cup {c}]
      /\ queue # <<>> /\ queue' = Tail(queue)
      /\ \/ /\ pc[r] = "query" /\ Go(r, "open")
            /\ \E n \in 0 .. (IF r \in Resources THEN MaxRows ELSE 0) :
                  rows' = [rows EXCEPT ![r] = n]
            /\ queries' = [queries EXCEPT ![r] = @ - 1]
         \/ pc[r] = "packages" /\ Go(r, "inner") /\ UNCHANGED <<queries, rows>>
  BY <1>1 DEF Grant, r, Waits
<1>3. queue' \in Seq(Requests) /\ QueueOK'
  BY <1>2, Served DEF r
<1>4. TypeOK'
  <2>1. free' \subseteq Conns /\ holds' \in [Requests -> SUBSET Conns]
    BY <1>1, <1>2 DEF TypeOK
  <2>2. pc' \in [Requests -> Steps]
    BY <1>1, <1>2 DEF TypeOK, Go, Steps
  <2>3. CASE pc[r] = "query"
    <3>1. PICK n \in 0 .. (IF r \in Resources THEN MaxRows ELSE 0) :
                  rows' = [rows EXCEPT ![r] = n]
      BY <1>2, <2>3
    <3>2. n \in 0 .. MaxRows
      BY PoolAssumption
    <3>3. queries[r] - 1 \in 0 .. MaxQueries
      BY <1>1, <2>3, PoolAssumption DEF Nested, TypeOK
    <3>4. queries' = [queries EXCEPT ![r] = @ - 1]
      BY <1>2, <2>3
    <3> QED
      BY <1>3, <2>1, <2>2, <3>1, <3>2, <3>3, <3>4 DEF TypeOK
  <2>4. CASE pc[r] = "packages"
    BY <1>2, <1>3, <2>1, <2>2, <2>4 DEF TypeOK
  <2> QED
    BY <1>2, <2>3, <2>4
<1>5. Shared'
  BY <1>1, <1>2, Taken
<1>6. c \notin holds[r] /\ c \in Conns
  BY <1>1, <1>2 DEF Shared
<1>7. \A s \in Requests : s # r => holds'[s] = holds[s] /\ pc'[s] = pc[s] /\ rows'[s] = rows[s]
  BY <1>1, <1>2 DEF TypeOK, Go
<1>8. HoldsOK'
  <2>1. CASE pc[r] = "query"
    <3>1. holds[r] = {}
      BY <1>1, <2>1 DEF HoldsOK
    <3>2. holds'[r] = {c} /\ pc'[r] = "open"
      BY <1>1, <1>2, <2>1, <3>1 DEF TypeOK, Go
    <3> QED
      BY <1>6, <1>7, <3>2 DEF HoldsOK
  <2>2. CASE pc[r] = "packages"
    <3>1. PICK d \in Conns : holds[r] = {d}
      BY <1>1, <2>2 DEF HoldsOK
    <3>2. holds'[r] = {d, c} /\ d # c /\ pc'[r] = "inner"
      BY <1>1, <1>2, <1>6, <2>2, <3>1 DEF TypeOK, Go
    <3> QED
      BY <1>6, <1>7, <3>2 DEF HoldsOK
  <2> QED
    BY <1>2, <2>1, <2>2
<1>9. Nested'
  BY <1>1, <1>2, <1>7, PoolAssumption DEF Nested, TypeOK, Go
<1> QED
  BY <1>3, <1>4, <1>5, <1>8, <1>9

LEMMA ScanResourceInv ==
    ASSUME IInv, NEW r \in Requests, ScanResource(r)
    PROVE  IInv'
<1> USE DEF IInv
<1>1. queue' \in Seq(Requests) /\ QueueOK'
  <2>1. ~Waits(r) /\ Enqueue(r) /\ Go(r, "packages")
    BY DEF ScanResource, Waits
  <2> QED
    BY <2>1, Enqueued
<1>2. TypeOK'
  <2>1. rows[r] - 1 \in 0 .. MaxRows
    BY PoolAssumption DEF ScanResource, TypeOK
  <2> QED
    BY <1>1, <2>1 DEF ScanResource, TypeOK, Go, Steps
<1>3. HoldsOK'
  BY DEF ScanResource, HoldsOK, Go, TypeOK
<1>4. Nested'
  BY DEF ScanResource, Nested, Go, TypeOK
<1>5. Shared'
  BY DEF ScanResource, Shared
<1> QED
  BY <1>1, <1>2, <1>3, <1>4, <1>5

LEMMA ClosePackagesInv ==
    ASSUME IInv, NEW r \in Requests, ClosePackages(r)
    PROVE  IInv'
<1> USE DEF IInv
<1>1. PICK c \in holds[r] : holds' = [holds EXCEPT ![r] = @ \ {c}] /\ free' = free \cup {c}
  BY DEF ClosePackages
<1>2. TypeOK'
  BY <1>1 DEF ClosePackages, TypeOK, Go, Steps
<1>3. QueueOK'
  BY DEF ClosePackages, QueueOK, Waits, Go, TypeOK
<1>4. HoldsOK'
  <2>1. PICK d, e \in Conns : d # e /\ holds[r] = {d, e}
    BY DEF ClosePackages, HoldsOK
  <2>2. \E f \in Conns : holds'[r] = {f}
    BY <1>1, <2>1 DEF TypeOK
  <2>3. \A s \in Requests : s # r => holds'[s] = holds[s] /\ pc'[s] = pc[s]
    BY <1>1 DEF ClosePackages, Go, TypeOK
  <2>4. pc'[r] = "open"
    BY DEF ClosePackages, Go, TypeOK
  <2> QED
    BY <2>2, <2>3, <2>4 DEF HoldsOK
<1>5. Nested'
  BY DEF ClosePackages, Nested, Go, TypeOK
<1>6. Shared'
  BY <1>1, GivenBack
<1> QED
  BY <1>2, <1>3, <1>4, <1>5, <1>6

LEMMA CloseRowsInv ==
    ASSUME IInv, NEW r \in Requests, CloseRows(r)
    PROVE  IInv'
<1> USE DEF IInv
<1>1. queue' \in Seq(Requests) /\ QueueOK'
  <2>1. CASE Enqueue(r) /\ Go(r, "query")
    BY <2>1, Enqueued DEF CloseRows, Waits
  <2>2. CASE Go(r, "idle") /\ UNCHANGED queue
    BY <2>2 DEF CloseRows, QueueOK, Waits, Go, TypeOK
  <2> QED
    BY <2>1, <2>2 DEF CloseRows
<1>2. TypeOK'
  BY <1>1 DEF CloseRows, TypeOK, Go, Steps
<1>3. holds' = [holds EXCEPT ![r] = @ \ holds[r]]
  BY DEF CloseRows, TypeOK
<1>4. Shared'
  BY <1>3, GivenBack DEF CloseRows
<1>5. HoldsOK'
  BY DEF CloseRows, HoldsOK, Go, TypeOK
<1>6. Nested'
  BY DEF CloseRows, Nested, Go, TypeOK
<1> QED
  BY <1>1, <1>2, <1>4, <1>5, <1>6

LEMMA AbandonInv ==
    ASSUME IInv, NEW r \in Requests, Abandon(r)
    PROVE  IInv'
<1> USE DEF IInv
<1>1. queue' \in Seq(Requests) /\ QueueOK'
  BY HasLeft DEF Abandon
<1>2. TypeOK'
  BY <1>1, PoolAssumption DEF Abandon, TypeOK, Go, Steps
<1>3. holds' = [holds EXCEPT ![r] = @ \ holds[r]]
  BY DEF Abandon, TypeOK
<1>4. Shared'
  BY <1>3, GivenBack DEF Abandon
<1>5. HoldsOK'
  BY DEF Abandon, HoldsOK, Go, TypeOK
<1>6. Nested'
  BY DEF Abandon, Nested, Go, TypeOK
<1> QED
  BY <1>1, <1>2, <1>4, <1>5, <1>6

(* The strengthening holds in every reachable state.                       *)
THEOREM Inductive == Spec => []IInv
<1>1. ASSUME IInv, [Next]_vars
      PROVE  IInv'
  <2>1. CASE UNCHANGED vars
    <3>1. TypeOK' /\ QueueOK'
      BY <1>1, <2>1 DEF IInv, TypeOK, QueueOK, Waits, vars
    <3>2. HoldsOK' /\ Nested' /\ Shared'
      BY <1>1, <2>1 DEF IInv, HoldsOK, Nested, Shared, vars
    <3> QED
      BY <3>1, <3>2 DEF IInv
  <2>2. CASE Next
    <3>1. ASSUME NEW c \in Conns, Grant(c) PROVE IInv'
      BY <1>1, <3>1, GrantInv
    <3>2. ASSUME NEW r \in Requests, Arrive(r) PROVE IInv'
      BY <1>1, <3>2, ArriveInv
    <3>3. ASSUME NEW r \in Requests, Work(r) PROVE IInv'
      BY <1>1, <3>3, ScanResourceInv, ClosePackagesInv, CloseRowsInv DEF Work
    <3>4. ASSUME NEW r \in Requests, Abandon(r) PROVE IInv'
      BY <1>1, <3>4, AbandonInv
    <3> QED
      BY <2>2, <3>1, <3>2, <3>3, <3>4 DEF Next
  <2> QED
    BY <1>1, <2>1, <2>2
<1> QED
  BY InitInv, <1>1, PTL DEF Spec

-----------------------------------------------------------------------------
(* Every variable keeps its type: no queue names a stranger, no count      *)
(* leaves its bounds.                                                      *)
THEOREM TypeOKHolds == Spec => []TypeOK
<1>1. IInv => TypeOK
  BY DEF IInv
<1> QED
  BY Inductive, <1>1, PTL

(* Each connection is free or held by one request that is at work, however *)
(* requests are served, fail or are abandoned.                             *)
THEOREM NothingLeaksHolds == Spec => []NothingLeaks
<1>1. IInv => NothingLeaks
  BY DEF IInv, Shared, HoldsOK, NothingLeaks
<1> QED
  BY Inductive, <1>1, PTL

(* With more connections than resource requests there is always a          *)
(* connection that is free or held by a request that is not waiting: each  *)
(* of those that hold one and wait is a resource request and holds one.    *)
THEOREM NeverStuckHolds == Spec => []NeverStuck
<1>1. ASSUME IInv, Enough, Stuck
      PROVE  FALSE
  <2> DEFINE f == [r \in Resources |->
                    CHOOSE c \in Conns : holds[r] # {} => holds[r] = {c}]
  <2>1. \A r \in Requests : holds[r] # {} =>
          /\ r \in Resources
          /\ \E c \in Conns : holds[r] = {c}
    <3> SUFFICES ASSUME NEW r \in Requests, holds[r] # {}
                 PROVE  r \in Resources /\ \E c \in Conns : holds[r] = {c}
      OBVIOUS
    <3>1. pc[r] \in {"query", "packages"}
      BY <1>1 DEF Stuck, Waits
    <3>2. pc[r] = "packages"
      BY <1>1, <3>1 DEF IInv, HoldsOK
    <3> QED
      BY <1>1, <3>2 DEF IInv, HoldsOK, Nested
  <2>2. \A r \in Resources : \E c \in Conns : holds[r] # {} => holds[r] = {c}
    BY <2>1, PoolAssumption DEF Requests
  <2>3. f \in [Resources -> Conns]
    BY <2>2
  <2>4. \A r \in Resources : holds[r] # {} => holds[r] = {f[r]}
    BY <2>2
  <2> HIDE DEF f
  <2>5. PICK c \in Conns : \A r \in Resources : f[r] # c
    BY <1>1, <2>3 DEF Enough
  <2>6. PICK r \in Requests : c \in holds[r]
    BY <1>1, <2>5 DEF IInv, Shared, Stuck
  <2> QED
    BY <2>1, <2>4, <2>5, <2>6
<1>2. IInv => NeverStuck
  BY <1>1 DEF NeverStuck
<1> QED
  BY Inductive, <1>2, PTL
=============================================================================
