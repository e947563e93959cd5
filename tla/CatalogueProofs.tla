-------------------------- MODULE CatalogueProofs --------------------------
(***************************************************************************)
(* Proofs about Catalogue, which hold of every store that implements it:   *)
(* the order of publication always decides what a lookup finds.            *)
(***************************************************************************)
EXTENDS Catalogue, FiniteSetTheorems, TLAPS

(* A finite set of numbered things has one with the greatest number: a     *)
(* smallest subset that had none would have none after losing a member.    *)
LEMMA Greatest ==
    ASSUME NEW S, IsFiniteSet(S), S # {}, NEW f \in [S -> Nat]
    PROVE  \E x \in S : \A y \in S : f[y] <= f[x]
<1> DEFINE Bad == {T \in SUBSET S : T # {} /\ ~ \E x \in T : \A y \in T : f[y] <= f[x]}
           Less == StrictSubsetOrdering(S)
<1>1. SUFFICES ASSUME S \in Bad PROVE FALSE
  OBVIOUS
<1>2. IsWellFoundedOn(Less, SUBSET S)
  BY FS_StrictSubsetOrderingWellFounded, FS_FiniteSubsetsOfFinite
<1>3. PICK T \in Bad : \A U \in Bad : ~ (<<U, T>> \in Less)
  <2>1. Bad \subseteq SUBSET S /\ Bad # {}
    BY <1>1
  <2> HIDE DEF Bad, Less
  <2>2. QED BY <1>2, <2>1, WFMin
<1>4. PICK x \in T : TRUE
  BY <1>3
<1>5. <<T \ {x}, T>> \in Less
  BY <1>3, <1>4 DEF StrictSubsetOrdering
<1>6. T \ {x} \notin Bad
  BY <1>3, <1>5
<1>7. CASE T \ {x} = {}
  BY <1>3, <1>4, <1>7
<1>8. CASE T \ {x} # {}
  <2>1. PICK z \in T \ {x} : \A y \in T \ {x} : f[y] <= f[z]
    BY <1>3, <1>6, <1>8
  <2>2. \A y \in T : f[y] \in Nat
    BY <1>3
  <2>3. CASE f[z] <= f[x]
    <3>1. \A y \in T : f[y] <= f[x]
      BY <1>4, <2>1, <2>2, <2>3
    <3>2. QED BY <1>3, <1>4, <3>1
  <2>4. CASE ~(f[z] <= f[x])
    <3>1. \A y \in T : f[y] <= f[z]
      BY <1>4, <2>1, <2>2, <2>4
    <3>2. QED BY <1>3, <2>1, <3>1
  <2>5. QED BY <2>3, <2>4
<1>9. QED BY <1>7, <1>8

-----------------------------------------------------------------------------
(* Whatever is live has a place in the order of publication, and no two    *)
(* entries share one.                                                      *)
Order ==
    /\ stage \in [Entries -> Stages]
    /\ DOMAIN rank = Entries /\ \A k \in Entries : rank[k] \in Nat
    /\ \A k \in Entries : stage[k] = "live" => rank[k] # 0
    /\ \A j, k \in Entries : rank[j] = rank[k] /\ rank[j] # 0 => j = k

LEMMA OrderInit == Init => Order
BY DEF Init, Order, Stages

LEMMA OrderNext == ASSUME Order, [Next]_vars PROVE Order'
<1>1. CASE UNCHANGED <<stage, rank>>
  BY <1>1 DEF Order
<1>2. ASSUME NEW k \in Entries, Create(k)
      PROVE  Order'
  <2>1. /\ DOMAIN rank' = Entries
        /\ rank'[k] \in {0, rank[k]}
        /\ \A j \in Entries \ {k} : rank'[j] = rank[j]
    BY <1>2 DEF Create, ChangedAt, Order
  <2>2. /\ stage' \in [Entries -> Stages]
        /\ stage'[k] = "draft"
        /\ \A j \in Entries \ {k} : stage'[j] = stage[j]
    BY <1>2 DEF Create, Order, Stages
  <2>3. QED BY <2>1, <2>2 DEF Order
<1>3. ASSUME NEW k \in Entries, Publish(k)
      PROVE  Order'
  <2>1. stage' \in [Entries -> Stages] /\ \A j \in Entries \ {k} : stage'[j] = stage[j]
    BY <1>3 DEF Publish, Order, Stages
  <2>2. CASE rank[k] # 0
    BY <1>3, <2>1, <2>2 DEF Publish, Order
  <2>3. CASE rank[k] = 0
    <3>1. /\ DOMAIN rank' = Entries /\ rank'[k] \in Nat
          /\ \A j \in Entries \ {k} : rank'[j] = rank[j]
          /\ \A j \in Entries : rank[j] < rank'[k]
      BY <1>3, <2>3 DEF Publish, ChangedAt, Order
    <3>2. QED BY <2>1, <3>1 DEF Order
  <2>4. QED BY <2>2, <2>3
<1>4. ASSUME NEW S \in SUBSET Entries, Withdraw(S)
      PROVE  Order'
  BY <1>4 DEF Withdraw, Order, Stages
<1>5. QED
  BY <1>1, <1>2, <1>3, <1>4 DEF Next, vars, Rollout, Lookup, LookupFails

-----------------------------------------------------------------------------
(* A lookup leaves no choice: of the entries it may find one was published *)
(* after all the others.                                                   *)
Decided ==
    \A d \in Devices : Candidates(d) # {} =>
        \E k \in Candidates(d) : \A j \in Candidates(d) \ {k} : rank[j] < rank[k]

LEMMA OrderDecides == ASSUME IsFiniteSet(Entries), Order PROVE Decided
<1>1. SUFFICES ASSUME NEW d \in Devices, Candidates(d) # {}
               PROVE  \E k \in Candidates(d) :
                          \A j \in Candidates(d) \ {k} : rank[j] < rank[k]
  BY DEF Decided
<1> DEFINE S == Candidates(d)
           f == [k \in S |-> rank[k]]
<1>2. S \subseteq Entries /\ IsFiniteSet(S)
  BY FS_Subset DEF Candidates
<1>3. f \in [S -> Nat]
  BY <1>2 DEF Order
<1>4. PICK k \in S : \A j \in S : f[j] <= f[k]
  <2> HIDE DEF S, f
  <2>1. S # {}
    BY <1>1 DEF S
  <2>2. QED BY <1>2, <1>3, <2>1, Greatest
<1>5. \A j \in S \ {k} : rank[j] # rank[k] /\ rank[j] <= rank[k]
  BY <1>2, <1>4 DEF Order, Candidates
<1>6. QED BY <1>2, <1>4, <1>5 DEF Order

(* Whatever was registered, published, withdrawn and published again, what *)
(* a lookup finds is decided by the order of publication alone.            *)
THEOREM DecidedHolds == IsFiniteSet(Entries) => (Spec => []Decided)
<1>1. IsFiniteSet(Entries) /\ Order => Decided
  BY OrderDecides
<1>2. Order /\ [Next]_vars => Order'
  BY OrderNext
<1>3. SUFFICES ASSUME IsFiniteSet(Entries) PROVE Spec => []Decided
  OBVIOUS
<1>4. Order => Decided
  BY <1>1, <1>3
<1>5. QED BY OrderInit, <1>2, <1>4, PTL DEF Spec
=============================================================================
