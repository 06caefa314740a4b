--------------------------- MODULE TTLCacheProofs ---------------------------
(***************************************************************************)
(* Theorems about TTLCache: types, the bound on garbage, and that the      *)
(* cache implements TTLMap.                                                *)
(***************************************************************************)
EXTENDS TTLCache, FiniteSetTheorems, TLAPS

(* The map holds finitely many keys: it starts empty and grows one by one. *)
Inv == TypeOK /\ IsFiniteSet(DOMAIN m)

-----------------------------------------------------------------------------
(* What the maps that the helpers build look like. *)

LEMMA WithFacts ==
  ASSUME Inv, NEW k \in Key, NEW v \in Val, NEW t \in Ttl
  PROVE  LET w == With(k, v, t) IN
         /\ DOMAIN w = DOMAIN m \union {k}
         /\ w[k] = [val |-> v, expiresAt |-> now + t]
         /\ \A x \in DOMAIN m \ {k} : w[x] = m[x]
         /\ w \in [DOMAIN w -> Entry]
         /\ DOMAIN w \subseteq Key
         /\ IsFiniteSet(DOMAIN w)
         /\ Cardinality(DOMAIN w) <= Cardinality(DOMAIN m) + 1
<1>1. /\ DOMAIN With(k, v, t) = DOMAIN m \union {k}
      /\ With(k, v, t)[k] = [val |-> v, expiresAt |-> now + t]
      /\ \A x \in DOMAIN m \ {k} : With(k, v, t)[x] = m[x]
  BY DEF With
<1>2. now + t \in Nat
  BY CacheAssumption DEF Inv, TypeOK
<1>3. With(k, v, t) \in [DOMAIN m \union {k} -> Entry]
  BY <1>2 DEF With, Entry, Inv, TypeOK
<1>4. IsFiniteSet(DOMAIN m \union {k})
  BY FS_AddElement DEF Inv
<1>5. Cardinality(DOMAIN m \union {k}) <= Cardinality(DOMAIN m) + 1
  <2>1. Cardinality(DOMAIN m) \in Nat
    BY FS_CardinalityType DEF Inv
  <2>2. \/ Cardinality(DOMAIN m \union {k}) = Cardinality(DOMAIN m)
        \/ Cardinality(DOMAIN m \union {k}) = Cardinality(DOMAIN m) + 1
    BY FS_AddElement DEF Inv
  <2> QED
    BY <2>1, <2>2
<1> QED
  BY <1>1, <1>3, <1>4, <1>5 DEF Inv, TypeOK

LEMMA SweptFacts ==
  ASSUME NEW f, IsFiniteSet(DOMAIN f)
  PROVE  /\ DOMAIN Swept(f) = {x \in DOMAIN f : ~Expired(f[x])}
         /\ \A x \in DOMAIN Swept(f) : Swept(f)[x] = f[x]
         /\ IsFiniteSet(DOMAIN Swept(f))
         /\ Cardinality(DOMAIN Swept(f)) \in Nat
<1>1. /\ DOMAIN Swept(f) = {x \in DOMAIN f : ~Expired(f[x])}
      /\ \A x \in DOMAIN Swept(f) : Swept(f)[x] = f[x]
  BY DEF Swept
<1>2. IsFiniteSet(DOMAIN Swept(f))
  BY <1>1, FS_Subset
<1> QED
  BY <1>1, <1>2, FS_CardinalityType

LEMMA DeleteFacts ==
  ASSUME Inv, NEW k \in Key, delete(k)
  PROVE  /\ DOMAIN m' = DOMAIN m \ {k}
         /\ \A x \in DOMAIN m \ {k} : m'[x] = m[x]
         /\ m' \in [DOMAIN m' -> Entry] /\ DOMAIN m' \subseteq Key
         /\ IsFiniteSet(DOMAIN m')
         /\ Cardinality(DOMAIN m') <= Cardinality(DOMAIN m)
<1>1. /\ DOMAIN m' = DOMAIN m \ {k}
      /\ \A x \in DOMAIN m \ {k} : m'[x] = m[x]
  BY DEF delete
<1>2. m' \in [DOMAIN m' -> Entry] /\ DOMAIN m' \subseteq Key
  BY <1>1 DEF delete, Inv, TypeOK
<1>3. IsFiniteSet(DOMAIN m') /\ Cardinality(DOMAIN m') <= Cardinality(DOMAIN m)
  BY <1>1, FS_Subset DEF Inv
<1> QED
  BY <1>1, <1>2, <1>3

-----------------------------------------------------------------------------
(* One step of store: types, and the garbage that it may leave. *)

LEMMA StoreStep ==
  ASSUME Inv, NEW k \in Key, NEW v \in Val, NEW t \in Ttl, store(k, v, t), now' = now
  PROVE  /\ DOMAIN m' \subseteq Key /\ m' \in [DOMAIN m' -> Entry]
         /\ IsFiniteSet(DOMAIN m')
         /\ stores' \in 0 .. SweepInterval - 1
         /\ kept' \in Nat /\ sweptAt' \in 0 .. now
         /\ GarbageBounded => GarbageBounded'
<1> DEFINE w == With(k, v, t)
<1>w. /\ DOMAIN w = DOMAIN m \union {k}
      /\ w[k] = [val |-> v, expiresAt |-> now + t]
      /\ \A x \in DOMAIN m \ {k} : w[x] = m[x]
      /\ w \in [DOMAIN w -> Entry] /\ DOMAIN w \subseteq Key
      /\ IsFiniteSet(DOMAIN w)
      /\ Cardinality(DOMAIN w) <= Cardinality(DOMAIN m) + 1
  BY WithFacts
<1>n. /\ now \in Nat /\ t \in Nat /\ stores \in 0 .. SweepInterval - 1
      /\ kept \in Nat /\ sweptAt \in 0 .. now /\ SweepInterval \in Nat \ {0}
  BY CacheAssumption DEF Inv, TypeOK
<1>c. Cardinality(DOMAIN m) \in Nat /\ Cardinality(DOMAIN w) \in Nat
  BY <1>w, FS_CardinalityType DEF Inv
<1> HIDE DEF w
<1>1. ASSUME stores + 1 < SweepInterval, m' = w, stores' = stores + 1,
             kept' = kept, sweptAt' = sweptAt
      PROVE  /\ DOMAIN m' \subseteq Key /\ m' \in [DOMAIN m' -> Entry]
             /\ IsFiniteSet(DOMAIN m')
             /\ stores' \in 0 .. SweepInterval - 1
             /\ kept' \in Nat /\ sweptAt' \in 0 .. now
             /\ GarbageBounded => GarbageBounded'
  <2>1. ASSUME GarbageBounded PROVE GarbageBounded'
    <3>1. ASSUME NEW x \in DOMAIN m' PROVE m'[x].expiresAt >= sweptAt'
      BY <1>1, <1>w, <1>n, <2>1, <3>1 DEF GarbageBounded
    <3>2. Cardinality(DOMAIN m') <= kept' + stores'
      BY <1>1, <1>w, <1>n, <1>c, <2>1 DEF GarbageBounded
    <3> QED
      BY <3>1, <3>2 DEF GarbageBounded
  <2> QED
    BY <1>1, <1>w, <1>n, <2>1
<1>2. ASSUME m' = Swept(w), stores' = 0, kept' = Cardinality(DOMAIN m'), sweptAt' = now
      PROVE  /\ DOMAIN m' \subseteq Key /\ m' \in [DOMAIN m' -> Entry]
             /\ IsFiniteSet(DOMAIN m')
             /\ stores' \in 0 .. SweepInterval - 1
             /\ kept' \in Nat /\ sweptAt' \in 0 .. now
             /\ GarbageBounded'
  <2>1. /\ DOMAIN m' = {x \in DOMAIN w : ~Expired(w[x])}
        /\ \A x \in DOMAIN m' : m'[x] = w[x]
        /\ IsFiniteSet(DOMAIN m') /\ Cardinality(DOMAIN m') \in Nat
    BY <1>2, <1>w, SweptFacts
  <2>2. m' \in [DOMAIN m' -> Entry]
    BY <1>2, <1>w, <2>1 DEF Swept
  <2>3. ASSUME NEW x \in DOMAIN m' PROVE m'[x].expiresAt >= sweptAt'
    <3>1. x \in DOMAIN w /\ ~(now > w[x].expiresAt) /\ m'[x] = w[x]
      BY <2>1, <2>3 DEF Expired
    <3>2. w[x].expiresAt \in Nat
      BY <1>w, <3>1 DEF Entry
    <3> QED
      BY <1>2, <1>n, <3>1, <3>2
  <2>4. GarbageBounded'
    BY <1>2, <2>1, <2>3 DEF GarbageBounded
  <2> QED
    BY <1>2, <1>w, <1>n, <2>1, <2>2, <2>4
<1> QED
  BY <1>1, <1>2 DEF store, w

(* Every call either stores, deletes or leaves the map alone. *)
Result == [ok : BOOLEAN, val : Val]
Stores == \E k \in Key, v \in Val, t \in Ttl : store(k, v, t) /\ UNCHANGED now
Deletes == \E k \in Key : delete(k) /\ UNCHANGED <<now, stores, kept, sweptAt>>
Reads == UNCHANGED <<now, m, stores, kept, sweptAt>>

LEMMA Calls ==
  ASSUME Inv, [Next]_vars
  PROVE  out' \in Result /\ (Stores \/ Deletes \/ Reads \/ Tick)
<1>z. Zero \in Val /\ out \in Result
  BY CacheAssumption DEF Inv, TypeOK, Result
<1>v. ASSUME NEW k \in Key PROVE Live(k) => m[k].val \in Val
  BY <1>v DEF Live, Inv, TypeOK, Entry
<1>1. ASSUME NEW k \in Key, Get(k)
      PROVE  out' \in Result /\ (Deletes \/ Reads)
  <2>1. CASE Live(k)
    <3>1. Seen(TRUE, m[k].val) /\ UNCHANGED <<now, m, stores, kept, sweptAt>>
      BY <1>1, <2>1 DEF Get
    <3> QED
      BY <2>1, <3>1, <1>v DEF Seen, Result, Reads
  <2>2. CASE ~Live(k)
    <3>1. Seen(FALSE, Zero) /\ delete(k) /\ UNCHANGED <<now, stores, kept, sweptAt>>
      BY <1>1, <2>2 DEF Get
    <3> QED
      BY <3>1, <1>z DEF Seen, Result, Deletes
  <2> QED
    BY <2>1, <2>2
<1>2. ASSUME NEW k \in Key, Delete(k)
      PROVE  out' \in Result /\ Deletes
  BY <1>2, <1>z DEF Delete, Seen, Result, Deletes
<1>3. ASSUME NEW k \in Key, NEW v \in Val, NEW t \in Ttl, Set(k, v, t)
      PROVE  out' \in Result /\ Stores
  BY <1>3, <1>z DEF Set, Seen, Result, Stores
<1>4. ASSUME NEW k \in Key, NEW v \in Val, NEW t \in Ttl, SetIfAbsent(k, v, t)
      PROVE  out' \in Result /\ (Stores \/ Reads)
  <2>1. \/ Seen(FALSE, Zero) /\ UNCHANGED <<now, m, stores, kept, sweptAt>>
        \/ Seen(TRUE, Zero) /\ store(k, v, t) /\ UNCHANGED now
    BY <1>4 DEF SetIfAbsent
  <2>2. out' \in Result
    <3>1. CASE Seen(TRUE, Zero)
      BY <3>1, <1>z DEF Seen, Result
    <3>2. CASE Seen(FALSE, Zero)
      BY <3>2, <1>z DEF Seen, Result
    <3> QED
      BY <2>1, <3>1, <3>2
  <2>3. Stores \/ Reads
    BY <2>1 DEF Stores, Reads
  <2> QED
    BY <2>2, <2>3
<1>5. ASSUME NEW k \in Key, NEW t \in Ttl, NEW f \in Fn, Update(k, t, f)
      PROVE  out' \in Result /\ Stores
  <2> DEFINE cur == IF Live(k) THEN m[k].val ELSE Zero
  <2>1. cur \in Val /\ f[cur] \in Val
    BY <1>z, <1>v, CacheAssumption
  <2>2. store(k, f[cur], t) /\ Seen(TRUE, cur) /\ UNCHANGED now
    BY <1>5 DEF Update
  <2> HIDE DEF cur
  <2> QED
    BY <2>1, <2>2 DEF Seen, Result, Stores
<1>6. CASE Tick
  BY <1>6, <1>z DEF Tick
<1>7. CASE UNCHANGED vars
  BY <1>7, <1>z DEF vars, Reads
<1> QED
  BY <1>1, <1>2, <1>3, <1>4, <1>5, <1>6, <1>7 DEF Next

LEMMA CacheStep ==
  ASSUME Inv, [Next]_vars
  PROVE  Inv' /\ (GarbageBounded => GarbageBounded')
<1>o. out' \in Result
  BY Calls
<1>n. /\ now \in Nat /\ stores \in 0 .. SweepInterval - 1 /\ SweepInterval \in Nat \ {0}
      /\ kept \in Nat /\ sweptAt \in 0 .. now
  BY CacheAssumption DEF Inv, TypeOK
<1>1. CASE Stores
  <2>1. PICK k \in Key, v \in Val, t \in Ttl : store(k, v, t) /\ UNCHANGED now
    BY <1>1 DEF Stores
  <2>2. /\ DOMAIN m' \subseteq Key /\ m' \in [DOMAIN m' -> Entry]
        /\ IsFiniteSet(DOMAIN m')
        /\ stores' \in 0 .. SweepInterval - 1
        /\ kept' \in Nat /\ sweptAt' \in 0 .. now
        /\ GarbageBounded => GarbageBounded'
    BY <2>1, StoreStep
  <2> QED
    BY <2>1, <2>2, <1>o, <1>n DEF Inv, TypeOK, Result
<1>2. CASE Deletes
  <2>1. PICK k \in Key : delete(k) /\ UNCHANGED <<now, stores, kept, sweptAt>>
    BY <1>2 DEF Deletes
  <2>2. /\ DOMAIN m' = DOMAIN m \ {k}
        /\ \A x \in DOMAIN m \ {k} : m'[x] = m[x]
        /\ m' \in [DOMAIN m' -> Entry] /\ DOMAIN m' \subseteq Key
        /\ IsFiniteSet(DOMAIN m')
        /\ Cardinality(DOMAIN m') <= Cardinality(DOMAIN m)
    BY <2>1, DeleteFacts
  <2>3. Cardinality(DOMAIN m) \in Nat /\ Cardinality(DOMAIN m') \in Nat
    BY <2>2, FS_CardinalityType DEF Inv
  <2>4. Inv'
    BY <2>1, <2>2, <1>o, <1>n DEF Inv, TypeOK, Result
  <2>5. ASSUME GarbageBounded PROVE GarbageBounded'
    BY <2>1, <2>2, <2>3, <2>5, <1>n DEF GarbageBounded
  <2> QED
    BY <2>4, <2>5
<1>3. CASE Reads
  BY <1>3, <1>o DEF Reads, Inv, TypeOK, Result, GarbageBounded
<1>4. CASE Tick
  BY <1>4, <1>o, <1>n DEF Tick, Inv, TypeOK, Result, GarbageBounded
<1> QED
  BY <1>1, <1>2, <1>3, <1>4, Calls

LEMMA CacheInit == Init => Inv /\ GarbageBounded
<1> SUFFICES ASSUME Init PROVE Inv /\ GarbageBounded
  OBVIOUS
<1>1. DOMAIN m = {}
  BY DEF Init
<1>2. IsFiniteSet({}) /\ Cardinality({}) = 0
  BY FS_EmptySet
<1>3. m \in [{} -> Entry]
  BY DEF Init
<1>4. TypeOK
  BY <1>1, <1>3, CacheAssumption DEF Init, TypeOK
<1> QED
  BY <1>1, <1>2, <1>4 DEF Init, Inv, GarbageBounded

LEMMA Invariant == Spec => []Inv
BY CacheInit, CacheStep, PTL DEF Spec

(* The counter of stores stays below the sweep interval, and the history   *)
(* of the sweep never runs ahead of the clock.                             *)
THEOREM TypeCorrect == Spec => []TypeOK
<1>1. Inv => TypeOK
  BY DEF Inv
<1> QED
  BY <1>1, Invariant, PTL

(* Whatever is called in whatever order, nothing that was dead at the last *)
(* sweep is held, and the map outgrows what the sweep left only by the     *)
(* stores since.                                                           *)
THEOREM GarbageIsBounded == Spec => []GarbageBounded
<1>1. Inv /\ GarbageBounded /\ [Next]_vars => GarbageBounded'
  BY CacheStep
<1> QED
  BY <1>1, CacheInit, Invariant, PTL DEF Spec

-----------------------------------------------------------------------------
(* The refinement: what each kind of step does to the live part of the map. *)

LEMMA View ==
  /\ DOMAIN LiveView = {x \in DOMAIN m : Live(x)}
  /\ \A x \in DOMAIN LiveView : LiveView[x] = m[x]
BY DEF LiveView, Live

LEMMA ViewNext ==
  /\ DOMAIN LiveView' = {x \in DOMAIN m' : ~(now' > m'[x].expiresAt)}
  /\ LiveView' = [x \in DOMAIN LiveView' |-> m'[x]]
BY DEF LiveView, Expired

LEMMA StoreSeen ==
  ASSUME Inv, NEW k \in Key, NEW v \in Val, NEW t \in Ttl, store(k, v, t), now' = now
  PROVE  Promise!Put(k, v, t)
<1> DEFINE w == With(k, v, t)
           e == [val |-> v, expiresAt |-> now + t]
<1>w. /\ DOMAIN w = DOMAIN m \union {k} /\ w[k] = e
      /\ \A x \in DOMAIN m \ {k} : w[x] = m[x]
      /\ IsFiniteSet(DOMAIN w)
  BY WithFacts
<1>e. ~(now > e.expiresAt)
  BY CacheAssumption DEF Inv, TypeOK
<1> HIDE DEF w
<1>1. /\ {x \in DOMAIN m' : ~(now > m'[x].expiresAt)} = {x \in DOMAIN w : ~(now > w[x].expiresAt)}
      /\ \A x \in DOMAIN m' : m'[x] = w[x]
  <2>1. CASE m' = w
    BY <2>1
  <2>2. CASE m' = Swept(w)
    <3>1. /\ DOMAIN m' = {x \in DOMAIN w : ~Expired(w[x])}
          /\ \A x \in DOMAIN m' : m'[x] = w[x]
      BY <2>2, <1>w, SweptFacts
    <3> QED
      BY <3>1 DEF Expired
  <2> QED
    BY <2>1, <2>2 DEF store, w
<1>2. {x \in DOMAIN w : ~(now > w[x].expiresAt)} = DOMAIN LiveView \union {k}
  BY <1>w, <1>e, View DEF Live, Expired
<1>3. DOMAIN LiveView' = DOMAIN LiveView \union {k}
  BY <1>1, <1>2, ViewNext
<1>4. \A x \in DOMAIN LiveView' : m'[x] = IF x = k THEN e ELSE LiveView[x]
  BY <1>1, <1>3, <1>w, View, ViewNext
<1>5. LiveView' = [x \in DOMAIN LiveView \union {k} |-> IF x = k THEN e ELSE LiveView[x]]
  BY <1>3, <1>4, ViewNext
<1> QED
  BY <1>5 DEF Promise!Put

LEMMA DeleteSeen ==
  ASSUME Inv, NEW k \in Key, delete(k), now' = now
  PROVE  LiveView' = [x \in DOMAIN LiveView \ {k} |-> LiveView[x]]
<1>1. DOMAIN m' = DOMAIN m \ {k} /\ \A x \in DOMAIN m \ {k} : m'[x] = m[x]
  BY DeleteFacts
<1>2. DOMAIN LiveView' = DOMAIN LiveView \ {k}
  BY <1>1, View, ViewNext DEF Live, Expired
<1>3. \A x \in DOMAIN LiveView' : m'[x] = LiveView[x]
  BY <1>1, <1>2, View
<1> QED
  BY <1>2, <1>3, ViewNext

LEMMA TickSeen ==
  ASSUME Inv, Tick
  PROVE  /\ Promise!Tick
<1>1. /\ now < MaxTime /\ now' = now + 1 /\ m' = m /\ out' = out /\ now \in Nat
      /\ \A x \in DOMAIN m : m[x].expiresAt \in Nat
  BY DEF Tick, Inv, TypeOK, Entry
<1>2. DOMAIN LiveView' = {x \in DOMAIN LiveView : LiveView[x].expiresAt >= now'}
  BY <1>1, View, ViewNext DEF Live, Expired
<1>3. \A x \in DOMAIN LiveView' : m'[x] = LiveView[x]
  BY <1>1, <1>2, View
<1> QED
  BY <1>1, <1>2, <1>3, ViewNext DEF Promise!Tick

LEMMA CallsSeen ==
  ASSUME Inv, [Next]_vars
  PROVE  [Promise!Next]_(Promise!vars)
<1> USE DEF Seen, Promise!Seen
<1>same. UNCHANGED <<now, m>> => LiveView' = LiveView
  BY DEF LiveView, Expired
<1>live. \A k \in Key : k \in DOMAIN LiveView <=> Live(k)
  BY View DEF Live
<1>1. ASSUME NEW k \in Key, Get(k)
      PROVE  Promise!Get(k)
  <2>1. CASE Live(k)
    <3>1. out' = [ok |-> TRUE, val |-> m[k].val] /\ UNCHANGED <<now, m>>
      BY <1>1, <2>1 DEF Get
    <3> QED
      BY <2>1, <3>1, <1>same, <1>live, View DEF Promise!Get
  <2>2. CASE ~Live(k)
    <3>1. /\ out' = [ok |-> FALSE, val |-> Zero]
          /\ delete(k) /\ now' = now
      BY <1>1, <2>2 DEF Get
    <3>2. LiveView' = [x \in DOMAIN LiveView \ {k} |-> LiveView[x]]
      BY <3>1, DeleteSeen
    <3>3. LiveView = [x \in DOMAIN LiveView |-> LiveView[x]] /\ k \notin DOMAIN LiveView
      BY <2>2, <1>live DEF LiveView
    <3>4. LiveView' = LiveView
      BY <3>2, <3>3
    <3> QED
      BY <3>1, <3>3, <3>4 DEF Promise!Get
  <2> QED
    BY <2>1, <2>2
<1>2. ASSUME NEW k \in Key, Delete(k)
      PROVE  Promise!Delete(k)
  <2>1. delete(k) /\ now' = now /\ out' = [ok |-> TRUE, val |-> Zero]
    BY <1>2 DEF Delete
  <2> QED
    BY <2>1, DeleteSeen DEF Promise!Delete
<1>3. ASSUME NEW k \in Key, NEW v \in Val, NEW t \in Ttl, Set(k, v, t)
      PROVE  Promise!Set(k, v, t)
  <2>1. store(k, v, t) /\ now' = now /\ Seen(TRUE, Zero)
    BY <1>3 DEF Set
  <2>2. Promise!Put(k, v, t)
    BY <2>1, StoreSeen
  <2> QED
    BY <2>1, <2>2 DEF Promise!Set
<1>4. ASSUME NEW k \in Key, NEW v \in Val, NEW t \in Ttl, SetIfAbsent(k, v, t)
      PROVE  Promise!SetIfAbsent(k, v, t)
  <2>1. CASE Live(k)
    <3>1. Seen(FALSE, Zero) /\ UNCHANGED <<now, m>>
      BY <1>4, <2>1 DEF SetIfAbsent
    <3> QED
      BY <2>1, <3>1, <1>same, <1>live DEF Promise!SetIfAbsent
  <2>2. CASE ~Live(k)
    <3>1. store(k, v, t) /\ now' = now /\ Seen(TRUE, Zero)
      BY <1>4, <2>2 DEF SetIfAbsent
    <3>2. Promise!Put(k, v, t)
      BY <3>1, StoreSeen
    <3> QED
      BY <2>2, <3>1, <3>2, <1>live DEF Promise!SetIfAbsent
  <2> QED
    BY <2>1, <2>2
<1>5. ASSUME NEW k \in Key, NEW t \in Ttl, NEW f \in Fn, Update(k, t, f)
      PROVE  Promise!Update(k, t, f)
  <2> DEFINE cur == IF Live(k) THEN m[k].val ELSE Zero
  <2>1. f[cur] \in Val
    BY CacheAssumption DEF Live, Inv, TypeOK, Entry
  <2>2. store(k, f[cur], t) /\ Seen(TRUE, cur) /\ now' = now
    BY <1>5 DEF Update
  <2>3. cur = IF k \in DOMAIN LiveView THEN LiveView[k].val ELSE Zero
    BY <1>live, View
  <2> HIDE DEF cur
  <2>4. Promise!Put(k, f[cur], t)
    BY <2>1, <2>2, StoreSeen
  <2> QED
    BY <2>2, <2>3, <2>4 DEF Promise!Update
<1>6. CASE Tick
  BY <1>6, TickSeen DEF Promise!Next
<1>7. CASE UNCHANGED vars
  BY <1>7, <1>same DEF vars, Promise!vars
<1> QED
  BY <1>1, <1>2, <1>3, <1>4, <1>5, <1>6, <1>7 DEF Next, Promise!Next

(* No caller can tell the cache from a map whose entries vanish when they  *)
(* expire: neither lazy eviction nor the sweep shows in any result.        *)
THEOREM Implements == Spec => ImplementsTTLMap
<1>1. Init => Promise!Init
  <2> SUFFICES ASSUME Init PROVE Promise!Init
    OBVIOUS
  <2>1. DOMAIN LiveView = {}
    BY View DEF Init
  <2>2. LiveView = [x \in {} |-> Zero]
    BY <2>1 DEF LiveView
  <2> QED
    BY <2>2 DEF Init, Promise!Init
<1> QED
  BY <1>1, Invariant, CallsSeen, PTL DEF Spec, ImplementsTTLMap, Promise!Spec
=============================================================================
