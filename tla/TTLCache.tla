------------------------------ MODULE TTLCache ------------------------------
(***************************************************************************)
(* internal/cache/ttl.go: the mutex-protected TTL map behind the dedup     *)
(* guard, the spam sightings, the DM channels and the bot's own members.   *)
(* Every method runs under c.mu from its first line to its return, so each *)
(* is one action.  Expired entries stay in the map until a Get, a store of *)
(* the same key or the sweep that every sweepInterval-th store runs.       *)
(*                                                                         *)
(* kept and sweptAt are history: how many entries the last sweep left and  *)
(* when it ran.                                                            *)
(***************************************************************************)
EXTENDS Integers, FiniteSets

CONSTANTS
    Key, Val, Zero, Ttl, Fn, MaxTime,
    SweepInterval       \* sweepInterval, 128 in the code

ASSUME CacheAssumption ==
    /\ Zero \in Val
    /\ Ttl \subseteq Nat
    /\ Fn \subseteq [Val -> Val]
    /\ MaxTime \in Nat
    /\ SweepInterval \in Nat \ {0}

VARIABLES
    now,        \* time.Now()
    m,          \* c.m: a function from some keys to entries
    stores,     \* c.stores: stores since the last sweep
    out,        \* what the last operation returned or showed its callback
    kept,       \* history: the size of the map after the last sweep
    sweptAt     \* history: the time of the last sweep

vars == <<now, m, stores, out, kept, sweptAt>>

Entry == [val : Val, expiresAt : Nat]

TypeOK ==
    /\ now \in Nat
    /\ DOMAIN m \subseteq Key
    /\ m \in [DOMAIN m -> Entry]
    /\ stores \in 0 .. SweepInterval - 1
    /\ out \in [ok : BOOLEAN, val : Val]
    /\ kept \in Nat
    /\ sweptAt \in 0 .. now

-----------------------------------------------------------------------------
(* mutant: an entry dies at expiresAt itself *)
ExpiredEarly(e) == now >= e.expiresAt

(* time.Now().After(e.expiresAt): an entry is still live at expiresAt itself *)
Expired(e) == now > e.expiresAt

Live(k) == k \in DOMAIN m /\ ~Expired(m[k])

Seen(ok, v) == out' = [ok |-> ok, val |-> v]

Init ==
    /\ now = 0
    /\ m = [k \in {} |-> Zero]
    /\ stores = 0
    /\ out = [ok |-> FALSE, val |-> Zero]
    /\ kept = 0
    /\ sweptAt = 0

With(k, v, t) ==
    [x \in DOMAIN m \union {k} |->
        IF x = k THEN [val |-> v, expiresAt |-> now + t] ELSE m[x]]

(* mutant: a sweep that deletes nothing *)
SweptNothing(map) == map

Swept(map) == [k \in {x \in DOMAIN map : ~Expired(map[x])} |-> map[k]]

(* mutant: the counter is not reset by the sweep *)
storeWithoutReset(k, v, t) ==
    /\ m' = IF stores + 1 < SweepInterval THEN With(k, v, t) ELSE Swept(With(k, v, t))
    /\ stores' = stores + 1
    /\ UNCHANGED <<kept, sweptAt>>

(* store: add the entry; every SweepInterval-th call drops what has expired *)
store(k, v, t) ==
    LET added == With(k, v, t)
    IN  \/ /\ stores + 1 < SweepInterval
           /\ m' = added
           /\ stores' = stores + 1
           /\ UNCHANGED <<kept, sweptAt>>
        \/ /\ stores + 1 >= SweepInterval
           /\ m' = Swept(added)
           /\ stores' = 0
           /\ kept' = Cardinality(DOMAIN m')
           /\ sweptAt' = now

delete(k) == m' = [x \in DOMAIN m \ {k} |-> m[x]]

Set(k, v, t) == store(k, v, t) /\ Seen(TRUE, Zero) /\ UNCHANGED now

Get(k) ==
    /\ \/ Live(k) /\ Seen(TRUE, m[k].val) /\ UNCHANGED m
       \/ ~Live(k) /\ Seen(FALSE, Zero) /\ delete(k)
    /\ UNCHANGED <<now, stores, kept, sweptAt>>

SetIfAbsent(k, v, t) ==
    /\ \/ Live(k) /\ Seen(FALSE, Zero) /\ UNCHANGED <<m, stores, kept, sweptAt>>
       \/ ~Live(k) /\ store(k, v, t) /\ Seen(TRUE, Zero)
    /\ UNCHANGED now

(* the callback sees the live value or the zero value, never a dead one *)
Update(k, t, f) ==
    LET cur == IF Live(k) THEN m[k].val ELSE Zero
    IN  store(k, f[cur], t) /\ Seen(TRUE, cur) /\ UNCHANGED now

Delete(k) ==
    /\ delete(k)
    /\ Seen(TRUE, Zero)
    /\ UNCHANGED <<now, stores, kept, sweptAt>>

Tick ==
    /\ now < MaxTime
    /\ now' = now + 1
    /\ UNCHANGED <<m, stores, out, kept, sweptAt>>

Next ==
    \/ Tick
    \/ \E k \in Key :
        \/ Get(k)
        \/ Delete(k)
        \/ \E t \in Ttl :
            \/ \E v \in Val : Set(k, v, t) \/ SetIfAbsent(k, v, t)
            \/ \E f \in Fn : Update(k, t, f)

Spec == Init /\ [][Next]_vars

-----------------------------------------------------------------------------
(* "Write-once keys that are never read again don't accumulate forever"    *)
(* (ttl.go, package comment): nothing that was expired when the last sweep *)
(* ran is still held, and the map has outgrown what that sweep left by at  *)
(* most one entry per store since.  With stores < SweepInterval this bounds *)
(* the garbage the process carries.                                        *)
GarbageBounded ==
    /\ \A k \in DOMAIN m : m[k].expiresAt >= sweptAt
    /\ Cardinality(DOMAIN m) <= kept + stores

(* The sweep and the lazy eviction cannot be seen from outside: the live   *)
(* part of the map goes through the steps of TTLMap, and every call        *)
(* returns, and every Update callback sees, what TTLMap says.              *)
LiveView == [k \in {x \in DOMAIN m : ~Expired(m[x])} |-> m[k]]

Promise == INSTANCE TTLMap WITH live <- LiveView

ImplementsTTLMap == Promise!Spec
=============================================================================
