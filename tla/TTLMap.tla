------------------------------- MODULE TTLMap -------------------------------
(***************************************************************************)
(* What internal/cache promises its callers: a map whose entries vanish at *)
(* the instant they expire.  There is no lazy eviction and no sweep here;  *)
(* TTLCache, the module that models the code, is shown to implement this.  *)
(***************************************************************************)
EXTENDS Integers

CONSTANTS
    Key,        \* keys of the map
    Val,        \* values of the map
    Zero,       \* the zero value of the Go type V
    Ttl,        \* the durations callers pass
    Fn,         \* the functions callers pass to Update
    MaxTime     \* bound: the clock stops here

VARIABLES
    now,        \* the clock every operation reads
    live,       \* the entries: a function from some keys to [val, expiresAt]
    out         \* what the last operation let its caller see

vars == <<now, live, out>>

Seen(ok, v) == out' = [ok |-> ok, val |-> v]

Init ==
    /\ now = 0
    /\ live = [k \in {} |-> Zero]
    /\ out = [ok |-> FALSE, val |-> Zero]

Put(k, v, t) ==
    live' = [x \in DOMAIN live \union {k} |->
                IF x = k THEN [val |-> v, expiresAt |-> now + t] ELSE live[x]]

Set(k, v, t) == Put(k, v, t) /\ Seen(TRUE, Zero) /\ UNCHANGED now

Get(k) ==
    /\ IF k \in DOMAIN live THEN Seen(TRUE, live[k].val) ELSE Seen(FALSE, Zero)
    /\ UNCHANGED <<now, live>>

SetIfAbsent(k, v, t) ==
    /\ \/ k \in DOMAIN live /\ Seen(FALSE, Zero) /\ UNCHANGED live
       \/ k \notin DOMAIN live /\ Put(k, v, t) /\ Seen(TRUE, Zero)
    /\ UNCHANGED now

Update(k, t, f) ==
    LET cur == IF k \in DOMAIN live THEN live[k].val ELSE Zero
    IN  Put(k, f[cur], t) /\ Seen(TRUE, cur) /\ UNCHANGED now

Delete(k) ==
    /\ live' = [x \in DOMAIN live \ {k} |-> live[x]]
    /\ Seen(TRUE, Zero)
    /\ UNCHANGED now

(* Time passes, and takes with it every entry whose lifetime is over. *)
Tick ==
    /\ now < MaxTime
    /\ now' = now + 1
    /\ live' = [k \in {x \in DOMAIN live : live[x].expiresAt >= now'} |-> live[k]]
    /\ UNCHANGED out

Next ==
    \/ Tick
    \/ \E k \in Key :
        \/ Get(k)
        \/ Delete(k)
        \/ \E t \in Ttl :
            \/ \E v \in Val : Set(k, v, t) \/ SetIfAbsent(k, v, t)
            \/ \E f \in Fn : Update(k, t, f)

Spec == Init /\ [][Next]_vars
=============================================================================
