--------------------------- MODULE ModerationLock ---------------------------
(***************************************************************************)
(* What Bot.dedup promises those who moderate: SetIfAbsent before and a    *)
(* deferred Delete after make a lock per user, which the handlers of the   *)
(* honeypot and of the spam detector share.  It is a lock with a lifetime: *)
(* after a handler has outlived its entry several may hold it, until none  *)
(* of that user's does any more.                                           *)
(***************************************************************************)
CONSTANTS Message, User, Author

VARIABLES
    holders,    \* messages whose handlers hold their author's lock
    outlived    \* users of whom a holder has outlived its entry

vars == <<holders, outlived>>

Of(u, H) == {m \in H : Author[m] = u}

Init == holders = {} /\ outlived = {}

Take(m) ==
    /\ m \notin holders
    /\ Of(Author[m], holders) # {} => Author[m] \in outlived
    /\ holders' = holders \union {m}
    /\ UNCHANGED outlived

(* The last one out leaves the lock as good as new. *)
Release(m) ==
    /\ m \in holders
    /\ holders' = holders \ {m}
    /\ outlived' = {u \in outlived : Of(u, holders') # {}}

Outlive(U) ==
    /\ \A u \in U : Of(u, holders) # {}
    /\ outlived' = outlived \union U
    /\ UNCHANGED holders

(* The process ends. *)
Vanish == holders' = {} /\ outlived' = {}

Next ==
    \/ \E m \in Message : Take(m) \/ Release(m)
    \/ \E U \in SUBSET User : Outlive(U)
    \/ Vanish

Spec == Init /\ [][Next]_vars
=============================================================================
