---------------------------- MODULE SpamDetector ----------------------------
(***************************************************************************)
(* internal/bot/spam.go: one guild's messages with attachments on their    *)
(* way through checkSpam.  Every message has a goroutine of its own; its   *)
(* steps are its accesses to what they share: the configuration, the cache *)
(* of sightings and the dedup guard, both of which TTLCache implements, so *)
(* that an entry is here one instant and gone the next (TTLMap).           *)
(*                                                                         *)
(* Moderation models what moderate does, and the messages in the honeypot, *)
(* which compete for the same guard; here a moderation is the time between *)
(* taking the guard and releasing it, however long that is.                *)
(***************************************************************************)
EXTENDS Integers, FiniteSets

CONSTANTS
    Message, User, Images, Channel,
    Author, Place,      \* who wrote each message, and in which channel
    Fingerprint,        \* of its attachments, or TooFew
    TooFew,             \* fewer than spamMinAttachments
    Exempt,             \* the owner and the administrators
    Window,             \* spamWindow, in ticks
    Threshold,          \* spamChannelThreshold
    Hold,               \* lifetime of a dedup entry, 30 s in the code
    MaxTime, MaxChanges \* bounds on the clock and on toggles and restarts

ASSUME SpamAssumption ==
    /\ IsFiniteSet(Message)
    /\ Author \in [Message -> User]
    /\ Place \in [Message -> Channel]
    /\ Fingerprint \in [Message -> Images \union {TooFew}]
    /\ TooFew \notin Images
    /\ Exempt \subseteq User
    /\ Window \in Nat
    /\ Threshold \in Nat \ {0}
    /\ Hold \in Nat
    /\ MaxTime \in Nat
    /\ MaxChanges \in Nat

VARIABLES
    now,        \* time.Now()
    eligible,   \* what spamEligible says of the guild's configuration
    changes,    \* toggles and restarts so far
    sightings,  \* Bot.spamSightings: the channels of each key, and its expiry
    dedup,      \* Bot.dedup: per user the expiry of the entry, or Never
    job,        \* per message: its goroutine
    seenAt,     \* history: when the message was sighted, or Never
    spent,      \* history: sightings that were consumed, or lost in a restart
    tookAt,     \* history: when the handler took the guard, or Never
    endedAt,    \* history: when it released it, or Never
    late        \* history: handlers that outlived the entry they took

history == <<seenAt, spent, tookAt, endedAt, late>>
vars == <<now, eligible, changes, sightings, dedup, job, history>>

Never == -1
Time == 0 .. MaxTime
MaybeTime == Time \union {Never}

Owning == {"owning", "punishing", "passing"}
Stage == Owning \union {"new", "tracked", "counted", "crossed", "ignored",
                        "punished", "passed", "killed"}

(* An expiry beyond the end of the clock is one that is never reached. *)
Expiry == 0 .. MaxTime + Window
NothingSeen == [channels |-> {}, until |-> 0]

spamKey == User \X Images
Key(m) == <<Author[m], Fingerprint[m]>>

TypeOK ==
    /\ now \in Time
    /\ eligible \in BOOLEAN
    /\ changes \in 0 .. MaxChanges
    /\ sightings \in [spamKey -> [channels : SUBSET Channel, until : Expiry]]
    /\ dedup \in [User -> 0 .. MaxTime + Hold \union {Never}]
    /\ job \in [Message -> Stage]
    /\ seenAt \in [Message -> MaybeTime]
    /\ spent \subseteq Message
    /\ tookAt \in [Message -> MaybeTime]
    /\ endedAt \in [Message -> MaybeTime]
    /\ late \subseteq Message

Init ==
    /\ now = 0
    /\ eligible \in BOOLEAN
    /\ changes = 0
    /\ sightings = [k \in spamKey |-> NothingSeen]
    /\ dedup = [u \in User |-> Never]
    /\ job = [m \in Message |-> "new"]
    /\ seenAt = [m \in Message |-> Never]
    /\ spent = {}
    /\ tookAt = [m \in Message |-> Never]
    /\ endedAt = [m \in Message |-> Never]
    /\ late = {}

-----------------------------------------------------------------------------
Goto(m, stage) == job' = [job EXCEPT ![m] = stage]

(* checkSpam up to spamEligible; a message with few attachments is no work *)
(* at all, and one whose configuration cannot be read is as good as gone.  *)
GetConfig(m) ==
    /\ job[m] = "new"
    /\ Goto(m, IF Fingerprint[m] # TooFew /\ eligible THEN "tracked" ELSE "ignored")
    /\ UNCHANGED <<now, eligible, changes, sightings, dedup, history>>

(* mutant: the expiry of the first sighting stays *)
SightedFixed(k, c) ==
    [channels |-> sightings[k].channels \union {c},
     until |-> IF sightings[k].channels = {} THEN now + Window ELSE sightings[k].until]

(* mutant: the lifetime is added to the old expiry *)
SightedLonger(k, c) ==
    [channels |-> sightings[k].channels \union {c},
     until |-> Window + IF sightings[k].channels = {} THEN now ELSE sightings[k].until]

(* The set the callback of Update returns, with a fresh lifetime. *)
Sighted(k, c) ==
    [channels |-> sightings[k].channels \union {c}, until |-> now + Window]

(* mutant: one channel more than the threshold *)
CrossesLate(set) == Cardinality(set) > Threshold

Crosses(set) == Cardinality(set) >= Threshold

recordSpamSighting(m) ==
    LET entry == Sighted(Key(m), Place[m])
    IN  /\ job[m] = "tracked"
        /\ sightings' = [sightings EXCEPT ![Key(m)] = entry]
        /\ Goto(m, IF Crosses(entry.channels) THEN "crossed" ELSE "counted")
        /\ seenAt' = [seenAt EXCEPT ![m] = now]
        /\ UNCHANGED <<now, eligible, changes, dedup, spent, tookAt, endedAt, late>>

(* mutant: Set instead of SetIfAbsent *)
TakeAnyway(m) == dedup' = [dedup EXCEPT ![Author[m]] = now + Hold]

Take(m) ==
    /\ dedup[Author[m]] = Never
    /\ dedup' = [dedup EXCEPT ![Author[m]] = now + Hold]

SetIfAbsent(m) ==
    /\ job[m] = "crossed"
    /\ \/ /\ Take(m)
          /\ Goto(m, "owning")
          /\ tookAt' = [tookAt EXCEPT ![m] = now]
       \/ /\ dedup[Author[m]] # Never
          /\ Goto(m, "ignored")
          /\ UNCHANGED <<dedup, tookAt>>
    /\ UNCHANGED <<now, eligible, changes, sightings, seenAt, spent, endedAt, late>>

(* The trigger is consumed whoever the user is; the exempt are passed over *)
(* without a word.                                                         *)
ConsumeTrigger(m) ==
    /\ job[m] = "owning"
    /\ sightings' = [sightings EXCEPT ![Key(m)] = NothingSeen]
    /\ spent' = spent \union {n \in Message : seenAt[n] # Never /\ Key(n) = Key(m)}
    /\ Goto(m, IF Author[m] \in Exempt THEN "passing" ELSE "punishing")
    /\ UNCHANGED <<now, eligible, changes, dedup, seenAt, tookAt, endedAt, late>>

(* The deferred Delete takes whatever entry there is. *)
Finish(m) ==
    /\ job[m] \in {"punishing", "passing"}
    /\ dedup' = [dedup EXCEPT ![Author[m]] = Never]
    /\ Goto(m, IF job[m] = "passing" THEN "passed" ELSE "punished")
    /\ endedAt' = [endedAt EXCEPT ![m] = now]
    /\ UNCHANGED <<now, eligible, changes, sightings, seenAt, spent, tookAt, late>>

-----------------------------------------------------------------------------
(* mutant: entries outlive their time *)
Undying(e, t) == e

Alive(e, t) == IF e.until < t THEN NothingSeen ELSE e

Tick ==
    /\ now < MaxTime
    /\ now' = now + 1
    /\ sightings' = [k \in spamKey |-> Alive(sightings[k], now')]
    /\ dedup' = [u \in User |-> IF dedup[u] < now' THEN Never ELSE dedup[u]]
    /\ late' = late \union {m \in Message : job[m] \in Owning /\ tookAt[m] + Hold < now'}
    /\ UNCHANGED <<eligible, changes, job, seenAt, spent, tookAt, endedAt>>

Intervene == changes < MaxChanges /\ changes' = changes + 1

(* An administrator saves the dialog: detection on or off, the action too. *)
Toggle ==
    /\ Intervene
    /\ eligible' = ~eligible
    /\ UNCHANGED <<now, sightings, dedup, job, history>>

(* "Process-local; a restart forgets": both caches and all handlers. *)
Restart ==
    /\ Intervene
    /\ sightings' = [k \in spamKey |-> NothingSeen]
    /\ dedup' = [u \in User |-> Never]
    /\ job' = [m \in Message |->
          IF job[m] \in Owning \union {"tracked", "crossed"} THEN "killed" ELSE job[m]]
    /\ spent' = {m \in Message : seenAt[m] # Never}
    /\ UNCHANGED <<now, eligible, seenAt, tookAt, endedAt, late>>

Idling ==
    /\ now = MaxTime
    /\ \A m \in Message : job[m] \notin Owning \union {"new", "tracked", "crossed"}
    /\ UNCHANGED vars

Next ==
    \/ \E m \in Message :
        \/ GetConfig(m) \/ recordSpamSighting(m) \/ SetIfAbsent(m)
        \/ ConsumeTrigger(m) \/ Finish(m)
    \/ Tick \/ Toggle \/ Restart \/ Idling

Spec == Init /\ [][Next]_vars

-----------------------------------------------------------------------------
Posts(k) == {m \in Message : Key(m) = k /\ seenAt[m] # Never}

(* At every instant after s up to t, the last of the posts P before it was *)
(* no longer ago than the window.                                          *)
NoGap(P, s, t) ==
    \A i \in Time :
        s < i /\ i <= t => \E x \in P : seenAt[x] < i /\ i <= seenAt[x] + Window

(* The sightings of k that count now, as the histories tell them. *)
Fresh(k) ==
    LET P == Posts(k) \ spent IN {m \in P : NoGap(P, seenAt[m], now)}

(* "The number of distinct channels seen within the window": whatever the  *)
(* order of sightings, expiries, consumptions and restarts, the cache      *)
(* holds for each key exactly the channels of the posts sighted since the  *)
(* last consumption with no pause longer than the window.                  *)
SightingsAreFresh ==
    \A k \in spamKey : sightings[k].channels = {Place[m] : m \in Fresh(k)}

(* The posts up to m that can have been evidence against its author. *)
Evidence(m) ==
    LET P == Posts(Key(m))
    IN  {n \in P : seenAt[n] <= seenAt[m] /\ NoGap(P, seenAt[n], seenAt[m])}

(* Nobody's guard is taken and nobody is punished as a spammer unless the  *)
(* same images, posted by that user, were seen in Threshold distinct       *)
(* channels with no pause longer than the window: not on the posts of      *)
(* somebody else, nor of other images, nor on the same channel twice.      *)
EvidenceSuffices ==
    \A m \in Message :
        job[m] \in Owning \union {"crossed", "punished", "passed"} =>
            Cardinality({Place[n] : n \in Evidence(m)}) >= Threshold

(* A blast does not slip through between sighting, guard and consumption:  *)
(* while Threshold channels stand against a user, a handler is about to    *)
(* ask for the guard, or has it, or had it when the last one was sighted.  *)
BlastIsMet ==
    \A k \in spamKey :
        Cardinality(sightings[k].channels) >= Threshold =>
            \E m \in Message :
                /\ Author[m] = k[1]
                /\ \/ job[m] \in Owning \union {"crossed"}
                   \/ endedAt[m] # Never /\ endedAt[m] + Window >= sightings[k].until

(* Two handlers moderate one user at once only after a handler of that     *)
(* user has outlived its entry: the Delete of a handler on time never      *)
(* takes another's entry, nor does an entry expire under it.               *)
ExclusiveUnlessLate ==
    \A m, n \in Message :
        job[m] \in Owning /\ job[n] \in Owning /\ Author[m] = Author[n] /\ m # n
            => \E x \in late : Author[x] = Author[m]

(* The handlers that moderate take and release their author's guard as     *)
(* ModerationLock says, whatever expires and ends under them: who holds it *)
(* is who moderates, and a user with several holders, or with a holder and *)
(* no entry, is one whose handler has outlived it.                         *)
Holders == {m \in Message : job[m] \in Owning}

Outlived ==
    {u \in User :
        LET H == {m \in Holders : Author[m] = u}
        IN  H # {} /\ (dedup[u] = Never \/ \E m, n \in H : m # n)}

Lock == INSTANCE ModerationLock WITH holders <- Holders, outlived <- Outlived

ImplementsLock == Lock!Spec

-----------------------------------------------------------------------------
(* What comments and documents say and the code does not keep: TLC refutes  *)
(* each of these, see the README.                                          *)

(* "Consume the trigger so a re-offense needs two fresh channel sightings, *)
(* not just another message riding the same crossed-threshold state": who  *)
(* takes the guard was not itself consumed with an earlier trigger.        *)
ReoffenceIsFresh ==
    [][\A m \in Message : job[m] = "crossed" /\ job'[m] = "owning" => m \notin spent]_vars

(* README: a user whose attachment set "repeats in a second channel ...    *)
(* gets the same softban/ban treatment".                                   *)
SecondChannelIsPunished ==
    \A k \in spamKey :
        Cardinality({Place[m] : m \in Fresh(k)}) >= 2 /\ k[1] \notin Exempt
            => \E m \in Message :
                Author[m] = k[1] /\ job[m] \in Owning \union {"crossed", "punished"}
=============================================================================
