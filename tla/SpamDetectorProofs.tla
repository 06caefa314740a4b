------------------------- MODULE SpamDetectorProofs -------------------------
(***************************************************************************)
(* Theorems about SpamDetector, for every number of messages, users,       *)
(* channels and sets of images, every threshold, window and lifetime.      *)
(***************************************************************************)
EXTENDS SpamDetector, FiniteSetTheorems, TLAPS

USE SpamAssumption

LEMMA Facts ==
  /\ Never = -1 /\ Never \notin Nat
  /\ 0 \in Time /\ Time \subseteq Nat
  /\ Never \in MaybeTime /\ MaybeTime \subseteq Int
  /\ 0 \in Expiry /\ Expiry \subseteq Nat
  /\ \A t \in Time : t \in MaybeTime /\ t + Window \in Expiry
  /\ \A t \in Time : t + Hold \in 0 .. MaxTime + Hold
BY DEF Never, Time, MaybeTime, Expiry

LEMMA Stages ==
  /\ Owning \subseteq Stage
  /\ "owning" \in Owning /\ "punishing" \in Owning /\ "passing" \in Owning
  /\ \A s \in {"new", "tracked", "counted", "crossed", "ignored", "punished",
               "passed", "killed"} : s \in Stage /\ s \notin Owning
BY DEF Owning, Stage

(* The image of a finite set under a function is finite.                   *)
LEMMA PlacesFinite ==
  ASSUME NEW S \in SUBSET Message
  PROVE  IsFiniteSet({Place[m] : m \in S})
<1> DEFINE T == {Place[m] : m \in S}
           f == [m \in S |-> Place[m]]
<1>1. IsFiniteSet(S)
  BY FS_Subset
<1>2. f \in Surjection(S, T)
  BY DEF Surjection
<1> QED
  BY <1>1, <1>2, FS_Surjection

-----------------------------------------------------------------------------
(* A sighting is only kept of messages with enough attachments.            *)
KeysInv ==
    \A m \in Message : job[m] \in {"tracked", "crossed"} \union Owning => Key(m) \in spamKey

LEMMA KeyTyped ==
  ASSUME NEW m \in Message, Fingerprint[m] # TooFew
  PROVE  Key(m) \in spamKey
BY DEF Key, spamKey

TypeInv == TypeOK /\ KeysInv

LEMMA TypeStep == TypeInv /\ [Next]_vars => TypeInv'
<1> SUFFICES ASSUME TypeInv, [Next]_vars PROVE TypeInv'
  OBVIOUS
<1>t. /\ now \in Time /\ sightings \in [spamKey -> [channels : SUBSET Channel, until : Expiry]]
      /\ job \in [Message -> Stage]
  BY DEF TypeInv, TypeOK
<1>j. ASSUME NEW m \in Message, NEW s \in Stage, Goto(m, s),
             s \in {"tracked", "crossed"} \union Owning => Key(m) \in spamKey
      PROVE  job' \in [Message -> Stage] /\ KeysInv'
  <2>1. job' \in [Message -> Stage] /\ \A n \in Message : job'[n] = IF n = m THEN s ELSE job[n]
    BY <1>t, <1>j DEF Goto
  <2> QED
    BY <1>j, <2>1 DEF TypeInv, KeysInv, Key
<1>1. ASSUME NEW m \in Message, GetConfig(m)
      PROVE  TypeInv'
  <2>1. CASE Fingerprint[m] # TooFew /\ eligible
    <3>1. Goto(m, "tracked")
      BY <1>1, <2>1 DEF GetConfig
    <3>2. job' \in [Message -> Stage] /\ KeysInv'
      BY <1>j, <2>1, <3>1, KeyTyped, Stages
    <3> QED
      BY <1>1, <3>2 DEF GetConfig, TypeInv, TypeOK, history
  <2>2. CASE ~(Fingerprint[m] # TooFew /\ eligible)
    <3>1. Goto(m, "ignored")
      BY <1>1, <2>2 DEF GetConfig
    <3>2. job' \in [Message -> Stage] /\ KeysInv'
      BY <1>j, <3>1, Stages
    <3> QED
      BY <1>1, <3>2 DEF GetConfig, TypeInv, TypeOK, history
  <2> QED
    BY <2>1, <2>2
<1>2. ASSUME NEW m \in Message, recordSpamSighting(m)
      PROVE  TypeInv'
  <2>k. Key(m) \in spamKey
    BY <1>2 DEF recordSpamSighting, TypeInv, KeysInv
  <2>1. Sighted(Key(m), Place[m]) \in [channels : SUBSET Channel, until : Expiry]
    BY <1>t, <2>k, Facts DEF Sighted
  <2>2. sightings' \in [spamKey -> [channels : SUBSET Channel, until : Expiry]]
    BY <1>2, <1>t, <2>1 DEF recordSpamSighting
  <2>3. PICK s \in {"crossed", "counted"} : Goto(m, s)
    BY <1>2 DEF recordSpamSighting
  <2>4. job' \in [Message -> Stage] /\ KeysInv'
    BY <1>j, <2>k, <2>3, Stages
  <2>5. seenAt' \in [Message -> MaybeTime]
    BY <1>2, <1>t, Facts DEF recordSpamSighting, TypeInv, TypeOK
  <2> QED
    BY <1>2, <2>2, <2>4, <2>5 DEF recordSpamSighting, TypeInv, TypeOK
<1>3. ASSUME NEW m \in Message, SetIfAbsent(m)
      PROVE  TypeInv'
  <2>k. Key(m) \in spamKey
    BY <1>3 DEF SetIfAbsent, TypeInv, KeysInv
  <2>1. PICK s \in {"owning", "ignored"} : Goto(m, s)
    BY <1>3 DEF SetIfAbsent
  <2>2. job' \in [Message -> Stage] /\ KeysInv'
    BY <1>j, <2>k, <2>1, Stages
  <2>3. dedup' \in [User -> 0 .. MaxTime + Hold \union {Never}]
    BY <1>3, <1>t, Facts DEF SetIfAbsent, Take, TypeInv, TypeOK
  <2>4. tookAt' \in [Message -> MaybeTime]
    BY <1>3, <1>t, Facts DEF SetIfAbsent, TypeInv, TypeOK
  <2> QED
    BY <1>3, <2>2, <2>3, <2>4 DEF SetIfAbsent, TypeInv, TypeOK
<1>4. ASSUME NEW m \in Message, ConsumeTrigger(m)
      PROVE  TypeInv'
  <2>k. Key(m) \in spamKey
    BY <1>4, Stages DEF ConsumeTrigger, TypeInv, KeysInv
  <2>1. PICK s \in {"passing", "punishing"} : Goto(m, s)
    BY <1>4 DEF ConsumeTrigger
  <2>2. job' \in [Message -> Stage] /\ KeysInv'
    BY <1>j, <2>k, <2>1, Stages
  <2>3. sightings' \in [spamKey -> [channels : SUBSET Channel, until : Expiry]]
    BY <1>4, <1>t, Facts DEF ConsumeTrigger, NothingSeen
  <2> QED
    BY <1>4, <2>2, <2>3 DEF ConsumeTrigger, TypeInv, TypeOK
<1>5. ASSUME NEW m \in Message, Finish(m)
      PROVE  TypeInv'
  <2>1. PICK s \in {"passed", "punished"} : Goto(m, s)
    BY <1>5 DEF Finish
  <2>2. job' \in [Message -> Stage] /\ KeysInv'
    BY <1>j, <2>1, Stages
  <2>3. endedAt' \in [Message -> MaybeTime]
    BY <1>5, <1>t, Facts DEF Finish, TypeInv, TypeOK
  <2>4. dedup' \in [User -> 0 .. MaxTime + Hold \union {Never}]
    BY <1>5 DEF Finish, TypeInv, TypeOK
  <2> QED
    BY <1>5, <2>2, <2>3, <2>4 DEF Finish, TypeInv, TypeOK
<1>6. ASSUME Tick
      PROVE  TypeInv'
  <2>1. now' \in Time
    BY <1>6, <1>t DEF Tick, Time
  <2>2. sightings' \in [spamKey -> [channels : SUBSET Channel, until : Expiry]]
    BY <1>6, <1>t, Facts DEF Tick, Alive, NothingSeen
  <2>3. dedup' \in [User -> 0 .. MaxTime + Hold \union {Never}]
    BY <1>6 DEF Tick, TypeInv, TypeOK
  <2> QED
    BY <1>6, <2>1, <2>2, <2>3 DEF Tick, TypeInv, TypeOK, KeysInv, Key
<1>7. ASSUME Toggle
      PROVE  TypeInv'
  BY <1>7 DEF Toggle, Intervene, TypeInv, TypeOK, KeysInv, Key, history
<1>8. ASSUME Restart
      PROVE  TypeInv'
  <2>1. job' \in [Message -> Stage]
    BY <1>8, <1>t, Stages DEF Restart
  <2>2. KeysInv'
    BY <1>8, <1>t, Stages DEF Restart, TypeInv, KeysInv, Key
  <2>3. sightings' \in [spamKey -> [channels : SUBSET Channel, until : Expiry]]
    BY <1>8, Facts DEF Restart, NothingSeen
  <2> QED
    BY <1>8, <2>1, <2>2, <2>3 DEF Restart, Intervene, TypeInv, TypeOK
<1>9. ASSUME UNCHANGED vars
      PROVE  TypeInv'
  BY <1>9 DEF vars, history, TypeInv, TypeOK, KeysInv, Key
<1> QED
  BY <1>1, <1>2, <1>3, <1>4, <1>5, <1>6, <1>7, <1>8, <1>9 DEF Next, Idling

LEMMA TypeInvCorrect == Spec => []TypeInv
<1>1. Init => TypeInv
  <2> SUFFICES ASSUME Init PROVE TypeInv
    OBVIOUS
  <2>1. KeysInv
    BY Stages DEF Init, KeysInv
  <2> QED
    BY <2>1, Facts, Stages DEF Init, TypeInv, TypeOK, NothingSeen
<1> QED
  BY <1>1, TypeStep, PTL DEF Spec

(* The detector's state is well typed; no entry outlives its lifetime.     *)
THEOREM TypeCorrect == Spec => []TypeOK
BY TypeInvCorrect, PTL DEF TypeInv

-----------------------------------------------------------------------------
(* The guard: what a step does to the entries and their holders.           *)
Guard == <<Holders, dedup, tookAt, late>>

Taken(m) ==
    /\ m \in Message \ Holders
    /\ dedup[Author[m]] = Never
    /\ Holders' = Holders \union {m}
    /\ dedup' = [dedup EXCEPT ![Author[m]] = now + Hold]
    /\ tookAt' = [tookAt EXCEPT ![m] = now]
    /\ UNCHANGED <<late, now>>

Released(m) ==
    /\ m \in Holders
    /\ Holders' = Holders \ {m}
    /\ dedup' = [dedup EXCEPT ![Author[m]] = Never]
    /\ UNCHANGED <<tookAt, late, now>>

Vanished ==
    /\ Holders' = {}
    /\ dedup' = [u \in User |-> Never]

LEMMA HoldersKept ==
  ASSUME TypeOK, NEW m \in Message, NEW s \in Stage, Goto(m, s),
         job[m] \in Owning <=> s \in Owning
  PROVE  Holders' = Holders
<1>1. \A n \in Message : job'[n] \in Owning <=> job[n] \in Owning
  BY DEF TypeOK, Goto
<1> QED
  BY <1>1 DEF Holders

LEMMA LockMoves ==
  ASSUME TypeOK, [Next]_vars
  PROVE  \/ UNCHANGED Guard
         \/ \E m \in Message : Taken(m) \/ Released(m)
         \/ Tick /\ UNCHANGED Holders
         \/ Vanished
<1>t. job \in [Message -> Stage]
  BY DEF TypeOK
<1>1. ASSUME NEW m \in Message, GetConfig(m) \/ recordSpamSighting(m) \/ ConsumeTrigger(m)
      PROVE  UNCHANGED Guard
  <2>1. CASE GetConfig(m)
    <3>1. PICK s \in {"tracked", "ignored"} : Goto(m, s) /\ job[m] = "new"
      BY <2>1 DEF GetConfig
    <3> QED
      BY <2>1, <3>1, HoldersKept, Stages DEF GetConfig, Guard, history
  <2>2. CASE recordSpamSighting(m)
    <3>1. PICK s \in {"crossed", "counted"} : Goto(m, s) /\ job[m] = "tracked"
      BY <2>2 DEF recordSpamSighting
    <3> QED
      BY <2>2, <3>1, HoldersKept, Stages DEF recordSpamSighting, Guard
  <2>3. CASE ConsumeTrigger(m)
    <3>1. PICK s \in {"passing", "punishing"} : Goto(m, s) /\ job[m] = "owning"
      BY <2>3 DEF ConsumeTrigger
    <3> QED
      BY <2>3, <3>1, HoldersKept, Stages DEF ConsumeTrigger, Guard
  <2> QED
    BY <1>1, <2>1, <2>2, <2>3
<1>2. ASSUME NEW m \in Message, SetIfAbsent(m)
      PROVE  UNCHANGED Guard \/ Taken(m)
  <2>1. CASE Take(m) /\ Goto(m, "owning") /\ tookAt' = [tookAt EXCEPT ![m] = now]
    <3>1. \A n \in Message : job'[n] = IF n = m THEN "owning" ELSE job[n]
      BY <1>t, <2>1 DEF Goto
    <3>2. Holders' = Holders \union {m} /\ m \notin Holders
      BY <1>2, <3>1, Stages DEF SetIfAbsent, Holders
    <3> QED
      BY <1>2, <2>1, <3>2 DEF SetIfAbsent, Take, Taken
  <2>2. CASE Goto(m, "ignored") /\ UNCHANGED <<dedup, tookAt>>
    BY <1>2, <2>2, HoldersKept, Stages DEF SetIfAbsent, Guard
  <2> QED
    BY <1>2, <2>1, <2>2 DEF SetIfAbsent
<1>3. ASSUME NEW m \in Message, Finish(m)
      PROVE  Released(m)
  <2>1. PICK s \in {"passed", "punished"} : Goto(m, s)
    BY <1>3 DEF Finish
  <2>2. \A n \in Message : job'[n] = IF n = m THEN s ELSE job[n]
    BY <1>t, <2>1 DEF Goto
  <2>3. Holders' = Holders \ {m} /\ m \in Holders
    BY <1>3, <2>2, Stages DEF Finish, Holders
  <2> QED
    BY <1>3, <2>3 DEF Finish, Released
<1>4. ASSUME Tick
      PROVE  UNCHANGED Holders
  BY <1>4 DEF Tick, Holders
<1>5. ASSUME Restart
      PROVE  Vanished
  <2>1. \A n \in Message : job'[n] \notin Owning
    BY <1>5, <1>t, Stages DEF Restart
  <2> QED
    BY <1>5, <2>1 DEF Restart, Vanished, Holders
<1>6. ASSUME Toggle \/ Idling \/ UNCHANGED vars
      PROVE  UNCHANGED Guard
  BY <1>6 DEF Toggle, Idling, vars, history, Guard, Holders
<1> QED
  BY <1>1, <1>2, <1>3, <1>4, <1>5, <1>6 DEF Next

(* As long as no handler of a user has outlived its entry, there is at     *)
(* most one, the entry is its own, and there is none without a handler.    *)
OnTime(u) == \A x \in late : Author[x] # u

GuardInv ==
    /\ \A u \in User : dedup[u] # Never => \E m \in Holders : Author[m] = u
    /\ \A m \in Holders : OnTime(Author[m]) =>
        /\ dedup[Author[m]] = tookAt[m] + Hold
        /\ \A n \in Holders : Author[n] = Author[m] => n = m
    /\ \A m \in Holders : tookAt[m] \in Time

LEMMA GuardStep == TypeOK /\ GuardInv /\ [Next]_vars => GuardInv'
<1> SUFFICES ASSUME TypeOK, GuardInv, [Next]_vars PROVE GuardInv'
  OBVIOUS
<1>t. /\ now \in Time /\ Time \subseteq Nat
      /\ dedup \in [User -> 0 .. MaxTime + Hold \union {Never}]
      /\ tookAt \in [Message -> MaybeTime]
      /\ Holders \subseteq Message /\ Author \in [Message -> User]
  BY Facts DEF TypeOK, Holders
<1>1. CASE UNCHANGED Guard
  BY <1>1 DEF Guard, GuardInv, OnTime
<1>2. ASSUME NEW m \in Message, Taken(m)
      PROVE  GuardInv'
  <2>1. \A n \in Holders : OnTime(Author[n]) => Author[n] # Author[m]
    <3>1. ASSUME NEW n \in Holders, OnTime(Author[n]), Author[n] = Author[m]
          PROVE  FALSE
      <4>1. Never = tookAt[n] + Hold /\ tookAt[n] \in Time
        BY <1>2, <3>1 DEF Taken, GuardInv
      <4>2. tookAt[n] \in Nat /\ Hold \in Nat
        BY <1>t, <4>1
      <4> QED
        BY <4>1, <4>2 DEF Never
    <3> QED
      BY <3>1
  <2>2. \A u \in User : dedup'[u] # Never => \E n \in Holders' : Author[n] = u
    BY <1>2, <1>t DEF Taken, GuardInv
  <2>3. ASSUME NEW n \in Holders', OnTime(Author[n])'
        PROVE  /\ dedup'[Author[n]] = tookAt'[n] + Hold
               /\ \A x \in Holders' : Author[x] = Author[n] => x = n
    <3>1. OnTime(Author[n])
      BY <1>2, <2>3 DEF Taken, OnTime
    <3>2. CASE n = m
      BY <1>2, <1>t, <2>1, <3>1, <3>2 DEF Taken
    <3>3. CASE n # m
      <4>1. n \in Holders /\ Author[n] # Author[m]
        BY <1>2, <2>1, <3>1, <3>3 DEF Taken
      <4> QED
        BY <1>2, <1>t, <3>1, <4>1 DEF Taken, GuardInv
    <3> QED
      BY <3>2, <3>3
  <2>4. \A n \in Holders' : tookAt'[n] \in Time
    BY <1>2, <1>t DEF Taken, GuardInv
  <2> QED
    BY <2>2, <2>3, <2>4 DEF GuardInv
<1>3. ASSUME NEW m \in Message, Released(m)
      PROVE  GuardInv'
  <2>1. ASSUME NEW n \in Holders', OnTime(Author[n])'
        PROVE  /\ dedup'[Author[n]] = tookAt'[n] + Hold
               /\ \A x \in Holders' : Author[x] = Author[n] => x = n
    <3>1. OnTime(Author[n]) /\ n \in Holders /\ n # m
      BY <1>3, <2>1 DEF Released, OnTime
    <3>2. Author[n] # Author[m]
      BY <1>3, <3>1 DEF Released, GuardInv
    <3> QED
      BY <1>3, <1>t, <3>1, <3>2 DEF Released, GuardInv
  <2>2. \A n \in Holders' : tookAt'[n] \in Time
    BY <1>3 DEF Released, GuardInv
  <2>3. \A u \in User : dedup'[u] # Never => \E n \in Holders' : Author[n] = u
    BY <1>3, <1>t DEF Released, GuardInv
  <2> QED
    BY <2>1, <2>2, <2>3 DEF GuardInv
<1>4. ASSUME Tick, UNCHANGED Holders
      PROVE  GuardInv'
  <2>1. now' \in Nat
    BY <1>4, <1>t DEF Tick
  <2>2. ASSUME NEW n \in Holders', OnTime(Author[n])'
        PROVE  /\ dedup'[Author[n]] = tookAt'[n] + Hold
               /\ \A x \in Holders' : Author[x] = Author[n] => x = n
    <3>1. OnTime(Author[n]) /\ n \in Holders /\ n \in Message
      BY <1>4, <1>t, <2>2 DEF Tick, OnTime
    <3>2. dedup[Author[n]] = tookAt[n] + Hold /\ tookAt[n] \in Time
      BY <3>1 DEF GuardInv
    <3>3. ~(tookAt[n] + Hold < now')
      BY <1>4, <2>2, <3>1 DEF Tick, OnTime, Holders
    <3>4. dedup'[Author[n]] = dedup[Author[n]]
      BY <1>4, <1>t, <3>1, <3>2, <3>3 DEF Tick
    <3> QED
      BY <1>4, <3>1, <3>2, <3>4 DEF Tick, GuardInv
  <2>3. \A u \in User : dedup'[u] # Never => \E n \in Holders' : Author[n] = u
    BY <1>4 DEF Tick, GuardInv
  <2>4. \A n \in Holders' : tookAt'[n] \in Time
    BY <1>4 DEF Tick, GuardInv
  <2> QED
    BY <2>2, <2>3, <2>4 DEF GuardInv
<1>5. CASE Vanished
  BY <1>5 DEF Vanished, GuardInv
<1> QED
  BY <1>1, <1>2, <1>3, <1>4, <1>5, LockMoves

LEMMA GuardInvCorrect == Spec => []GuardInv
<1>1. Init => GuardInv
  BY Stages DEF Init, GuardInv, Holders
<1> QED
  BY <1>1, TypeCorrect, GuardStep, PTL DEF Spec

(* Two handlers moderate one user at once only after one has outlived its  *)
(* entry, for any blasts of any number of messages.                        *)
THEOREM ExclusiveCorrect == Spec => []ExclusiveUnlessLate
<1>1. GuardInv => ExclusiveUnlessLate
  BY DEF GuardInv, OnTime, ExclusiveUnlessLate, Holders
<1> QED
  BY <1>1, GuardInvCorrect, PTL

-----------------------------------------------------------------------------
(* Each way of treating the guard is a step of the lock.                   *)
LEMMA OfHolders ==
  ASSUME NEW u
  PROVE  /\ Lock!Of(u, Holders) = {m \in Holders : Author[m] = u}
         /\ Lock!Of(u, Holders') = {m \in Holders' : Author[m] = u}
BY DEF Lock!Of

LEMMA LockRefined ==
  ASSUME TypeOK, GuardInv, [Next]_vars
  PROVE  [Lock!Next]_<<Holders, Outlived>>
<1>t. /\ now \in Nat /\ Hold \in Nat
      /\ dedup \in [User -> 0 .. MaxTime + Hold \union {Never}]
      /\ Holders \subseteq Message /\ Author \in [Message -> User]
  BY Facts DEF TypeOK, Holders
<1>1. CASE UNCHANGED Guard
  BY <1>1 DEF Guard, Outlived
<1>2. ASSUME NEW m \in Message, Taken(m)
      PROVE  Lock!Take(m)
  <2>1. Lock!Of(Author[m], Holders) # {} => Author[m] \in Outlived
    BY <1>t, <1>2, OfHolders DEF Taken, Outlived
  <2>2. ASSUME NEW u \in User
        PROVE  u \in Outlived' <=> u \in Outlived
    <3>1. CASE u = Author[m]
      <4>1. dedup'[u] # Never
        BY <1>t, <1>2, <3>1 DEF Taken, Never
      <4>2. u \in Outlived <=> \E n \in Holders : Author[n] = u
        BY <1>2, <3>1 DEF Taken, Outlived
      <4>3. u \in Outlived' <=> \E n \in Holders', x \in Holders' :
                Author[n] = u /\ Author[x] = u /\ n # x
        BY <4>1 DEF Outlived
      <4> QED
        BY <1>t, <1>2, <3>1, <4>2, <4>3 DEF Taken
    <3>2. CASE u # Author[m]
      <4>1. {n \in Holders' : Author[n] = u} = {n \in Holders : Author[n] = u}
        BY <1>2, <3>2 DEF Taken
      <4>2. dedup'[u] = dedup[u]
        BY <1>t, <1>2, <3>2 DEF Taken
      <4> QED
        BY <4>1, <4>2 DEF Outlived
    <3> QED
      BY <3>1, <3>2
  <2>3. Outlived' = Outlived
    BY <2>2 DEF Outlived
  <2> QED
    BY <1>2, <2>1, <2>3 DEF Taken, Lock!Take
<1>3. ASSUME NEW m \in Message, Released(m)
      PROVE  Lock!Release(m)
  <2>1. ASSUME NEW u \in User
        PROVE  u \in Outlived' <=> u \in Outlived /\ Lock!Of(u, Holders') # {}
    <3>1. CASE u = Author[m]
      <4>1. dedup'[u] = Never
        BY <1>t, <1>3, <3>1 DEF Released
      <4>2. u \in Outlived' <=> Lock!Of(u, Holders') # {}
        BY <4>1, OfHolders DEF Outlived
      <4>3. ASSUME NEW n \in Holders', Author[n] = u
            PROVE  u \in Outlived
        <5>1. n \in Holders /\ m \in Holders /\ n # m
          BY <1>3, <4>3 DEF Released
        <5> QED
          BY <3>1, <4>3, <5>1 DEF Outlived
      <4> QED
        BY <4>2, <4>3, OfHolders
    <3>2. CASE u # Author[m]
      <4>1. {n \in Holders' : Author[n] = u} = {n \in Holders : Author[n] = u}
        BY <1>3, <3>2 DEF Released
      <4>2. dedup'[u] = dedup[u]
        BY <1>t, <1>3, <3>2 DEF Released
      <4> QED
        BY <4>1, <4>2, OfHolders DEF Outlived
    <3> QED
      BY <3>1, <3>2
  <2>2. Outlived' = {u \in Outlived : Lock!Of(u, Holders') # {}}
    BY <2>1 DEF Outlived
  <2> QED
    BY <1>3, <2>2 DEF Released, Lock!Release
<1>4. ASSUME Tick, UNCHANGED Holders
      PROVE  Lock!Next
  <2> DEFINE U == {u \in User : dedup[u] # Never /\ dedup'[u] = Never}
  <2>1. \A u \in U : Lock!Of(u, Holders) # {}
    BY OfHolders DEF GuardInv
  <2>2. ASSUME NEW u \in User
        PROVE  u \in Outlived' <=> u \in Outlived \/ u \in U
    <3>1. {n \in Holders' : Author[n] = u} = {n \in Holders : Author[n] = u}
      BY <1>4
    <3>2. CASE u \in U
      BY <2>1, <3>1, <3>2, OfHolders DEF Outlived
    <3>3. CASE u \notin U
      <4>1. dedup[u] = Never => dedup'[u] = Never
        BY <1>4, <1>t DEF Tick, Never
      <4> QED
        BY <3>1, <3>3, <4>1 DEF Outlived
    <3> QED
      BY <3>2, <3>3
  <2>3. Outlived' = Outlived \union U
    BY <2>2 DEF Outlived
  <2>4. Lock!Outlive(U) /\ U \in SUBSET User
    BY <1>4, <2>1, <2>3 DEF Lock!Outlive
  <2> QED
    BY <2>4 DEF Lock!Next
<1>5. CASE Vanished
  <2>1. \A u \in User : u \notin Outlived'
    BY <1>5 DEF Vanished, Outlived
  <2>2. Outlived' = {}
    BY <2>1 DEF Outlived
  <2> QED
    BY <1>5, <2>2 DEF Vanished, Lock!Vanish, Lock!Next
<1> QED
  BY <1>1, <1>2, <1>3, <1>4, <1>5, LockMoves DEF Lock!Next, Guard

(* The detector's handlers treat the guard as a lock with a lifetime.      *)
THEOREM LockImplemented == Spec => ImplementsLock
<1>1. Init => Lock!Init
  BY Stages DEF Init, Holders, Outlived, Lock!Init
<1> QED
  BY <1>1, TypeCorrect, GuardInvCorrect, LockRefined, PTL
     DEF Spec, ImplementsLock, Lock!Spec, Lock!vars

-----------------------------------------------------------------------------
(* NoGap for any history f of sightings, so that it can be told of the     *)
(* state before a step and of the state after it.                          *)
Steady(f, P, s, t) ==
    \A i \in Time :
        s < i /\ i <= t => \E x \in P : f[x] < i /\ i <= f[x] + Window

(* Likewise the posts of k that count against nobody yet, and those of     *)
(* them the window has not lost.                                           *)
Kept(f, gone, k) == {m \in Message : Key(m) = k /\ f[m] # Never /\ m \notin gone}

Recent(f, gone, t, k) ==
    {m \in Kept(f, gone, k) : Steady(f, Kept(f, gone, k), f[m], t)}

LEMMA FreshIsRecent == \A k : Fresh(k) = Recent(seenAt, spent, now, k)
<1> SUFFICES ASSUME NEW k PROVE Fresh(k) = Recent(seenAt, spent, now, k)
  OBVIOUS
<1>1. Posts(k) \ spent = Kept(seenAt, spent, k)
  BY DEF Posts, Kept
<1> QED
  BY <1>1 DEF Fresh, Recent, NoGap, Steady

LEMMA SteadySame ==
  ASSUME NEW f, NEW g, NEW P, \A x \in P : f[x] = g[x], NEW s, NEW t
  PROVE  Steady(f, P, s, t) <=> Steady(g, P, s, t)
BY DEF Steady

LEMMA SteadyMore ==
  ASSUME NEW f, NEW P, NEW Q, P \subseteq Q, NEW s, NEW t, Steady(f, P, s, t)
  PROVE  Steady(f, Q, s, t)
BY DEF Steady

(* A post is no help for the time before it. *)
LEMMA SteadyBefore ==
  ASSUME NEW f, NEW P, NEW m, NEW s, NEW t \in Nat, f[m] = t
  PROVE  Steady(f, P \union {m}, s, t) <=> Steady(f, P, s, t)
BY Facts DEF Steady

LEMMA SteadyNow == ASSUME NEW f, NEW P, NEW t \in Nat PROVE Steady(f, P, t, t)
BY Facts DEF Steady

LEMMA SteadyTick ==
  ASSUME NEW f, NEW P, NEW t \in Nat, t + 1 \in Time, NEW s \in Int, s <= t
  PROVE  Steady(f, P, s, t + 1) <=>
           /\ Steady(f, P, s, t)
           /\ \E x \in P : f[x] < t + 1 /\ t + 1 <= f[x] + Window
<1>1. \A i \in Time : i <= t + 1 <=> i <= t \/ i = t + 1
  BY Facts
<1>2. \A i \in Time : i <= t => i # t + 1 /\ i <= t + 1
  BY Facts
<1> QED
  BY <1>1, <1>2 DEF Steady

(* What the cache holds is what the window says, and its expiry is that of *)
(* the latest post.                                                        *)
LatestOf(k, x) ==
    /\ sightings[k].until = seenAt[x] + Window
    /\ \A y \in Kept(seenAt, spent, k) : seenAt[y] <= seenAt[x]

RecentInv ==
    \A k \in spamKey :
        sightings[k].channels = {Place[m] : m \in Recent(seenAt, spent, now, k)}

SightingInv ==
    /\ \A m \in Message : job[m] \in {"new", "tracked"} => seenAt[m] = Never
    /\ \A m \in Message : seenAt[m] <= now
    /\ \A m \in Message : seenAt[m] # Never => seenAt[m] \in Nat
    /\ \A m \in spent : seenAt[m] # Never
    /\ RecentInv
    /\ \A k \in spamKey :
        sightings[k].channels # {} => \E x \in Kept(seenAt, spent, k) : LatestOf(k, x)

LEMMA SightingStep == TypeInv /\ SightingInv /\ [Next]_vars => SightingInv'
<1> SUFFICES ASSUME TypeInv, SightingInv, [Next]_vars PROVE SightingInv'
  OBVIOUS
<1>t. /\ now \in Nat /\ now \in Time /\ Window \in Nat
      /\ sightings \in [spamKey -> [channels : SUBSET Channel, until : Expiry]]
      /\ job \in [Message -> Stage]
      /\ seenAt \in [Message -> MaybeTime] /\ MaybeTime \subseteq Int
      /\ spent \subseteq Message
  BY Facts DEF TypeInv, TypeOK
<1>0. ASSUME UNCHANGED <<sightings, seenAt, spent, now>>,
             \A m \in Message : job'[m] \in {"new", "tracked"} => job[m] \in {"new", "tracked"}
      PROVE  SightingInv'
  <2>1. \A k \in spamKey : Kept(seenAt', spent', k) = Kept(seenAt, spent, k)
    BY <1>0 DEF Kept
  <2>2. \A k \in spamKey : Recent(seenAt', spent', now', k) = Recent(seenAt, spent, now, k)
    BY <1>0, <2>1 DEF Recent
  <2> QED
    BY <1>0, <2>1, <2>2 DEF SightingInv, RecentInv, LatestOf
<1>1. ASSUME NEW m \in Message, recordSpamSighting(m)
      PROVE  SightingInv'
  <2>k. Key(m) \in spamKey /\ seenAt[m] = Never /\ m \notin spent
    BY <1>1 DEF recordSpamSighting, TypeInv, KeysInv, SightingInv
  <2>s. /\ seenAt' = [seenAt EXCEPT ![m] = now] /\ spent' = spent /\ now' = now
        /\ sightings' = [sightings EXCEPT ![Key(m)] = Sighted(Key(m), Place[m])]
    BY <1>1 DEF recordSpamSighting
  <2>f. /\ seenAt'[m] = now /\ now # Never
        /\ \A n \in Message : n # m => seenAt'[n] = seenAt[n]
    BY <1>t, <2>s, Facts
  <2>1. ASSUME NEW q \in spamKey, q # Key(m)
        PROVE  /\ sightings'[q] = sightings[q] /\ Kept(seenAt', spent', q) = Kept(seenAt, spent, q)
               /\ Recent(seenAt', spent', now', q) = Recent(seenAt, spent, now, q) /\ \A x \in Kept(seenAt, spent, q) : seenAt'[x] = seenAt[x]
    <3>1. sightings'[q] = sightings[q]
      BY <1>t, <2>s, <2>1
    <3>2. Kept(seenAt', spent', q) = Kept(seenAt, spent, q) /\ m \notin Kept(seenAt, spent, q) /\ Kept(seenAt, spent, q) \subseteq Message
      BY <2>1, <2>s, <2>f DEF Kept
    <3>3. \A x \in Kept(seenAt, spent, q) : seenAt'[x] = seenAt[x]
      BY <2>f, <3>2
    <3>4. \A x \in Kept(seenAt, spent, q) :
            Steady(seenAt', Kept(seenAt, spent, q), seenAt[x], now) <=> Steady(seenAt, Kept(seenAt, spent, q), seenAt[x], now)
      BY <3>3, SteadySame
    <3>5. Recent(seenAt', spent', now', q) = Recent(seenAt, spent, now, q)
      <4>1. Recent(seenAt', spent', now', q) =
              {x \in Kept(seenAt, spent, q) :
                  Steady(seenAt', Kept(seenAt, spent, q), seenAt'[x], now)}
        BY <2>s, <3>2 DEF Recent
      <4>2. Recent(seenAt, spent, now, q) =
              {x \in Kept(seenAt, spent, q) :
                  Steady(seenAt, Kept(seenAt, spent, q), seenAt[x], now)}
        BY DEF Recent
      <4> QED
        BY <3>3, <3>4, <4>1, <4>2
    <3> QED
      BY <3>1, <3>2, <3>3, <3>5
  <2> DEFINE k == Key(m)
  <2>2. /\ Kept(seenAt', spent', k) = Kept(seenAt, spent, k) \union {m} /\ m \notin Kept(seenAt, spent, k) /\ Kept(seenAt, spent, k) \subseteq Message
    BY <2>s, <2>f, <2>k DEF Kept
  <2>3. \A x \in Kept(seenAt, spent, k) : seenAt'[x] = seenAt[x]
    BY <2>f, <2>2
  <2>4. Recent(seenAt', spent', now', k) = Recent(seenAt, spent, now, k) \union {m}
    <3>1. \A s : Steady(seenAt', Kept(seenAt', spent', k), s, now) <=> Steady(seenAt', Kept(seenAt, spent, k), s, now)
      BY <1>t, <2>f, <2>2, SteadyBefore
    <3>2. \A s : Steady(seenAt', Kept(seenAt, spent, k), s, now) <=> Steady(seenAt, Kept(seenAt, spent, k), s, now)
      BY <2>3, SteadySame
    <3>3. Steady(seenAt', Kept(seenAt', spent', k), seenAt'[m], now)
      BY <1>t, <2>f, SteadyNow
    <3>4. Recent(seenAt', spent', now', k) = {x \in Kept(seenAt', spent', k) : Steady(seenAt', Kept(seenAt', spent', k), seenAt'[x], now)}
      BY <2>s DEF Recent
    <3>5. Recent(seenAt, spent, now, k) = {x \in Kept(seenAt, spent, k) : Steady(seenAt, Kept(seenAt, spent, k), seenAt[x], now)}
      BY DEF Recent
    <3> HIDE DEF k
    <3> QED
      BY <2>2, <2>3, <3>1, <3>2, <3>3, <3>4, <3>5
  <2>5. sightings'[k].channels = {Place[x] : x \in Recent(seenAt', spent', now', k)}
    <3>1. sightings'[k].channels = sightings[k].channels \union {Place[m]}
      BY <1>t, <2>s, <2>k DEF Sighted
    <3>2. sightings[k].channels = {Place[x] : x \in Recent(seenAt, spent, now, k)}
      BY <2>k DEF SightingInv, RecentInv
    <3> HIDE DEF k
    <3> QED
      BY <2>4, <3>1, <3>2
  <2>6. RecentInv'
    <3> SUFFICES ASSUME NEW q \in spamKey
                 PROVE  sightings'[q].channels = {Place[x] : x \in Recent(seenAt', spent', now', q)}
      BY DEF RecentInv
    <3>1. CASE q = k
      BY <2>5, <3>1
    <3>2. CASE q # k
      BY <2>1, <3>2 DEF SightingInv, RecentInv
    <3> QED
      BY <3>1, <3>2
  <2>7. ASSUME NEW q \in spamKey, sightings'[q].channels # {}
        PROVE  \E x \in Kept(seenAt', spent', q) : LatestOf(q, x)'
    <3>1. CASE q = k
      <4>1. sightings'[k].until = seenAt'[m] + Window
        BY <1>t, <2>s, <2>f, <2>k DEF Sighted
      <4>2. \A y \in Kept(seenAt', spent', k) : seenAt'[y] <= seenAt'[m]
        BY <1>t, <2>2, <2>3, <2>f DEF SightingInv, RecentInv
      <4> QED
        BY <2>2, <3>1, <4>1, <4>2 DEF LatestOf
    <3>2. CASE q # k
      <4>1. PICK x \in Kept(seenAt, spent, q) : LatestOf(q, x)
        BY <2>1, <2>7, <3>2 DEF SightingInv, RecentInv
      <4> QED
        BY <2>1, <3>2, <4>1 DEF LatestOf
    <3> QED
      BY <3>1, <3>2
  <2>8. \A n \in Message : job'[n] \in {"new", "tracked"} => seenAt'[n] = Never
    <3>1. PICK s \in {"crossed", "counted"} : Goto(m, s)
      BY <1>1 DEF recordSpamSighting
    <3>2. \A n \in Message : job'[n] = IF n = m THEN s ELSE job[n]
      BY <1>t, <3>1 DEF Goto
    <3> QED
      BY <2>f, <3>2 DEF SightingInv, RecentInv
  <2>9. \A n \in Message : seenAt'[n] <= now' /\ (seenAt'[n] # Never => seenAt'[n] \in Nat)
    BY <1>t, <2>s, <2>f DEF SightingInv, RecentInv
  <2>10. \A n \in spent' : seenAt'[n] # Never
    BY <1>t, <2>s, <2>f, <2>k DEF SightingInv, RecentInv
  <2> QED
    BY <2>6, <2>7, <2>8, <2>9, <2>10 DEF SightingInv, RecentInv
<1>2. ASSUME NEW m \in Message, ConsumeTrigger(m)
      PROVE  SightingInv'
  <2>k. Key(m) \in spamKey
    BY <1>2, Stages DEF ConsumeTrigger, TypeInv, KeysInv
  <2>s. /\ seenAt' = seenAt /\ now' = now
        /\ spent' = spent \union {n \in Message : seenAt[n] # Never /\ Key(n) = Key(m)}
        /\ sightings' = [sightings EXCEPT ![Key(m)] = NothingSeen]
    BY <1>2 DEF ConsumeTrigger
  <2>1. Kept(seenAt', spent', Key(m)) = {} /\ Recent(seenAt', spent', now', Key(m)) = {} /\ sightings'[Key(m)].channels = {}
    BY <1>t, <2>k, <2>s DEF Kept, Recent, NothingSeen
  <2>2. ASSUME NEW q \in spamKey, q # Key(m)
        PROVE  Kept(seenAt', spent', q) = Kept(seenAt, spent, q) /\ Recent(seenAt', spent', now', q) = Recent(seenAt, spent, now, q) /\ sightings'[q] = sightings[q]
    <3>1. Kept(seenAt', spent', q) = Kept(seenAt, spent, q)
      BY <2>2, <2>s DEF Kept
    <3> QED
      BY <1>t, <2>2, <2>s, <3>1 DEF Recent
  <2>3. RecentInv'
    <3> SUFFICES ASSUME NEW q \in spamKey
                 PROVE  sightings'[q].channels = {Place[x] : x \in Recent(seenAt', spent', now', q)}
      BY DEF RecentInv
    <3>1. CASE q = Key(m)
      BY <2>1, <3>1
    <3>2. CASE q # Key(m)
      BY <2>2, <3>2 DEF SightingInv, RecentInv
    <3> QED
      BY <3>1, <3>2
  <2>4. ASSUME NEW q \in spamKey, sightings'[q].channels # {}
        PROVE  \E x \in Kept(seenAt', spent', q) : LatestOf(q, x)'
    <3>1. q # Key(m)
      BY <2>1, <2>4
    <3>2. PICK x \in Kept(seenAt, spent, q) : LatestOf(q, x)
      BY <2>2, <2>4, <3>1 DEF SightingInv, RecentInv
    <3> QED
      BY <2>2, <2>s, <3>1, <3>2 DEF LatestOf
  <2>5. \A n \in Message : job'[n] \in {"new", "tracked"} => seenAt'[n] = Never
    <3>1. PICK s \in {"passing", "punishing"} : Goto(m, s)
      BY <1>2 DEF ConsumeTrigger
    <3> QED
      BY <1>t, <2>s, <3>1 DEF Goto, SightingInv
  <2>6. \A n \in spent' : seenAt'[n] # Never
    BY <2>s DEF SightingInv, RecentInv
  <2> QED
    BY <2>s, <2>3, <2>4, <2>5, <2>6 DEF SightingInv, RecentInv
<1>3. ASSUME Restart
      PROVE  SightingInv'
  <2>s. /\ seenAt' = seenAt /\ now' = now
        /\ spent' = {m \in Message : seenAt[m] # Never}
        /\ \A q \in spamKey : sightings'[q].channels = {}
    BY <1>3 DEF Restart, NothingSeen
  <2>1. \A q \in spamKey : Recent(seenAt', spent', now', q) = {}
    BY <2>s DEF Kept, Recent
  <2>2. \A n \in Message : job'[n] \in {"new", "tracked"} => seenAt'[n] = Never
    BY <1>3, <1>t, <2>s DEF Restart, SightingInv
  <2> QED
    BY <2>s, <2>1, <2>2 DEF SightingInv, RecentInv
<1>4. ASSUME Tick
      PROVE  SightingInv'
  <2>s. /\ seenAt' = seenAt /\ spent' = spent /\ job' = job /\ now' = now + 1
        /\ now + 1 \in Time
        /\ \A q \in spamKey : sightings'[q] = Alive(sightings[q], now + 1)
    BY <1>4, <1>t DEF Tick, Time
  <2>1. ASSUME NEW q \in spamKey
        PROVE  /\ sightings'[q].channels = {Place[x] : x \in Recent(seenAt', spent', now', q)}
               /\ sightings'[q].channels # {} => \E x \in Kept(seenAt', spent', q) : LatestOf(q, x)'
    <3>1. Kept(seenAt', spent', q) = Kept(seenAt, spent, q) /\ Kept(seenAt, spent, q) \subseteq Message
      BY <2>s DEF Kept
    <3>2. \A x \in Kept(seenAt, spent, q) : seenAt[x] \in Int /\ seenAt[x] <= now
      BY <1>t, <3>1 DEF SightingInv, RecentInv
    <3>3. \A x \in Kept(seenAt, spent, q) :
            Steady(seenAt, Kept(seenAt, spent, q), seenAt[x], now + 1) <=>
                /\ Steady(seenAt, Kept(seenAt, spent, q), seenAt[x], now)
                /\ \E y \in Kept(seenAt, spent, q) : seenAt[y] < now + 1 /\ now + 1 <= seenAt[y] + Window
      BY <1>t, <2>s, <3>2, SteadyTick
    <3>4. Recent(seenAt', spent', now', q) = {x \in Kept(seenAt, spent, q) : Steady(seenAt, Kept(seenAt, spent, q), seenAt[x], now + 1)}
      BY <2>s, <3>1 DEF Recent
    <3>5. Recent(seenAt, spent, now, q) = {x \in Kept(seenAt, spent, q) : Steady(seenAt, Kept(seenAt, spent, q), seenAt[x], now)}
      BY DEF Recent
    <3>6. sightings[q].channels = {Place[x] : x \in Recent(seenAt, spent, now, q)}
      BY DEF SightingInv, RecentInv
    <3>9. sightings[q].until \in Nat /\ now + 1 \in Nat
      <4>1. sightings[q].until \in Expiry
        BY <1>t
      <4> QED
        BY <1>t, <4>1 DEF Expiry
    <3>7. CASE sightings[q].channels = {}
      <4>1. sightings'[q].channels = {}
        BY <2>s, <3>7 DEF Alive, NothingSeen
      <4>2. Recent(seenAt, spent, now, q) = {}
        BY <3>6, <3>7
      <4>3. \A x \in Kept(seenAt, spent, q) :
              ~Steady(seenAt, Kept(seenAt, spent, q), seenAt[x], now)
        BY <3>5, <4>2
      <4>4. \A x \in Kept(seenAt, spent, q) :
              ~Steady(seenAt, Kept(seenAt, spent, q), seenAt[x], now + 1)
        BY <3>3, <4>3
      <4>5. Recent(seenAt', spent', now', q) = {}
        BY <3>4, <4>4
      <4> QED
        BY <4>1, <4>5
    <3>8. CASE sightings[q].channels # {}
      <4>1. PICK x \in Kept(seenAt, spent, q) : LatestOf(q, x)
        BY <3>8 DEF SightingInv, RecentInv
      <4>2. (\E y \in Kept(seenAt, spent, q) : seenAt[y] < now + 1 /\ now + 1 <= seenAt[y] + Window)
              <=> now + 1 <= sightings[q].until
        BY <1>t, <3>2, <4>1 DEF LatestOf
      <4>3. CASE now + 1 <= sightings[q].until
        <5>1. sightings'[q] = sightings[q]
          BY <2>s, <3>9, <4>3 DEF Alive
        <5>2. Recent(seenAt', spent', now', q) = Recent(seenAt, spent, now, q)
          BY <3>3, <3>4, <3>5, <4>2, <4>3
        <5>3. LatestOf(q, x)'
          BY <2>s, <3>1, <4>1, <5>1 DEF LatestOf
        <5> QED
          BY <3>1, <3>6, <5>1, <5>2, <5>3
      <4>4. CASE ~(now + 1 <= sightings[q].until)
        <5>1. sightings'[q].channels = {}
          BY <2>s, <3>9, <4>4 DEF Alive, NothingSeen
        <5>2. \A y \in Kept(seenAt, spent, q) :
                ~Steady(seenAt, Kept(seenAt, spent, q), seenAt[y], now + 1)
          BY <3>3, <4>2, <4>4
        <5>3. Recent(seenAt', spent', now', q) = {}
          BY <3>4, <5>2
        <5> QED
          BY <5>1, <5>3
      <4> QED
        BY <4>3, <4>4
    <3> QED
      BY <3>7, <3>8
  <2>2. \A n \in Message : seenAt'[n] <= now'
    BY <1>t, <2>s DEF SightingInv, RecentInv
  <2> QED
    BY <2>s, <2>1, <2>2 DEF SightingInv, RecentInv
<1>5. ASSUME NEW m \in Message, NEW s \in Stage, Goto(m, s), s # "new",
             s = "tracked" => job[m] = "new"
      PROVE  \A n \in Message : job'[n] \in {"new", "tracked"} => job[n] \in {"new", "tracked"}
  BY <1>5, <1>t DEF Goto
<1>6. ASSUME NEW m \in Message, GetConfig(m) \/ SetIfAbsent(m) \/ Finish(m)
      PROVE  SightingInv'
  <2>1. \E s \in {"tracked", "ignored", "owning", "passed", "punished"} :
            Goto(m, s) /\ (s = "tracked" => job[m] = "new")
    BY <1>6 DEF GetConfig, SetIfAbsent, Finish
  <2>2. UNCHANGED <<sightings, seenAt, spent, now>>
    BY <1>6 DEF GetConfig, SetIfAbsent, Finish, history
  <2> QED
    BY <1>0, <1>5, <2>1, <2>2, Stages
<1>7. ASSUME Toggle \/ Idling \/ UNCHANGED vars
      PROVE  SightingInv'
  BY <1>0, <1>7 DEF Toggle, Idling, vars, history
<1> QED
  BY <1>1, <1>2, <1>3, <1>4, <1>6, <1>7 DEF Next

LEMMA SightingInvCorrect == Spec => []SightingInv
<1>1. Init => SightingInv
  <2> SUFFICES ASSUME Init PROVE SightingInv
    OBVIOUS
  <2>1. \A k \in spamKey : Recent(seenAt, spent, now, k) = {}
    BY DEF Kept, Recent, Init
  <2> QED
    BY <2>1, Facts DEF Init, SightingInv, RecentInv, NothingSeen
<1> QED
  BY <1>1, TypeInvCorrect, SightingStep, PTL DEF Spec

(* The cache of sightings counts exactly the channels the sliding window   *)
(* says, whatever the order of sightings, expiries, consumptions, restarts.*)
THEOREM SightingsCorrect == Spec => []SightingsAreFresh
<1>1. SightingInv => SightingsAreFresh
  BY FreshIsRecent DEF SightingInv, RecentInv, SightingsAreFresh
<1> QED
  BY <1>1, SightingInvCorrect, PTL

-----------------------------------------------------------------------------
(* The evidence against an author, for any history f of sightings.         *)
EvidenceOf(f, m) ==
    LET P == {n \in Message : Key(n) = Key(m) /\ f[n] # Never}
    IN  {n \in P : f[n] <= f[m] /\ Steady(f, P, f[n], f[m])}

Enough(S) == Cardinality({Place[n] : n \in S}) >= Threshold

LEMMA EvidenceIs == \A m : Evidence(m) = EvidenceOf(seenAt, m)
BY DEF Evidence, EvidenceOf, Posts, NoGap, Steady

LEMMA MoreIsEnough ==
  ASSUME NEW T \in SUBSET Message, NEW S \in SUBSET T, Enough(S)
  PROVE  Enough(T)
<1> DEFINE A == {Place[n] : n \in S}
           B == {Place[n] : n \in T}
<1>1. IsFiniteSet(B) /\ A \in SUBSET B
  BY PlacesFinite
<1>2. IsFiniteSet(A) /\ Cardinality(A) <= Cardinality(B)
  BY <1>1, FS_Subset
<1>3. Cardinality(A) \in Nat /\ Cardinality(B) \in Nat
  BY <1>1, <1>2, FS_CardinalityType
<1>4. Cardinality(A) >= Threshold
  BY DEF Enough
<1>5. Threshold \in Nat
  OBVIOUS
<1>6. Cardinality(B) >= Threshold
  <2> HIDE DEF A, B
  <2> QED
    BY <1>2, <1>3, <1>4, <1>5
<1> QED
  BY <1>6 DEF Enough

(* A later sighting takes no evidence away. *)
LEMMA EvidenceGrows ==
  ASSUME NEW m \in Message, NEW f, NEW g, f[m] # Never,
         \A n \in Message : f[n] # Never => g[n] = f[n]
  PROVE  EvidenceOf(f, m) \subseteq EvidenceOf(g, m)
<1> DEFINE P == {n \in Message : Key(n) = Key(m) /\ f[n] # Never}
           Q == {n \in Message : Key(n) = Key(m) /\ g[n] # Never}
<1>1. P \subseteq Q /\ \A n \in P : g[n] = f[n]
  OBVIOUS
<1>2. g[m] = f[m]
  OBVIOUS
<1>3. \A n \in P : Steady(f, P, f[n], f[m]) => Steady(g, Q, g[n], g[m])
  <2> SUFFICES ASSUME NEW n \in P, Steady(f, P, f[n], f[m]) PROVE Steady(g, Q, g[n], g[m])
    OBVIOUS
  <2>1. Steady(g, P, f[n], f[m])
    <3> HIDE DEF P
    <3> QED
      BY <1>1, SteadySame
  <2> HIDE DEF P, Q
  <2> QED
    BY <1>1, <1>2, <2>1, SteadyMore
<1>4. /\ EvidenceOf(f, m) = {n \in P : f[n] <= f[m] /\ Steady(f, P, f[n], f[m])}
      /\ EvidenceOf(g, m) = {n \in Q : g[n] <= g[m] /\ Steady(g, Q, g[n], g[m])}
  BY DEF EvidenceOf
<1> HIDE DEF P, Q
<1> QED
  BY <1>1, <1>2, <1>3, <1>4

Accused == Owning \union {"crossed", "punished", "passed"}

EvidenceInv ==
    \A m \in Message :
        job[m] \in Accused => seenAt[m] # Never /\ Enough(EvidenceOf(seenAt, m))

(* The channels that count now are evidence against who posts now.         *)
LEMMA RecentIsEvidence ==
  ASSUME NEW f, NEW gone, NEW m \in Message, NEW t \in Nat, f[m] = t,
         \A n \in Message : f[n] <= t
  PROVE  Recent(f, gone, t, Key(m)) \subseteq EvidenceOf(f, m)
<1> DEFINE P == {n \in Message : Key(n) = Key(m) /\ f[n] # Never}
           K == Kept(f, gone, Key(m))
<1>1. K \subseteq P /\ P \subseteq Message
  BY DEF Kept
<1>2. \A n \in K : Steady(f, K, f[n], t) => Steady(f, P, f[n], t)
  <2> HIDE DEF K, P
  <2> QED
    BY <1>1, SteadyMore
<1>3. /\ Recent(f, gone, t, Key(m)) = {n \in K : Steady(f, K, f[n], t)}
      /\ EvidenceOf(f, m) = {n \in P : f[n] <= f[m] /\ Steady(f, P, f[n], f[m])}
  BY DEF Recent, EvidenceOf
<1> HIDE DEF K, P
<1> QED
  BY <1>1, <1>2, <1>3

LEMMA EvidenceStep ==
  TypeInv /\ SightingInv /\ SightingInv' /\ EvidenceInv /\ [Next]_vars => EvidenceInv'
<1> SUFFICES ASSUME TypeInv, SightingInv, SightingInv', EvidenceInv, [Next]_vars
             PROVE  EvidenceInv'
  OBVIOUS
<1>t. /\ now \in Nat /\ job \in [Message -> Stage]
      /\ sightings \in [spamKey -> [channels : SUBSET Channel, until : Expiry]]
      /\ seenAt \in [Message -> MaybeTime]
  BY Facts DEF TypeInv, TypeOK
<1>a. /\ \A s \in {"new", "tracked", "counted", "ignored", "killed"} : s \notin Accused
      /\ \A s \in {"crossed", "punished", "passed"} : s \in Accused /\ s \in Stage
      /\ Owning \subseteq Accused
  BY Stages DEF Accused
<1>0. ASSUME seenAt' = seenAt, \A n \in Message : job'[n] \in Accused => job[n] \in Accused
      PROVE  EvidenceInv'
  BY <1>0 DEF EvidenceInv
<1>1. ASSUME NEW m \in Message, recordSpamSighting(m)
      PROVE  EvidenceInv'
  <2>k. Key(m) \in spamKey /\ seenAt[m] = Never /\ job[m] = "tracked"
    BY <1>1 DEF recordSpamSighting, TypeInv, KeysInv, SightingInv
  <2>f. /\ seenAt'[m] = now /\ now # Never
        /\ \A n \in Message : n # m => seenAt'[n] = seenAt[n]
        /\ \A n \in Message : seenAt[n] # Never => seenAt'[n] = seenAt[n]
    BY <1>t, <1>1, <2>k, Facts DEF recordSpamSighting
  <2>1. ASSUME NEW n \in Message, n # m, job'[n] \in Accused
        PROVE  seenAt'[n] # Never /\ Enough(EvidenceOf(seenAt', n))
    <3>1. job'[n] = job[n]
      BY <1>1, <1>t, <2>1 DEF recordSpamSighting, Goto
    <3>2. seenAt[n] # Never /\ Enough(EvidenceOf(seenAt, n))
      BY <2>1, <3>1 DEF EvidenceInv
    <3>3. EvidenceOf(seenAt, n) \subseteq EvidenceOf(seenAt', n)
      BY <2>f, <3>2, EvidenceGrows
    <3>4. EvidenceOf(seenAt', n) \subseteq Message
      BY DEF EvidenceOf
    <3> QED
      BY <2>f, <3>2, <3>3, <3>4, MoreIsEnough
  <2>2. ASSUME job'[m] \in Accused
        PROVE  Enough(EvidenceOf(seenAt', m))
    <3>1. Crosses(Sighted(Key(m), Place[m]).channels)
      <4>1. CASE ~Crosses(Sighted(Key(m), Place[m]).channels)
        <5>1. job'[m] = "counted"
          BY <1>1, <1>t, <4>1 DEF recordSpamSighting, Goto
        <5> QED
          BY <1>a, <2>2, <5>1
      <4> QED
        BY <4>1
    <3>2. sightings'[Key(m)] = Sighted(Key(m), Place[m])
      BY <1>1, <1>t, <2>k DEF recordSpamSighting
    <3> DEFINE R == Recent(seenAt', spent', now', Key(m))
    <3>3. sightings'[Key(m)].channels = {Place[n] : n \in R}
      BY <2>k DEF SightingInv, RecentInv
    <3>4. Enough(R)
      BY <3>1, <3>2, <3>3 DEF Crosses, Enough
    <3>5. now' = now /\ \A n \in Message : seenAt'[n] <= now
      BY <1>1 DEF recordSpamSighting, SightingInv
    <3>6. R \subseteq EvidenceOf(seenAt', m)
      BY <1>t, <2>f, <3>5, RecentIsEvidence
    <3>7. EvidenceOf(seenAt', m) \subseteq Message
      BY DEF EvidenceOf
    <3> HIDE DEF R
    <3> QED
      BY <3>4, <3>6, <3>7, MoreIsEnough
  <2> QED
    BY <2>1, <2>2, <2>f DEF EvidenceInv
<1>2. ASSUME NEW m \in Message, NEW s \in Stage, Goto(m, s),
             s \in Accused => job[m] \in Accused
      PROVE  \A n \in Message : job'[n] \in Accused => job[n] \in Accused
  BY <1>2, <1>t DEF Goto
<1>3. ASSUME NEW m \in Message, GetConfig(m)
      PROVE  EvidenceInv'
  <2>1. PICK s \in {"tracked", "ignored"} : Goto(m, s)
    BY <1>3 DEF GetConfig
  <2>2. seenAt' = seenAt
    BY <1>3 DEF GetConfig, history
  <2> QED
    BY <1>0, <1>2, <1>a, <2>1, <2>2, Stages
<1>4. ASSUME NEW m \in Message, SetIfAbsent(m) \/ ConsumeTrigger(m) \/ Finish(m)
      PROVE  EvidenceInv'
  <2>1. seenAt' = seenAt
    BY <1>4 DEF SetIfAbsent, ConsumeTrigger, Finish
  <2>2. job[m] \in Accused
    BY <1>4, <1>a, Stages DEF SetIfAbsent, ConsumeTrigger, Finish
  <2>3. \A n \in Message : n # m => job'[n] = job[n]
    BY <1>4, <1>t DEF SetIfAbsent, ConsumeTrigger, Finish, Goto
  <2> QED
    BY <1>0, <2>1, <2>2, <2>3
<1>5. ASSUME Restart
      PROVE  EvidenceInv'
  <2>1. \A n \in Message : job'[n] \in Accused => job[n] \in Accused
    BY <1>5, <1>a, <1>t DEF Restart
  <2> QED
    BY <1>0, <1>5, <2>1 DEF Restart
<1>6. ASSUME Tick \/ Toggle \/ Idling \/ UNCHANGED vars
      PROVE  EvidenceInv'
  BY <1>0, <1>6 DEF Tick, Toggle, Idling, vars, history
<1> QED
  BY <1>1, <1>3, <1>4, <1>5, <1>6 DEF Next

(* Who is moderated for spam, or about to be, has posted the same images   *)
(* in as many channels as the threshold says within the sliding window.    *)
THEOREM EvidenceCorrect == Spec => []EvidenceSuffices
<1>1. Init => EvidenceInv
  <2> SUFFICES ASSUME Init, NEW m \in Message PROVE job[m] \notin Accused
    BY DEF EvidenceInv
  <2> QED
    BY Stages DEF Init, Accused
<1>2. EvidenceInv => EvidenceSuffices
  BY EvidenceIs DEF EvidenceInv, EvidenceSuffices, Accused, Enough
<1> QED
  BY <1>1, <1>2, TypeInvCorrect, SightingInvCorrect, EvidenceStep, PTL DEF Spec

-----------------------------------------------------------------------------
(* That no blast is missed: an expiry is never further off than a window,  *)
(* so who releases the guard has outlasted the last of the sightings.      *)
MetBy(k, m) ==
    /\ Author[m] = k[1]
    /\ \/ job[m] \in Owning \union {"crossed"}
       \/ endedAt[m] # Never /\ endedAt[m] + Window >= sightings[k].until

BlastInv ==
    /\ \A k \in spamKey : sightings[k].until <= now + Window
    /\ \A k \in spamKey :
        Crosses(sightings[k].channels) => \E m \in Message : MetBy(k, m)

LEMMA NothingCrosses == ~Crosses(NothingSeen.channels)
<1>1. Cardinality({}) = 0
  BY FS_EmptySet
<1> QED
  BY <1>1 DEF Crosses, NothingSeen

LEMMA BlastStep == TypeInv /\ GuardInv /\ BlastInv /\ [Next]_vars => BlastInv'
<1> SUFFICES ASSUME TypeInv, GuardInv, BlastInv, [Next]_vars PROVE BlastInv'
  OBVIOUS
<1>t. /\ now \in Nat /\ Window \in Nat /\ job \in [Message -> Stage]
      /\ sightings \in [spamKey -> [channels : SUBSET Channel, until : Expiry]]
      /\ endedAt \in [Message -> MaybeTime] /\ dedup \in [User -> 0 .. MaxTime + Hold \union {Never}]
  BY Facts DEF TypeInv, TypeOK
<1>k. ASSUME NEW m \in Message, job[m] \in {"tracked", "crossed"} \union Owning
      PROVE  Key(m) \in spamKey /\ Key(m)[1] = Author[m] /\ Author[m] \in User
  BY <1>k DEF TypeInv, KeysInv, Key
<1>u. \A k \in spamKey : sightings[k].until \in Nat
  <2>1. \A k \in spamKey : sightings[k].until \in Expiry
    BY <1>t
  <2> QED
    BY <2>1, Facts
<1>a. /\ "crossed" \in Stage /\ \A s \in Owning : s \in Stage
      /\ \A s \in {"new", "tracked"} : s \notin Owning \union {"crossed"}
  BY Stages
(* What is met by somebody else stays met.                                 *)
<1>0. ASSUME NEW k \in spamKey, NEW n \in Message, MetBy(k, n),
             sightings'[k].until = sightings[k].until,
             job[n] \in Owning \union {"crossed"} => job'[n] \in Owning \union {"crossed"},
             endedAt'[n] = endedAt[n]
      PROVE  MetBy(k, n)'
  BY <1>0 DEF MetBy
<1>1. ASSUME NEW m \in Message, recordSpamSighting(m)
      PROVE  BlastInv'
  <2>k. Key(m) \in spamKey /\ job[m] = "tracked" /\ Key(m)[1] = Author[m]
    BY <1>1, <1>k DEF recordSpamSighting
  <2>s. /\ sightings' = [sightings EXCEPT ![Key(m)] = Sighted(Key(m), Place[m])]
        /\ now' = now /\ endedAt' = endedAt
        /\ \A n \in Message : n # m => job'[n] = job[n]
    BY <1>1, <1>t DEF recordSpamSighting, Goto
  <2>1. \A k \in spamKey : sightings'[k].until <= now' + Window
    BY <1>t, <2>s DEF Sighted, BlastInv
  <2>2. ASSUME NEW k \in spamKey, Crosses(sightings'[k].channels)
        PROVE  \E n \in Message : MetBy(k, n)'
    <3>1. CASE k = Key(m)
      <4>1. sightings'[k] = Sighted(Key(m), Place[m])
        BY <1>t, <2>s, <2>k, <3>1
      <4>2. job'[m] = "crossed"
        BY <1>1, <1>t, <2>2, <4>1 DEF recordSpamSighting, Goto
      <4> QED
        BY <2>k, <3>1, <4>2 DEF MetBy
    <3>2. CASE k # Key(m)
      <4>1. sightings'[k] = sightings[k]
        BY <1>t, <2>s, <3>2
      <4>2. PICK n \in Message : MetBy(k, n)
        BY <2>2, <4>1 DEF BlastInv
      <4>3. job[n] \in Owning \union {"crossed"} => job'[n] \in Owning \union {"crossed"}
        BY <1>a, <2>k, <2>s
      <4> QED
        BY <1>0, <2>s, <4>1, <4>2, <4>3
    <3> QED
      BY <3>1, <3>2
  <2> QED
    BY <2>1, <2>2 DEF BlastInv
<1>2. ASSUME NEW m \in Message, SetIfAbsent(m)
      PROVE  BlastInv'
  <2>k. job[m] = "crossed" /\ Author[m] \in User /\ UNCHANGED <<now, sightings, endedAt>>
    BY <1>2, <1>k DEF SetIfAbsent
  <2>j. PICK s \in {"owning", "ignored"} :
          /\ \A n \in Message : job'[n] = IF n = m THEN s ELSE job[n]
          /\ s = "ignored" => dedup[Author[m]] # Never
    BY <1>2, <1>t DEF SetIfAbsent, Goto
  <2>1. ASSUME NEW k \in spamKey, NEW n \in Message, MetBy(k, n)
        PROVE  \E x \in Message : MetBy(k, x)'
    <3>1. CASE n = m /\ s = "ignored"
      <4>1. PICK x \in Holders : Author[x] = Author[m]
        BY <2>k, <2>j, <3>1 DEF GuardInv
      <4>2. x \in Message /\ job[x] \in Owning /\ x # m
        BY <2>k, <4>1, Stages DEF Holders
      <4>3. Author[x] = k[1] /\ job'[x] \in Owning
        BY <2>1, <2>j, <3>1, <4>1, <4>2 DEF MetBy
      <4> QED
        BY <4>2, <4>3 DEF MetBy
    <3>2. CASE n # m \/ s = "owning"
      <4>1. job[n] \in Owning \union {"crossed"} => job'[n] \in Owning \union {"crossed"}
        BY <2>j, <3>2, Stages
      <4> QED
        BY <1>0, <2>k, <2>1, <4>1
    <3> QED
      BY <3>1, <3>2
  <2> QED
    BY <2>k, <2>1 DEF BlastInv
<1>3. ASSUME NEW m \in Message, ConsumeTrigger(m)
      PROVE  BlastInv'
  <2>k. Key(m) \in spamKey /\ job[m] = "owning" /\ UNCHANGED <<now, endedAt>>
    BY <1>3, <1>k, Stages DEF ConsumeTrigger
  <2>s. \A k \in spamKey :
          sightings'[k] = IF k = Key(m) THEN NothingSeen ELSE sightings[k]
    BY <1>3, <1>t DEF ConsumeTrigger
  <2>j. \A n \in Message : job[n] \in Owning \union {"crossed"} => job'[n] \in Owning \union {"crossed"}
    BY <1>3, <1>t, <2>k, Stages DEF ConsumeTrigger, Goto
  <2>1. \A k \in spamKey : sightings'[k].until <= now' + Window
    BY <1>t, <2>k, <2>s DEF BlastInv, NothingSeen
  <2>2. ASSUME NEW k \in spamKey, Crosses(sightings'[k].channels)
        PROVE  \E n \in Message : MetBy(k, n)'
    <3>1. sightings'[k] = sightings[k]
      BY <2>2, <2>s, NothingCrosses
    <3>2. PICK n \in Message : MetBy(k, n)
      BY <2>2, <3>1 DEF BlastInv
    <3> QED
      BY <1>0, <2>k, <2>j, <3>1, <3>2
  <2> QED
    BY <2>1, <2>2 DEF BlastInv
<1>4. ASSUME NEW m \in Message, Finish(m)
      PROVE  BlastInv'
  <2>s. UNCHANGED <<now, sightings>> /\ endedAt' = [endedAt EXCEPT ![m] = now]
    BY <1>4 DEF Finish
  <2>1. ASSUME NEW k \in spamKey, NEW n \in Message, MetBy(k, n)
        PROVE  MetBy(k, n)'
    <3>1. CASE n = m
      <4>1. endedAt'[n] = now /\ now # Never
        BY <1>t, <2>s, <3>1, Facts
      <4>2. now + Window >= sightings[k].until
        BY <1>t, <1>u DEF BlastInv
      <4> QED
        BY <2>1, <2>s, <4>1, <4>2 DEF MetBy
    <3>2. CASE n # m
      <4>1. job'[n] = job[n] /\ endedAt'[n] = endedAt[n]
        BY <1>4, <1>t, <3>2 DEF Finish, Goto
      <4> QED
        BY <1>0, <2>1, <2>s, <4>1
    <3> QED
      BY <3>1, <3>2
  <2> QED
    BY <2>s, <2>1 DEF BlastInv
<1>5. ASSUME Tick
      PROVE  BlastInv'
  <2>s. /\ now' = now + 1 /\ UNCHANGED <<job, endedAt>>
        /\ \A k \in spamKey : sightings'[k] = NothingSeen \/ sightings'[k] = sightings[k]
    BY <1>5, <1>t DEF Tick, Alive
  <2>1. \A k \in spamKey : sightings'[k].until <= now' + Window
    BY <1>t, <1>u, <2>s DEF BlastInv, NothingSeen
  <2>2. ASSUME NEW k \in spamKey, Crosses(sightings'[k].channels)
        PROVE  \E n \in Message : MetBy(k, n)'
    <3>1. sightings'[k] = sightings[k]
      BY <2>2, <2>s, NothingCrosses
    <3>2. PICK n \in Message : MetBy(k, n)
      BY <2>2, <3>1 DEF BlastInv
    <3> QED
      BY <1>0, <2>s, <3>1, <3>2
  <2> QED
    BY <2>1, <2>2 DEF BlastInv
<1>6. ASSUME Restart
      PROVE  BlastInv'
  <2>1. \A k \in spamKey : sightings'[k] = NothingSeen
    BY <1>6 DEF Restart
  <2>2. now' = now /\ NothingSeen.until = 0
    BY <1>6 DEF Restart, NothingSeen
  <2> QED
    BY <1>t, <2>1, <2>2, NothingCrosses DEF BlastInv
<1>7. ASSUME NEW m \in Message, GetConfig(m)
      PROVE  BlastInv'
  <2>1. UNCHANGED <<now, sightings, endedAt>>
    BY <1>7 DEF GetConfig, history
  <2>2. \A n \in Message : job[n] \in Owning \union {"crossed"} => job'[n] = job[n]
    BY <1>7, <1>a, <1>t DEF GetConfig, Goto
  <2> QED
    BY <1>0, <2>1, <2>2 DEF BlastInv
<1>8. ASSUME Toggle \/ Idling \/ UNCHANGED vars
      PROVE  BlastInv'
  BY <1>8 DEF Toggle, Idling, vars, history, BlastInv, MetBy
<1> QED
  BY <1>1, <1>2, <1>3, <1>4, <1>5, <1>6, <1>7, <1>8 DEF Next

(* A blast over the threshold never goes by without a handler that is      *)
(* about to ask for the guard, has it, or had it at the last sighting.     *)
THEOREM BlastCorrect == Spec => []BlastIsMet
<1>1. Init => BlastInv
  <2> SUFFICES ASSUME Init PROVE BlastInv
    OBVIOUS
  <2>1. now = 0 /\ \A k \in spamKey : sightings[k] = NothingSeen
    BY DEF Init
  <2>2. NothingSeen.until = 0
    BY DEF NothingSeen
  <2> QED
    BY <2>1, <2>2, NothingCrosses DEF BlastInv
<1>2. BlastInv => BlastIsMet
  BY DEF BlastInv, BlastIsMet, MetBy, Crosses
<1> QED
  BY <1>1, <1>2, TypeInvCorrect, GuardInvCorrect, BlastStep, PTL DEF Spec
=============================================================================
