-------------------------- MODULE ModerationProofs --------------------------
(***************************************************************************)
(* Theorems about Moderation, for every number of messages, users and      *)
(* channels, every set of faults and every number of attempts.             *)
(***************************************************************************)
EXTENDS Moderation, TLAPS

USE ModerationAssumption

LEMMA StageNames ==
  /\ "dm" \in Stage /\ "dmOver" \in Stage /\ "ban" \in Stage /\ "unban" \in Stage
  /\ "event" \in Stage /\ "send" \in Stage /\ "unset" \in Stage
  /\ "fallback" \in Stage /\ "end" \in Stage /\ "lookedUp" \in Stage
  /\ "eligible" \in Stage /\ "ignored" \in Stage /\ "done" \in Stage
  /\ "killed" \in Stage
BY DEF Stage, Owning

LEMMA FieldNames ==
  /\ "honeypot" \in triggerKind /\ "spam" \in triggerKind
  /\ "none" \in Topic /\ "exempt" \in Topic /\ "banFailed" \in Topic
  /\ "unbanFailed" \in Topic /\ "routine" \in Topic
  /\ "none" \in Fate /\ "posted" \in Fate /\ "dropped" \in Fate
  /\ \A c \in Channel : c \in MaybeChannel
  /\ Nil \in MaybeChannel /\ NoConfig \in Snapshot
  /\ \A s \in Setting : s \in Snapshot
BY DEF triggerKind, Topic, Fate, MaybeChannel, Snapshot

(* The changes of a handler's record the steps make keep it well typed.    *)
LEMMA ZeroTries == 0 \in Tries
BY DEF Tries
LEMMA MoveTyped ==
  ASSUME NEW r \in Job, NEW s \in Stage PROVE [r EXCEPT !.at = s] \in Job
BY DEF Job
LEMMA LookupTyped ==
  ASSUME NEW r \in Job, NEW s \in Stage, NEW k \in triggerKind
  PROVE  [r EXCEPT !.at = s, !.kind = k] \in Job
BY DEF Job
LEMMA SnapshotTyped ==
  ASSUME NEW r \in Job, NEW s \in Stage, NEW c \in Snapshot
  PROVE  [r EXCEPT !.at = s, !.cfg = c] \in Job
BY DEF Job
LEMMA PlanTyped ==
  ASSUME NEW r \in Job, NEW s \in Stage, NEW c \in MaybeChannel, NEW t \in Topic
  PROVE  [r EXCEPT !.at = s, !.alertChannel = c, !.about = t] \in Job
BY DEF Job
LEMMA TriesTyped ==
  ASSUME NEW r \in Job, NEW n \in Tries
  PROVE  [r EXCEPT !.tries = n] \in Job
BY DEF Job
LEMMA PostTyped ==
  ASSUME NEW r \in Job, NEW s \in Stage, NEW t \in Topic
  PROVE  [r EXCEPT !.at = s, !.about = t, !.tries = 0] \in Job
BY ZeroTries DEF Job
LEMMA BanTyped ==
  ASSUME NEW r \in Job, NEW s \in Stage
  PROVE  [r EXCEPT !.at = s, !.tries = 0, !.banned = TRUE] \in Job
BY ZeroTries DEF Job
LEMMA UnbanTyped ==
  ASSUME NEW r \in Job, NEW s \in Stage
  PROVE  [r EXCEPT !.at = s, !.tries = 0] \in Job
BY ZeroTries DEF Job
LEMMA EventTyped ==
  ASSUME NEW r \in Job, NEW s \in Stage, NEW t \in Topic, NEW b \in BOOLEAN
  PROVE  [r EXCEPT !.at = s, !.about = t, !.counted = b] \in Job
BY DEF Job
LEMMA AlertTyped ==
  ASSUME NEW r \in Job, NEW s \in Stage, NEW f \in Fate
  PROVE  [r EXCEPT !.at = s, !.alert = f] \in Job
BY DEF Job

LEMMA GotoTyped ==
  ASSUME job \in [Message -> Job], NEW m \in Message, NEW s \in Stage, Goto(m, s)
  PROVE  job' \in [Message -> Job]
BY MoveTyped DEF Goto

LEMMA RetryTyped ==
  ASSUME job \in [Message -> Job], NEW m \in Message, NEW topic \in Topic,
         retryTransient(m, topic) \/ Post(m, topic)
  PROVE  job' \in [Message -> Job]
<1>1. CASE job[m].tries + 1 < Attempts /\ job' = [job EXCEPT ![m].tries = @ + 1]
  <2>1. job[m].tries + 1 \in Tries
    BY <1>1 DEF Job, Tries
  <2> QED
    BY <1>1, <2>1, TriesTyped
<1>2. CASE Post(m, topic)
  BY <1>2, PostTyped, StageNames DEF Post
<1> QED
  BY <1>1, <1>2 DEF retryTransient

LEMMA LoggedTyped ==
  ASSUME job \in [Message -> Job], NEW m \in Message, NEW ok \in BOOLEAN, Logged(m, ok)
  PROVE  job' \in [Message -> Job]
<1> DEFINE s == IF Alerting(m) /\ ~ok THEN "fallback" ELSE Resume(m)
           f == IF Alerting(m) /\ ok THEN "posted" ELSE job[m].alert
<1>1. s \in Stage
  BY StageNames DEF Resume
<1>2. f \in Fate
  BY FieldNames DEF Job
<1>3. job' = [job EXCEPT ![m].at = s, ![m].alert = f]
  BY DEF Logged
<1> QED
  BY <1>1, <1>2, <1>3, AlertTyped

(* Every step keeps the types: a snapshot is a configuration that was      *)
(* stored, an attempt counter stays below the number of attempts.          *)
LEMMA TypeStep == TypeOK /\ [Next]_vars => TypeOK'
<1> SUFFICES ASSUME TypeOK, [Next]_vars PROVE TypeOK'
  OBVIOUS
<1> USE DEF guildState
<1>j. ASSUME job' \in [Message -> Job], UNCHANGED <<guildState, bannedBy, phase>>,
             dedup' \subseteq User
      PROVE  TypeOK'
  BY <1>j DEF TypeOK
<1>t. job \in [Message -> Job]
  BY DEF TypeOK
<1>1. ASSUME NEW m \in Message, GetChannelByID(m)
      PROVE  TypeOK'
  <2>1. job' \in [Message -> Job]
    <3>1. ASSUME NEW k \in triggerKind,
                 job' = [job EXCEPT ![m].at = "lookedUp", ![m].kind = k]
          PROVE  job' \in [Message -> Job]
      BY <1>t, <3>1, LookupTyped, StageNames
    <3>2. Goto(m, "ignored") => job' \in [Message -> Job]
      BY <1>t, GotoTyped, StageNames
    <3> QED
      BY <1>1, <3>1, <3>2, FieldNames DEF GetChannelByID
  <2> QED
    BY <1>1, <1>j, <2>1 DEF GetChannelByID, TypeOK
<1>2. ASSUME NEW m \in Message, dmUserReturns(m) \/ StopWaiting(m)
      PROVE  TypeOK'
  <2>1. job' \in [Message -> Job]
    BY <1>2, <1>t, GotoTyped, StageNames DEF dmUserReturns, StopWaiting
  <2> QED
    BY <1>2, <1>j, <2>1 DEF dmUserReturns, StopWaiting, TypeOK
<1>3. ASSUME NEW m \in Message, GetConfig(m)
      PROVE  TypeOK'
  <2>1. config \in Snapshot
    BY DEF TypeOK
  <2>2. job' \in [Message -> Job]
    <3>1. ASSUME job' = [job EXCEPT ![m].at = "eligible", ![m].cfg = config]
          PROVE  job' \in [Message -> Job]
      BY <1>t, <2>1, <3>1, SnapshotTyped, StageNames
    <3>2. Goto(m, "ignored") => job' \in [Message -> Job]
      BY <1>t, GotoTyped, StageNames
    <3> QED
      BY <1>3, <3>1, <3>2 DEF GetConfig
  <2> QED
    BY <1>3, <1>j, <2>2 DEF GetConfig, TypeOK
<1>4. ASSUME NEW m \in Message, SetIfAbsent(m)
      PROVE  TypeOK'
  <2> DEFINE about == IF decideModeration(m) = "send" THEN "exempt" ELSE "none"
  <2>1. about \in Topic /\ decideModeration(m) \in Stage
    BY FieldNames, StageNames DEF decideModeration
  <2>2. alertChannelOf(m) \in MaybeChannel
    BY FieldNames DEF alertChannelOf, TypeOK
  <2>3. job' \in [Message -> Job]
    <3>1. ASSUME NEW s \in Stage, NEW c \in MaybeChannel, NEW t \in Topic,
                 job' = [job EXCEPT ![m].at = s, ![m].alertChannel = c, ![m].about = t]
          PROVE  job' \in [Message -> Job]
      BY <1>t, <3>1, PlanTyped
    <3>2. Goto(m, "ignored") => job' \in [Message -> Job]
      BY <1>t, GotoTyped, StageNames
    <3> QED
      BY <1>4, <2>1, <2>2, <3>1, <3>2 DEF SetIfAbsent
  <2> QED
    BY <1>4, <1>j, <2>3 DEF SetIfAbsent, TypeOK
<1>6. ASSUME NEW m \in Message, AddBan(m)
      PROVE  TypeOK'
  <2>1. job' \in [Message -> Job]
    <3>1. ASSUME NEW s \in Stage, job' = [job EXCEPT ![m].at = s, ![m].tries = 0, ![m].banned = TRUE]
          PROVE  job' \in [Message -> Job]
      BY <1>t, <3>1, BanTyped
    <3>2. ASSUME NEW t \in Topic, retryTransient(m, t) \/ Post(m, t)
          PROVE  job' \in [Message -> Job]
      BY <1>t, <3>2, RetryTyped
    <3> QED
      BY <1>6, <3>1, <3>2, StageNames, FieldNames DEF AddBan
  <2>2. bannedBy' \in [User -> Message \union {Nil}]
    BY <1>6 DEF AddBan, TypeOK
  <2> QED
    BY <1>6, <2>1, <2>2 DEF AddBan, TypeOK
<1>7. ASSUME NEW m \in Message, DeleteBan(m)
      PROVE  TypeOK'
  <2>1. job' \in [Message -> Job]
    <3>1. ASSUME NEW s \in Stage, job' = [job EXCEPT ![m].at = s, ![m].tries = 0]
          PROVE  job' \in [Message -> Job]
      BY <1>t, <3>1, UnbanTyped
    <3>2. ASSUME NEW t \in Topic, retryTransient(m, t) \/ Post(m, t)
          PROVE  job' \in [Message -> Job]
      BY <1>t, <3>2, RetryTyped
    <3> QED
      BY <1>7, <3>1, <3>2, StageNames, FieldNames DEF DeleteBan
  <2>2. bannedBy' \in [User -> Message \union {Nil}]
    BY <1>7 DEF DeleteBan, TypeOK
  <2> QED
    BY <1>7, <2>1, <2>2 DEF DeleteBan, TypeOK
<1>8. ASSUME NEW m \in Message, RecordEvent(m)
      PROVE  TypeOK'
  <2>1. job' \in [Message -> Job]
    BY <1>8, <1>t, EventTyped, StageNames, FieldNames DEF RecordEvent
  <2> QED
    BY <1>8, <1>j, <2>1 DEF RecordEvent, TypeOK
<1>10. ASSUME NEW m \in Message, sendLog(m)
       PROVE  TypeOK'
  <2>1. job' \in [Message -> Job]
    BY <1>10, <1>t, LoggedTyped, GotoTyped, StageNames DEF sendLog
  <2> QED
    BY <1>10, <1>j, <2>1 DEF sendLog, TypeOK
<1>11. UnsetLog => config' \in Snapshot
  BY DEF UnsetLog, TypeOK, Setting, Snapshot
<1>12. ASSUME NEW m \in Message, UnsetLogChannel(m)
       PROVE  TypeOK'
  <2>1. job' \in [Message -> Job]
    BY <1>12, <1>t, LoggedTyped DEF UnsetLogChannel
  <2> QED
    BY <1>11, <1>12, <2>1 DEF UnsetLogChannel, TypeOK
<1>13. ASSUME NEW m \in Message, sendAlertFallback(m)
       PROVE  TypeOK'
  <2>1. Resume(m) \in Stage
    BY StageNames DEF Resume
  <2>2. job' \in [Message -> Job]
    <3>1. ASSUME NEW f \in Fate,
                 job' = [job EXCEPT ![m].at = Resume(m), ![m].alert = f]
          PROVE  job' \in [Message -> Job]
      BY <1>t, <2>1, <3>1, AlertTyped
    <3> QED
      BY <1>13, <3>1, FieldNames DEF sendAlertFallback
  <2> QED
    BY <1>13, <1>j, <2>2 DEF sendAlertFallback, TypeOK
<1>14. ASSUME NEW m \in Message, Finish(m)
       PROVE  TypeOK'
  <2>1. job' \in [Message -> Job]
    BY <1>14, <1>t, GotoTyped, StageNames DEF Finish
  <2> QED
    BY <1>14, <1>j, <2>1 DEF Finish, TypeOK
<1>15. Intervene => changes' \in 0 .. MaxChanges
  BY DEF Intervene, TypeOK
<1>16. ASSUME NEW s \in Settings, NEW c \in Channel, SaveGuildSetup(s, c)
       PROVE  TypeOK'
  BY <1>15, <1>16, FieldNames DEF SaveGuildSetup, TypeOK
<1>17. CASE DeleteGuild
  BY <1>15, <1>17, FieldNames DEF DeleteGuild, TypeOK
<1>18. ASSUME NEW c \in Channel, DiscordDeletes(c) \/ handleContainerDelete(c)
       PROVE  TypeOK'
  BY <1>15, <1>18, FieldNames DEF DiscordDeletes, handleContainerDelete, TypeOK
<1>19. ASSUME NEW c \in Channel, UnsetDeleted(c)
       PROVE  TypeOK'
  BY <1>11, <1>19 DEF UnsetDeleted, TypeOK
<1>20. ASSUME NEW u \in User, Expire(u) \/ ModeratorUnbans(u)
       PROVE  TypeOK'
  BY <1>15, <1>20 DEF Expire, ModeratorUnbans, TypeOK
<1>21. CASE Shutdown \/ Restart
  BY <1>15, <1>21 DEF Shutdown, Restart, TypeOK
<1>22. CASE Exit
  <2>1. job' \in [Message -> Job]
    BY <1>22, <1>t, MoveTyped, StageNames DEF Exit
  <2> QED
    BY <1>15, <1>22, <2>1 DEF Exit, TypeOK
<1>23. CASE Idling \/ UNCHANGED vars
  BY <1>23 DEF Idling, vars, TypeOK
<1> QED
  BY <1>1, <1>2, <1>3, <1>4, <1>6, <1>7, <1>8, <1>10, <1>12, <1>13, <1>14,
     <1>16, <1>17, <1>18, <1>19, <1>20, <1>21, <1>22, <1>23
     DEF Next, Step, Environment

(* The guild, the guard, the bans and the handlers keep their types.       *)
THEOREM TypeCorrect == Spec => []TypeOK
<1>1. Init => TypeOK
  <2> SUFFICES ASSUME Init PROVE TypeOK
    OBVIOUS
  <2>1. "new" \in Stage
    BY DEF Stage
  <2>2. job \in [Message -> Job]
    BY <2>1, ZeroTries, FieldNames DEF Init, Job
  <2>3. config \in Snapshot /\ honeypot \in MaybeChannel
    BY FieldNames DEF Init
  <2>4. removal \in [Channel -> {"exists", "deleted", "unsetting", "handled"}]
    BY DEF Init
  <2>5. bannedBy \in [User -> Message \union {Nil}]
    BY DEF Init
  <2>6. changes \in 0 .. MaxChanges /\ dedup \subseteq User
    BY DEF Init
  <2>7. phase \in {"up", "stopping", "down"}
    BY DEF Init
  <2> QED
    BY <2>2, <2>3, <2>4, <2>5, <2>6, <2>7 DEF TypeOK
<1> QED
  BY <1>1, TypeStep, PTL DEF Spec

-----------------------------------------------------------------------------
(* The ways a step can treat the guard and those who hold it. *)
Untouched == dedup' = dedup /\ Holders' = Holders
Taken(m) ==
    /\ m \notin Holders /\ Author[m] \notin dedup
    /\ dedup' = dedup \union {Author[m]} /\ Holders' = Holders \union {m}
Released(m) ==
    /\ m \in Holders
    /\ dedup' = dedup \ {Author[m]} /\ Holders' = Holders \ {m}
Expired(u) == Overrun /\ u \in dedup /\ dedup' = dedup \ {u} /\ Holders' = Holders
Vanished == dedup' = {} /\ Holders' = {}

(* A step of one handler from one owning stage to another touches nothing. *)
LEMMA MovesOn ==
  ASSUME job \in [Message -> Job], NEW m \in Message,
         Owner(m), job'[m].at \in Owning,
         \A n \in Message \ {m} : job'[n] = job[n]
  PROVE  Holders' = Holders
BY DEF Owner, Holders

(* Only SetIfAbsent takes a guard and only Finish and Exit give one back.   *)
LEMMA LockMoves ==
  ASSUME TypeOK, [Next]_vars
  PROVE  \/ Untouched
         \/ \E m \in Message : Taken(m) \/ Released(m)
         \/ \E u \in User : Expired(u)
         \/ Vanished
<1> DEFINE Goal == \/ Untouched
                   \/ \E m \in Message : Taken(m) \/ Released(m)
                   \/ \E u \in User : Expired(u)
                   \/ Vanished
<1>t. job \in [Message -> Job]
  BY DEF TypeOK
<1>o. \A s \in {"dm", "dmOver", "ban", "unban", "event", "send", "unset",
                "fallback", "end"} : s \in Owning
  BY DEF Owning
<1>i. \A s \in {"new", "lookedUp", "eligible", "ignored", "done", "killed"} :
        s \notin Owning
  BY DEF Owning
<1>1. ASSUME NEW m \in Message, GetChannelByID(m) \/ GetConfig(m)
      PROVE  Untouched
  <2>1. \A n \in Message \ {m} : job'[n] = job[n]
    BY <1>1, <1>t DEF GetChannelByID, GetConfig, Goto
  <2>2. ~Owner(m) /\ ~Owner(m)'
    BY <1>1, <1>t, <1>i DEF GetChannelByID, GetConfig, Goto, At, Owner, Job
  <2>3. Holders' = Holders
    BY <2>1, <2>2 DEF Owner, Holders
  <2> QED
    BY <1>1, <2>3 DEF GetChannelByID, GetConfig, Untouched
<1>2. ASSUME NEW m \in Message, SetIfAbsent(m)
      PROVE  Untouched \/ Taken(m)
  <2>1. \A n \in Message \ {m} : job'[n] = job[n]
    BY <1>2, <1>t DEF SetIfAbsent, Goto
  <2>2. ~Owner(m)
    BY <1>2, <1>i DEF SetIfAbsent, At, Owner
  <2>3. \A n \in Message \ {m} : Owner(n)' = Owner(n)
    BY <2>1 DEF Owner
  <2>4. CASE Author[m] \in dedup
    <3>1. ~Owner(m)' /\ dedup' = dedup
      BY <1>2, <1>i, <1>t, <2>4 DEF SetIfAbsent, Goto, Owner, Job
    <3>2. Holders' = Holders
      BY <2>2, <2>3, <3>1 DEF Holders
    <3> QED
      BY <3>1, <3>2 DEF Untouched
  <2>5. CASE Author[m] \notin dedup
    <3>1. job'[m].at = decideModeration(m) /\ dedup' = dedup \union {Author[m]}
      BY <1>2, <1>t, <2>5 DEF SetIfAbsent, Job
    <3>2. Owner(m)'
      BY <1>o, <3>1 DEF Owner, decideModeration
    <3>3. Holders' = Holders \union {m} /\ m \notin Holders
      BY <2>2, <2>3, <3>2 DEF Holders
    <3> QED
      BY <2>5, <3>1, <3>3 DEF Taken
  <2> QED
    BY <2>4, <2>5
<1>3. ASSUME NEW m \in Message,
             \/ dmUserReturns(m) \/ StopWaiting(m) \/ AddBan(m) \/ DeleteBan(m)
             \/ RecordEvent(m) \/ sendLog(m) \/ UnsetLogChannel(m)
             \/ sendAlertFallback(m)
      PROVE  Untouched
  <2>1. Owner(m) /\ dedup' = dedup
    BY <1>3, <1>o DEF dmUserReturns, StopWaiting, WaitOver, AddBan, DeleteBan,
         RecordEvent, sendLog, UnsetLogChannel, sendAlertFallback, guildState,
         At, Owner
  <2>2. \A n \in Message \ {m} : job'[n] = job[n]
    BY <1>3, <1>t DEF dmUserReturns, StopWaiting, AddBan, DeleteBan, RecordEvent,
         sendLog, UnsetLogChannel, sendAlertFallback, retryTransient, Post,
         Logged, Goto
  <2>3. job'[m].at \in Owning
    BY <1>3, <1>t, <1>o, <2>1 DEF dmUserReturns, StopWaiting, AddBan, DeleteBan,
         RecordEvent, sendLog, UnsetLogChannel, sendAlertFallback,
         retryTransient, Post, Logged, Goto, Resume, Owner, Job
  <2> QED
    BY <1>t, <2>1, <2>2, <2>3, MovesOn DEF Untouched
<1>4. ASSUME NEW m \in Message, Finish(m)
      PROVE  Released(m)
  <2>1. \A n \in Message \ {m} : Owner(n)' = Owner(n)
    BY <1>4, <1>t DEF Finish, Goto, Owner
  <2>2. Owner(m) /\ ~Owner(m)' /\ dedup' = dedup \ {Author[m]}
    BY <1>4, <1>t, <1>o, <1>i DEF Finish, Goto, At, Owner
  <2> QED
    BY <2>1, <2>2 DEF Holders, Released
<1>5. ASSUME NEW u \in User, Expire(u)
      PROVE  Expired(u)
  BY <1>5 DEF Expire, Expired, Holders, Owner
<1>6. ASSUME Exit
      PROVE  Vanished
  <2>1. \A n \in Message : ~Owner(n)'
    BY <1>6, <1>t, <1>i DEF Exit, Owner
  <2> QED
    BY <1>6, <2>1 DEF Exit, Vanished, Holders
<1>7. ASSUME UNCHANGED <<dedup, job>>
      PROVE  Untouched
  BY <1>7 DEF Owner, Holders, Untouched
<1>8. ASSUME NEW s \in Settings, NEW c \in Channel, SaveGuildSetup(s, c)
      PROVE  UNCHANGED <<dedup, job>>
  BY <1>8 DEF SaveGuildSetup
<1>9. ASSUME NEW c \in Channel,
             DiscordDeletes(c) \/ handleContainerDelete(c) \/ UnsetDeleted(c)
      PROVE  UNCHANGED <<dedup, job>>
  BY <1>9 DEF DiscordDeletes, handleContainerDelete, UnsetDeleted
<1>10. ASSUME NEW u \in User, ModeratorUnbans(u)
       PROVE  UNCHANGED <<dedup, job>>
  BY <1>10 DEF ModeratorUnbans
<1>11. ASSUME DeleteGuild \/ Shutdown \/ Restart \/ Idling \/ UNCHANGED vars
       PROVE  UNCHANGED <<dedup, job>>
  BY <1>11 DEF DeleteGuild, Shutdown, Restart, Idling, vars
<1>12. ASSUME NEW m \in Message,
              GetChannelByID(m) \/ dmUserReturns(m) \/ Step(m)
       PROVE  Goal
  BY <1>1, <1>2, <1>3, <1>4, <1>12 DEF Step
<1>13. ASSUME Environment
       PROVE  Goal
  BY <1>5, <1>6, <1>7, <1>8, <1>9, <1>10, <1>11, <1>13 DEF Environment
<1> QED
  BY <1>7, <1>11, <1>12, <1>13 DEF Next

LEMMA LockStep == TypeOK /\ GuardIsLock /\ [Next]_vars => GuardIsLock'
<1> SUFFICES ASSUME TypeOK, GuardIsLock, [Next]_vars PROVE GuardIsLock'
  OBVIOUS
<1>1. \A m \in Message : Owner(m) <=> m \in Holders
  BY DEF Holders
<1>2. \A m \in Message : Owner(m)' <=> m \in Holders'
  BY DEF Holders
<1>3. \/ Untouched
      \/ \E m \in Message : Taken(m) \/ Released(m)
      \/ \E u \in User : Expired(u)
      \/ Vanished
  BY LockMoves
<1>4. CASE Untouched
  BY <1>1, <1>2, <1>4 DEF Untouched, GuardIsLock
<1>5. ASSUME NEW m \in Message, Taken(m)
      PROVE  GuardIsLock'
  BY <1>1, <1>2, <1>5 DEF Taken, GuardIsLock
<1>6. ASSUME NEW m \in Message, Released(m)
      PROVE  GuardIsLock'
  BY <1>1, <1>2, <1>6 DEF Released, GuardIsLock
<1>7. ASSUME NEW u \in User, Expired(u)
      PROVE  GuardIsLock'
  BY <1>7 DEF Expired, GuardIsLock
<1>8. CASE Vanished
  BY <1>1, <1>2, <1>8 DEF Vanished, GuardIsLock
<1> QED
  BY <1>3, <1>4, <1>5, <1>6, <1>7, <1>8

(* While no handler outlives its entry, the dedup cache is a lock per user: *)
(* whatever fails, whoever intervenes, however the process ends.           *)
THEOREM GuardCorrect == Spec => []GuardIsLock
<1>1. Init => GuardIsLock
  <2>1. "new" \notin Owning
    BY DEF Owning
  <2> QED
    BY <2>1 DEF Init, GuardIsLock, Owner
<1> QED
  BY <1>1, TypeCorrect, LockStep, PTL DEF Spec

-----------------------------------------------------------------------------
(* Where there is an entry, there is a handler that will remove it.        *)
EntryIsHeld == \A u \in dedup : \E m \in Holders : Author[m] = u

LEMMA EntryStep == TypeOK /\ EntryIsHeld /\ [Next]_vars => EntryIsHeld'
<1> SUFFICES ASSUME TypeOK, EntryIsHeld, [Next]_vars PROVE EntryIsHeld'
  OBVIOUS
<1> QED
  BY LockMoves DEF EntryIsHeld, Untouched, Taken, Released, Expired, Vanished, Holders

LEMMA HoldersOf ==
  ASSUME NEW u
  PROVE  /\ Lock!Of(u, Holders) = {m \in Holders : Author[m] = u}
         /\ Lock!Of(u, Holders') = {m \in Holders' : Author[m] = u}
BY DEF Lock!Of

(* Each way of treating the guard is a step of the lock. *)
LEMMA LockRefined ==
  ASSUME TypeOK, EntryIsHeld, [Next]_vars
  PROVE  [Lock!Next]_<<Holders, Outlived>>
<1>0. Holders \subseteq Message /\ Author \in [Message -> User]
  BY DEF Holders
<1>1. CASE Untouched
  BY <1>1 DEF Untouched, Outlived
<1>2. ASSUME NEW m \in Message, Taken(m)
      PROVE  Lock!Take(m)
  <2>1. Lock!Of(Author[m], Holders) # {} => Author[m] \in Outlived
    BY <1>0, <1>2, HoldersOf DEF Taken, Outlived
  <2>2. ASSUME NEW u \in User
        PROVE  u \in Outlived' <=> u \in Outlived
    <3>1. CASE u = Author[m]
      BY <1>0, <1>2, <3>1 DEF Taken, Outlived
    <3>2. CASE u # Author[m]
      <4>1. {n \in Holders' : Author[n] = u} = {n \in Holders : Author[n] = u}
        BY <1>2, <3>2 DEF Taken
      <4>2. u \in dedup' <=> u \in dedup
        BY <1>2, <3>2 DEF Taken
      <4> QED
        BY <4>1, <4>2 DEF Outlived
    <3> QED
      BY <3>1, <3>2
  <2>3. Outlived' = Outlived
    BY <2>2 DEF Outlived
  <2> QED
    BY <1>2, <2>1, <2>3 DEF Taken, Lock!Take
<1>3. ASSUME NEW m \in Message, Released(m)
      PROVE  Lock!Release(m)
  <2>1. ASSUME NEW u \in User
        PROVE  u \in Outlived' <=> u \in Outlived /\ Lock!Of(u, Holders') # {}
    <3>1. CASE u = Author[m]
      <4>1. u \notin dedup'
        BY <1>3, <3>1 DEF Released
      <4>2. u \in Outlived' <=> Lock!Of(u, Holders') # {}
        BY <4>1, HoldersOf DEF Outlived
      <4>3. ASSUME NEW n \in Holders', Author[n] = u
            PROVE  u \in Outlived
        <5>1. n \in Holders /\ m \in Holders /\ n # m
          BY <1>3, <4>3 DEF Released
        <5> QED
          BY <3>1, <4>3, <5>1 DEF Outlived
      <4> QED
        BY <4>2, <4>3, HoldersOf
    <3>2. CASE u # Author[m]
      <4>1. {n \in Holders' : Author[n] = u} = {n \in Holders : Author[n] = u}
        BY <1>3, <3>2 DEF Released
      <4>2. u \in dedup' <=> u \in dedup
        BY <1>3, <3>2 DEF Released
      <4> QED
        BY <4>1, <4>2, HoldersOf DEF Outlived
    <3> QED
      BY <3>1, <3>2
  <2>2. Outlived' = {u \in Outlived : Lock!Of(u, Holders') # {}}
    BY <2>1 DEF Outlived
  <2> QED
    BY <1>3, <2>2 DEF Released, Lock!Release
<1>4. ASSUME NEW u \in User, Expired(u)
      PROVE  Lock!Outlive({u})
  <2>1. Lock!Of(u, Holders) # {}
    BY <1>4, HoldersOf DEF Expired, EntryIsHeld
  <2>2. ASSUME NEW v \in User
        PROVE  v \in Outlived' <=> v \in Outlived \/ v = u
    <3>1. CASE v = u
      BY <1>4, <2>1, <3>1, HoldersOf DEF Expired, Outlived
    <3>2. CASE v # u
      BY <1>4, <3>2 DEF Expired, Outlived
    <3> QED
      BY <3>1, <3>2
  <2>3. Outlived' = Outlived \union {u}
    BY <2>2 DEF Outlived
  <2> QED
    BY <1>4, <2>1, <2>3 DEF Expired, Lock!Outlive
<1>5. CASE Vanished
  <2>1. ASSUME NEW u \in User
        PROVE  u \notin Outlived'
    BY <1>5 DEF Vanished, Outlived
  <2>2. Outlived' = {}
    BY <2>1 DEF Outlived
  <2> QED
    BY <1>5, <2>2 DEF Vanished, Lock!Vanish, Lock!Next
<1>6. ASSUME NEW u \in User, Expired(u)
      PROVE  Lock!Next
  <2>1. {u} \in SUBSET User
    OBVIOUS
  <2> QED
    BY <1>4, <1>6, <2>1 DEF Lock!Next
<1> QED
  BY <1>1, <1>2, <1>3, <1>5, <1>6, LockMoves DEF Lock!Next

(* The handlers of both detectors implement the lock with a lifetime, even *)
(* while they outlive their entries.                                       *)
THEOREM LockImplemented == Spec => ImplementsLock
<1>1. Init => EntryIsHeld /\ Lock!Init
  <2>1. "new" \notin Owning
    BY DEF Owning
  <2> QED
    BY <2>1 DEF Init, EntryIsHeld, Holders, Owner, Outlived, Lock!Init
<1> QED
  BY <1>1, TypeCorrect, EntryStep, LockRefined, PTL
     DEF Spec, ImplementsLock, Lock!Spec, Lock!vars

-----------------------------------------------------------------------------
(* What is known of a handler at each stage.  Armed: its snapshot bans and *)
(* its author may be banned.                                               *)
Armed(m) ==
    Author[m] \notin Exempt /\ job[m].cfg # NoConfig /\ job[m].cfg.action # "disabled"

Banning == {"dm", "dmOver", "ban", "unban", "event"}
Posting == {"send", "unset", "fallback"}
Ended == {"end", "done"}

HandlerInv(m) ==
    LET j == job[m]
        reporting == {"banFailed", "unbanFailed", "routine"}
    IN
    /\ j.at \in {"new", "lookedUp", "eligible"} =>
         j.about = "none" /\ ~j.banned /\ ~j.counted /\ bannedBy[Author[m]] # m
    /\ j.at \in Owning \union {"eligible", "done"} => j.cfg # NoConfig
    /\ (j.at \in Banning \/ j.about \in reporting \/ j.counted \/ bannedBy[Author[m]] = m)
         => Armed(m)
    /\ (j.at \in {"unban", "event"} \/ j.about \in {"unbanFailed", "routine"} \/ j.counted)
         => j.banned
    /\ j.at = "fallback" => Alerting(m)
    /\ j.at \in Posting /\ Armed(m) => j.about \in reporting
    /\ j.at \in Ended /\ Armed(m) => j.banned \/ j.alert # "none"
    /\ ( (j.at \in {"event"} \union Ended \/ (j.at \in Posting /\ j.about = "routine"))
         /\ Armed(m) /\ j.cfg.action = "softban" /\ bannedBy[Author[m]] = m )
         => j.alert # "none"

HandlersInv == \A m \in Message : HandlerInv(m)

(* What others do leaves a handler's invariant alone, as long as they do   *)
(* not make the user banned by its message.                                *)
LEMMA OthersKeep ==
  ASSUME NEW n \in Message, HandlerInv(n), job'[n] = job[n],
         bannedBy'[Author[n]] = n => bannedBy[Author[n]] = n
  PROVE  HandlerInv(n)'
BY DEF HandlerInv, Armed, Alerting

(* One handler's step is enough to look at.                                *)
LEMMA OneHandler ==
  ASSUME TypeOK, HandlersInv, NEW m \in Message, HandlerInv(m)',
         \A n \in Message \ {m} : job'[n] = job[n],
         \/ bannedBy' = bannedBy
         \/ bannedBy' = [bannedBy EXCEPT ![Author[m]] = m]
         \/ bannedBy' = [bannedBy EXCEPT ![Author[m]] = Nil]
  PROVE  HandlersInv'
<1>1. ASSUME NEW n \in Message, n # m
      PROVE  HandlerInv(n)'
  <2>1. bannedBy'[Author[n]] = n => bannedBy[Author[n]] = n
    BY <1>1 DEF TypeOK
  <2> QED
    BY <1>1, <2>1, OthersKeep DEF HandlersInv
<1> QED
  BY <1>1 DEF HandlersInv

LEMMA HandlerStep == TypeOK /\ HandlersInv /\ [Next]_vars => HandlersInv'
<1> SUFFICES ASSUME TypeOK, HandlersInv, [Next]_vars PROVE HandlersInv'
  OBVIOUS
<1> USE DEF At
<1>t. job \in [Message -> Job] /\ bannedBy \in [User -> Message \union {Nil}]
  BY DEF TypeOK
<1>h. \A m \in Message : HandlerInv(m) /\ job[m] \in Job
  BY <1>t DEF HandlersInv
<1>1. ASSUME NEW m \in Message, GetChannelByID(m)
      PROVE  HandlersInv'
  <2>1. bannedBy' = bannedBy /\ \A n \in Message \ {m} : job'[n] = job[n]
    BY <1>1, <1>t DEF GetChannelByID, Goto
  <2>2. /\ job'[m].at \in {"lookedUp", "ignored"}
        /\ job'[m].cfg = job[m].cfg /\ job'[m].about = job[m].about
        /\ job'[m].banned = job[m].banned /\ job'[m].counted = job[m].counted
        /\ job'[m].alert = job[m].alert
    BY <1>1, <1>h, <1>t DEF GetChannelByID, Goto, Job
  <2>3. HandlerInv(m)'
    BY <1>1, <1>h, <2>1, <2>2 DEF GetChannelByID, HandlerInv, Armed, Alerting,
       Banning, Posting, Ended, Owning
  <2> QED
    BY <2>1, <2>3, OneHandler
<1>2. ASSUME NEW m \in Message, GetConfig(m)
      PROVE  HandlersInv'
  <2>1. bannedBy' = bannedBy /\ \A n \in Message \ {m} : job'[n] = job[n]
    BY <1>2, <1>t DEF GetConfig, Goto
  <2>2. \/ /\ config # NoConfig
           /\ job'[m].at = "eligible" /\ job'[m].cfg = config
        \/ job'[m].at = "ignored" /\ job'[m].cfg = job[m].cfg
    BY <1>2, <1>h, <1>t DEF GetConfig, Goto, Job
  <2>4. /\ job'[m].about = job[m].about /\ job'[m].banned = job[m].banned
        /\ job'[m].counted = job[m].counted /\ job'[m].alert = job[m].alert
    BY <1>2, <1>h, <1>t DEF GetConfig, Goto, Job
  <2>3. HandlerInv(m)'
    BY <1>2, <1>h, <2>1, <2>2, <2>4 DEF GetConfig, HandlerInv, Armed, Alerting,
       Banning, Posting, Ended, Owning
  <2> QED
    BY <2>1, <2>3, OneHandler
<1>3. ASSUME NEW m \in Message, SetIfAbsent(m)
      PROVE  HandlersInv'
  <2>1. bannedBy' = bannedBy /\ \A n \in Message \ {m} : job'[n] = job[n]
    BY <1>3, <1>t DEF SetIfAbsent, Goto
  <2>2. \/ job'[m].at = "ignored" /\ job'[m].about = job[m].about
        \/ /\ job'[m].at = decideModeration(m)
           /\ job'[m].about = IF decideModeration(m) = "send" THEN "exempt" ELSE "none"
    BY <1>3, <1>h, <1>t DEF SetIfAbsent, Goto, Job
  <2>4. /\ job'[m].cfg = job[m].cfg /\ job'[m].banned = job[m].banned
        /\ job'[m].counted = job[m].counted /\ job'[m].alert = job[m].alert
    BY <1>3, <1>h, <1>t DEF SetIfAbsent, Goto, Job
  <2>3. HandlerInv(m)'
    BY <1>3, <1>h, <2>1, <2>2, <2>4 DEF SetIfAbsent, HandlerInv, Armed, Alerting,
       Banning, Posting, Ended, Owning, decideModeration
  <2> QED
    BY <2>1, <2>3, OneHandler
<1>4. ASSUME NEW m \in Message, dmUserReturns(m) \/ StopWaiting(m)
      PROVE  HandlersInv'
  <2>1. bannedBy' = bannedBy /\ \A n \in Message \ {m} : job'[n] = job[n]
    BY <1>4, <1>t DEF dmUserReturns, StopWaiting, Goto
  <2>2. \E s \in {"dmOver", "ban"} : job'[m] = [job[m] EXCEPT !.at = s]
    BY <1>4, <1>t DEF dmUserReturns, StopWaiting, Goto
  <2>3. HandlerInv(m)'
    BY <1>4, <1>h, <2>1, <2>2 DEF dmUserReturns, StopWaiting, WaitOver, HandlerInv,
       Armed, Alerting, Job, Banning, Posting, Ended, Owning
  <2> QED
    BY <2>1, <2>3, OneHandler
<1>5. ASSUME NEW m \in Message, AddBan(m)
      PROVE  HandlersInv'
  <2>1. /\ \A n \in Message \ {m} : job'[n] = job[n]
        /\ bannedBy' = bannedBy \/ bannedBy' = [bannedBy EXCEPT ![Author[m]] = m]
    BY <1>5, <1>t DEF AddBan, retryTransient, Post
  <2>2. \/ /\ job'[m].at = IF job[m].cfg.action = "softban" THEN "unban" ELSE "event"
           /\ job'[m].about = job[m].about /\ job'[m].banned = TRUE
        \/ /\ job'[m].at = job[m].at /\ job'[m].about = job[m].about
           /\ job'[m].banned = job[m].banned
        \/ /\ job'[m].at = "send" /\ job'[m].about = "banFailed"
           /\ job'[m].banned = job[m].banned
    BY <1>5, <1>h, <1>t DEF AddBan, retryTransient, Post, Job
  <2>4. /\ job'[m].cfg = job[m].cfg /\ job'[m].counted = job[m].counted
        /\ job'[m].alert = job[m].alert
    BY <1>5, <1>h, <1>t DEF AddBan, retryTransient, Post, Job
  <2>3. HandlerInv(m)'
    BY <1>5, <1>h, <2>2, <2>4 DEF AddBan, HandlerInv, Armed, Alerting, Banning, Posting,
       Ended, Owning
  <2> QED
    BY <2>1, <2>3, OneHandler
<1>6. ASSUME NEW m \in Message, DeleteBan(m)
      PROVE  HandlersInv'
  <2>1. /\ \A n \in Message \ {m} : job'[n] = job[n]
        /\ bannedBy' = bannedBy \/ bannedBy' = [bannedBy EXCEPT ![Author[m]] = Nil]
    BY <1>6, <1>t DEF DeleteBan, retryTransient, Post
  <2>2. \/ /\ job'[m].at = "event" /\ job'[m].about = job[m].about
           /\ bannedBy'[Author[m]] = Nil
        \/ job'[m].at = job[m].at /\ job'[m].about = job[m].about
        \/ job'[m].at = "send" /\ job'[m].about = "unbanFailed"
    BY <1>6, <1>h, <1>t DEF DeleteBan, retryTransient, Post, Job
  <2>5. /\ job'[m].cfg = job[m].cfg /\ job'[m].banned = job[m].banned
        /\ job'[m].counted = job[m].counted /\ job'[m].alert = job[m].alert
    BY <1>6, <1>h, <1>t DEF DeleteBan, retryTransient, Post, Job
  <2>3. bannedBy'[Author[m]] = m => bannedBy[Author[m]] = m
    BY <1>t, <2>1
  <2>4. HandlerInv(m)'
    BY <1>6, <1>h, <2>2, <2>3, <2>5 DEF DeleteBan, HandlerInv, Armed, Alerting, Banning, Posting, Ended, Owning
  <2> QED
    BY <2>1, <2>4, OneHandler
<1>7. ASSUME NEW m \in Message, RecordEvent(m)
      PROVE  HandlersInv'
  <2>1. bannedBy' = bannedBy /\ \A n \in Message \ {m} : job'[n] = job[n]
    BY <1>7, <1>t DEF RecordEvent
  <2>2. /\ job'[m].at = "send" /\ job'[m].about = "routine"
        /\ job'[m].cfg = job[m].cfg /\ job'[m].banned = job[m].banned
        /\ job'[m].alert = job[m].alert
    BY <1>7, <1>h, <1>t DEF RecordEvent, Job
  <2>3. HandlerInv(m)'
    BY <1>7, <1>h, <2>1, <2>2 DEF RecordEvent, HandlerInv, Armed, Alerting,
       Banning, Posting, Ended, Owning
  <2> QED
    BY <2>1, <2>3, OneHandler
<1>l. ASSUME NEW m \in Message, NEW ok \in BOOLEAN, Logged(m, ok),
             job[m].at \in {"send", "unset"}, bannedBy' = bannedBy
      PROVE  HandlersInv'
  <2>1. \A n \in Message \ {m} : job'[n] = job[n]
    BY <1>l, <1>t DEF Logged
  <2>2. job'[m] = [job[m] EXCEPT
            !.at = IF Alerting(m) /\ ~ok THEN "fallback" ELSE Resume(m),
            !.alert = IF Alerting(m) /\ ok THEN "posted" ELSE job[m].alert]
    BY <1>l, <1>t DEF Logged
  <2>3. HandlerInv(m)'
    BY <1>l, <1>h, <2>2 DEF HandlerInv, Armed, Alerting, Resume, Job, Banning, Posting,
       Ended, Owning
  <2> QED
    BY <1>l, <2>1, <2>3, OneHandler
<1>8. ASSUME NEW m \in Message, sendLog(m)
      PROVE  HandlersInv'
  <2>1. CASE \E ok \in BOOLEAN : Logged(m, ok)
    BY <1>8, <1>l, <2>1 DEF sendLog
  <2>2. CASE Goto(m, "unset")
    <3>1. bannedBy' = bannedBy /\ \A n \in Message \ {m} : job'[n] = job[n]
      BY <1>8, <1>t, <2>2 DEF sendLog, Goto
    <3>2. job'[m] = [job[m] EXCEPT !.at = "unset"]
      BY <1>t, <2>2 DEF Goto
    <3>3. HandlerInv(m)'
      BY <1>8, <1>h, <3>1, <3>2 DEF sendLog, HandlerInv, Armed, Alerting, Job,
         Banning, Posting, Ended, Owning
    <3> QED
      BY <3>1, <3>3, OneHandler
  <2> QED
    BY <1>8, <2>1, <2>2 DEF sendLog
<1>9. ASSUME NEW m \in Message, UnsetLogChannel(m)
      PROVE  HandlersInv'
  BY <1>9, <1>l DEF UnsetLogChannel
<1>10. ASSUME NEW m \in Message, sendAlertFallback(m)
       PROVE  HandlersInv'
  <2>1. bannedBy' = bannedBy /\ \A n \in Message \ {m} : job'[n] = job[n]
    BY <1>10, <1>t DEF sendAlertFallback
  <2>2. PICK fate \in {"posted", "dropped"} :
          /\ job'[m].at = Resume(m) /\ job'[m].alert = fate
          /\ job'[m].cfg = job[m].cfg /\ job'[m].about = job[m].about
          /\ job'[m].banned = job[m].banned /\ job'[m].counted = job[m].counted
    BY <1>10, <1>h, <1>t DEF sendAlertFallback, Job
  <2>3. HandlerInv(m)'
    BY <1>10, <1>h, <2>1, <2>2 DEF sendAlertFallback, HandlerInv, Armed, Alerting,
       Resume, Banning, Posting, Ended, Owning
  <2> QED
    BY <2>1, <2>3, OneHandler
<1>11. ASSUME NEW m \in Message, Finish(m)
       PROVE  HandlersInv'
  <2>1. bannedBy' = bannedBy /\ \A n \in Message \ {m} : job'[n] = job[n]
    BY <1>11, <1>t DEF Finish, Goto
  <2>2. job'[m] = [job[m] EXCEPT !.at = "done"]
    BY <1>11, <1>t DEF Finish, Goto
  <2>3. HandlerInv(m)'
    BY <1>11, <1>h, <2>1, <2>2 DEF Finish, HandlerInv, Armed, Alerting, Job,
       Banning, Posting, Ended, Owning
  <2> QED
    BY <2>1, <2>3, OneHandler
<1>12. ASSUME NEW u \in User, ModeratorUnbans(u)
       PROVE  HandlersInv'
  <2>1. \A n \in Message : bannedBy'[Author[n]] = n => bannedBy[Author[n]] = n
    BY <1>12, <1>t DEF ModeratorUnbans
  <2> QED
    BY <1>12, <2>1, OthersKeep DEF ModeratorUnbans, HandlersInv
<1>13. CASE Exit
  <2>1. ASSUME NEW m \in Message, job'[m] = [job[m] EXCEPT !.at = "killed"]
        PROVE  HandlerInv(m)'
    <3>1. /\ job'[m].at = "killed" /\ bannedBy' = bannedBy
          /\ job'[m].cfg = job[m].cfg /\ job'[m].about = job[m].about
          /\ job'[m].banned = job[m].banned /\ job'[m].counted = job[m].counted
          /\ job'[m].alert = job[m].alert
      BY <1>13, <1>h, <2>1 DEF Exit, Job
    <3> QED
      BY <1>h, <3>1 DEF HandlerInv, Armed, Alerting, Banning, Posting, Ended, Owning
  <2>2. ASSUME NEW m \in Message, job'[m] = job[m]
        PROVE  HandlerInv(m)'
    BY <1>13, <2>2, OthersKeep DEF Exit, HandlersInv
  <2> QED
    BY <1>13, <2>1, <2>2 DEF Exit, HandlersInv
<1>14. CASE UNCHANGED <<job, bannedBy>>
  BY <1>14, OthersKeep DEF HandlersInv
<1>15. ASSUME NEW s \in Settings, NEW c \in Channel, SaveGuildSetup(s, c)
       PROVE  UNCHANGED <<job, bannedBy>>
  BY <1>15 DEF SaveGuildSetup
<1>16. ASSUME NEW c \in Channel,
              DiscordDeletes(c) \/ handleContainerDelete(c) \/ UnsetDeleted(c)
       PROVE  UNCHANGED <<job, bannedBy>>
  BY <1>16 DEF DiscordDeletes, handleContainerDelete, UnsetDeleted
<1>17. ASSUME NEW u \in User, Expire(u)
       PROVE  UNCHANGED <<job, bannedBy>>
  BY <1>17 DEF Expire
<1>18. ASSUME DeleteGuild \/ Shutdown \/ Restart \/ Idling \/ UNCHANGED vars
       PROVE  UNCHANGED <<job, bannedBy>>
  BY <1>18 DEF DeleteGuild, Shutdown, Restart, Idling, vars
<1> QED
  BY <1>1, <1>2, <1>3, <1>4, <1>5, <1>6, <1>7, <1>8, <1>9, <1>10, <1>11, <1>12,
     <1>13, <1>14, <1>15, <1>16, <1>17, <1>18 DEF Next, Step, Environment

LEMMA HandlersCorrect == Spec => []HandlersInv
<1>1. Init => HandlersInv
  BY DEF Init, HandlersInv, HandlerInv, Armed, Alerting, Banning, Posting, Ended, Owning
<1> QED
  BY <1>1, TypeCorrect, HandlerStep, PTL DEF Spec

(* No failure, retry, lost answer or shutdown makes a finished moderation   *)
(* pass over a user it could not ban or a softban it could not complete.   *)
THEOREM ReportCorrect == Spec => []TroubleIsReported
<1>1. HandlersInv => TroubleIsReported
  <2> SUFFICES ASSUME HandlersInv, NEW m \in Message, job[m].at = "done",
                      job[m].cfg.action # "disabled", Author[m] \notin Exempt
               PROVE  /\ job[m].banned \/ job[m].alert # "none"
                      /\ job[m].cfg.action = "softban" /\ bannedBy[Author[m]] = m
                            => job[m].alert # "none"
    BY DEF TroubleIsReported
  <2>1. HandlerInv(m)
    BY DEF HandlersInv
  <2>2. Armed(m)
    BY <2>1 DEF HandlerInv, Armed
  <2> QED
    BY <2>1, <2>2 DEF HandlerInv, Ended
<1> QED
  BY <1>1, HandlersCorrect, PTL

(* Bans and counted events go back to a message of a user who may be       *)
(* banned, handled under a configuration that bans.                        *)
THEOREM EarnedCorrect == Spec => []BansAreEarned
<1>1. HandlersInv => BansAreEarned
  <2> SUFFICES ASSUME HandlersInv, NEW m \in Message,
                      bannedBy[Author[m]] = m \/ job[m].counted
               PROVE  Armed(m) /\ (job[m].counted => job[m].banned)
    BY DEF BansAreEarned, Armed
  <2>1. HandlerInv(m)
    BY DEF HandlersInv
  <2> QED
    BY <2>1 DEF HandlerInv
<1> QED
  BY <1>1, HandlersCorrect, PTL

-----------------------------------------------------------------------------
(* How many steps a handler has ahead of it at most.  An alert about a     *)
(* softban whose unban failed comes before the event, any other message    *)
(* after it; a call under way has its remaining attempts.                  *)
Ahead(j) ==
    LET first == IF j.about = "unbanFailed" THEN 4 ELSE 0
    IN  CASE j.at = "new"      -> 2 * Attempts + 13
          [] j.at = "lookedUp" -> 2 * Attempts + 12
          [] j.at = "eligible" -> 2 * Attempts + 11
          [] j.at = "dm"       -> 2 * Attempts + 10
          [] j.at = "dmOver"   -> 2 * Attempts + 9
          [] j.at = "ban"      -> Attempts + 8 + (Attempts - j.tries)
          [] j.at = "unban"    -> 8 + (Attempts - j.tries)
          [] j.at = "event"    -> 5
          [] j.at = "send"     -> 4 + first
          [] j.at = "unset"    -> 3 + first
          [] j.at = "fallback" -> 2 + first
          [] j.at = "end"      -> 1
          [] OTHER             -> 0

LEMMA AheadIs ==
  ASSUME NEW j \in Job
  PROVE  /\ j.at = "new" => Ahead(j) = 2 * Attempts + 13
         /\ j.at = "lookedUp" => Ahead(j) = 2 * Attempts + 12
         /\ j.at = "eligible" => Ahead(j) = 2 * Attempts + 11
         /\ j.at = "dm" => Ahead(j) = 2 * Attempts + 10
         /\ j.at = "dmOver" => Ahead(j) = 2 * Attempts + 9
         /\ j.at = "ban" => Ahead(j) = 2 * Attempts + 8 - j.tries
         /\ j.at = "unban" => Ahead(j) = Attempts + 8 - j.tries
         /\ j.at = "event" => Ahead(j) = 5
         /\ j.at = "send" => Ahead(j) = IF j.about = "unbanFailed" THEN 8 ELSE 4
         /\ j.at = "unset" => Ahead(j) = IF j.about = "unbanFailed" THEN 7 ELSE 3
         /\ j.at = "fallback" => Ahead(j) = IF j.about = "unbanFailed" THEN 6 ELSE 2
         /\ j.at = "end" => Ahead(j) = 1
         /\ j.at \in {"ignored", "done", "killed"} => Ahead(j) = 0
         /\ j.tries \in 0 .. Attempts - 1
         /\ Ahead(j) \in 0 .. 2 * Attempts + 13
<1>1. j.tries \in 0 .. Attempts - 1 /\ j.at \in Stage
  BY DEF Job, Tries
<1> QED
  BY <1>1 DEF Ahead, Stage, Owning

(* retryTransient either tries again, which it does less often than there  *)
(* are attempts, or gives up.                                              *)
LEMMA RetryNearer ==
  ASSUME job \in [Message -> Job], job' \in [Message -> Job],
         NEW m \in Message, NEW topic \in {"banFailed", "unbanFailed"},
         \/ job[m].at = "ban" /\ topic = "banFailed"
         \/ job[m].at = "unban" /\ topic = "unbanFailed",
         retryTransient(m, topic) \/ Post(m, topic)
  PROVE  Ahead(job'[m]) < Ahead(job[m])
<1>1. job[m] \in Job /\ job'[m] \in Job
  OBVIOUS
<1>2. \/ job'[m].at = job[m].at /\ job'[m].tries = job[m].tries + 1
      \/ job'[m].at = "send" /\ job'[m].about = topic
  BY <1>1 DEF retryTransient, Post, Job
<1> QED
  BY <1>1, <1>2, AheadIs

(* What a handler does brings it nearer its end. *)
LEMMA HandlerNearer ==
  ASSUME job \in [Message -> Job], job' \in [Message -> Job], NEW m \in Message,
         GetChannelByID(m) \/ dmUserReturns(m) \/ Step(m)
  PROVE  Ahead(job'[m]) < Ahead(job[m])
<1>1. job[m] \in Job /\ job'[m] \in Job
  OBVIOUS
<1> USE <1>1 DEF At, Goto
<1>2. CASE GetChannelByID(m)
  <2>1. job[m].at = "new" /\ job'[m].at \in {"lookedUp", "ignored"}
    BY <1>2 DEF GetChannelByID, Job
  <2> QED
    BY <2>1, AheadIs
<1>3. CASE GetConfig(m)
  <2>1. job[m].at = "lookedUp" /\ job'[m].at \in {"eligible", "ignored"}
    BY <1>3 DEF GetConfig, Job
  <2> QED
    BY <2>1, AheadIs
<1>4. CASE SetIfAbsent(m)
  <2>1. /\ job[m].at = "eligible"
        /\ \/ job'[m].at \in {"ignored", "dm", "end"}
           \/ job'[m].at = "send" /\ job'[m].about = "exempt"
    BY <1>4 DEF SetIfAbsent, decideModeration, Job
  <2> QED
    BY <2>1, AheadIs
<1>5. CASE dmUserReturns(m)
  <2>1. job[m].at = "dm" /\ job'[m].at = "dmOver"
    BY <1>5 DEF dmUserReturns, Job
  <2> QED
    BY <2>1, AheadIs
<1>6. CASE StopWaiting(m)
  <2>1. job[m].at \in {"dm", "dmOver"} /\ job'[m].at = "ban"
    BY <1>6 DEF StopWaiting, WaitOver, Job
  <2> QED
    BY <2>1, AheadIs
<1>7. CASE AddBan(m)
  <2>1. CASE retryTransient(m, "banFailed") \/ Post(m, "banFailed")
    BY <1>7, <2>1, RetryNearer DEF AddBan
  <2>2. CASE /\ job'[m].at = IF job[m].cfg.action = "softban" THEN "unban" ELSE "event"
             /\ job'[m].tries = 0
    <3>1. job[m].at = "ban"
      BY <1>7 DEF AddBan
    <3> QED
      BY <2>2, <3>1, AheadIs
  <2> QED
    BY <1>7, <2>1, <2>2 DEF AddBan, Job
<1>8. CASE DeleteBan(m)
  <2>1. CASE retryTransient(m, "unbanFailed") \/ Post(m, "unbanFailed")
    BY <1>8, <2>1, RetryNearer DEF DeleteBan
  <2>2. CASE job'[m].at = "event"
    <3>1. job[m].at = "unban"
      BY <1>8 DEF DeleteBan
    <3> QED
      BY <2>2, <3>1, AheadIs
  <2> QED
    BY <1>8, <2>1, <2>2 DEF DeleteBan, Job
<1>9. CASE RecordEvent(m)
  <2>1. job[m].at = "event" /\ job'[m].at = "send" /\ job'[m].about = "routine"
    BY <1>9 DEF RecordEvent, Job
  <2> QED
    BY <2>1, AheadIs
<1>l. ASSUME NEW ok \in BOOLEAN, Logged(m, ok), job[m].at \in {"send", "unset"}
      PROVE  Ahead(job'[m]) < Ahead(job[m])
  <2>1. /\ job'[m].about = job[m].about
        /\ \/ job'[m].at = "fallback"
           \/ job'[m].at = "event" /\ job[m].about = "unbanFailed"
           \/ job'[m].at = "end"
    BY <1>l DEF Logged, Resume, Job
  <2> QED
    BY <1>l, <2>1, AheadIs
<1>10. CASE sendLog(m)
  <2>1. CASE Goto(m, "unset")
    <3>1. job[m].at = "send" /\ job'[m].at = "unset" /\ job'[m].about = job[m].about
      BY <1>10, <2>1 DEF sendLog, Job
    <3> QED
      BY <3>1, AheadIs
  <2> QED
    BY <1>10, <1>l, <2>1 DEF sendLog
<1>11. CASE UnsetLogChannel(m)
  BY <1>11, <1>l DEF UnsetLogChannel
<1>12. CASE sendAlertFallback(m)
  <2>1. /\ job[m].at = "fallback"
        /\ \/ job'[m].at = "event" /\ job[m].about = "unbanFailed"
           \/ job'[m].at = "end"
    BY <1>12 DEF sendAlertFallback, Resume, Job
  <2> QED
    BY <2>1, AheadIs
<1>13. CASE Finish(m)
  <2>1. job[m].at = "end" /\ job'[m].at = "done"
    BY <1>13 DEF Finish, Job
  <2> QED
    BY <2>1, AheadIs
<1> QED
  BY <1>2, <1>3, <1>4, <1>5, <1>6, <1>7, <1>8, <1>9, <1>10, <1>11, <1>12, <1>13 DEF Step

(* And nothing that others do, people, Discord and the process included,   *)
(* sets it back: Exit ends it.                                             *)
LEMMA OthersSetNobodyBack ==
  ASSUME TypeOK, TypeOK', [Next]_vars, NEW n \in Message
  PROVE  job'[n] = job[n] \/ Ahead(job'[n]) < Ahead(job[n])
<1>t. job \in [Message -> Job] /\ job' \in [Message -> Job]
  BY DEF TypeOK
<1>1. ASSUME NEW m \in Message, GetChannelByID(m) \/ dmUserReturns(m) \/ Step(m)
      PROVE  job'[n] = job[n] \/ Ahead(job'[n]) < Ahead(job[n])
  <2>1. n # m => job'[n] = job[n]
    BY <1>1, <1>t DEF GetChannelByID, dmUserReturns, Step, GetConfig, SetIfAbsent,
       StopWaiting, AddBan, DeleteBan, RecordEvent, sendLog, UnsetLogChannel,
       sendAlertFallback, Finish, retryTransient, Post, Logged, Goto
  <2> QED
    BY <1>1, <1>t, <2>1, HandlerNearer
<1>2. CASE Exit
  <2>1. CASE job[n].at \in Owning \union {"lookedUp", "eligible"}
    <3>1. job'[n].at = "killed" /\ job[n] \in Job /\ job'[n] \in Job
      BY <1>2, <1>t, <2>1 DEF Exit, Job
    <3>2. Ahead(job'[n]) = 0
      BY <3>1, AheadIs
    <3>3. Ahead(job[n]) > 0
      BY <2>1, <3>1, AheadIs DEF Owning
    <3> QED
      BY <3>2, <3>3
  <2> QED
    BY <1>2, <2>1 DEF Exit
<1>3. CASE Environment /\ ~Exit
  BY <1>3 DEF Environment, SaveGuildSetup, DeleteGuild, DiscordDeletes,
     handleContainerDelete, UnsetDeleted, Expire, ModeratorUnbans, Shutdown, Restart
<1>4. CASE Idling \/ UNCHANGED vars
  BY <1>4 DEF Idling, vars
<1> QED
  BY <1>1, <1>2, <1>3, <1>4 DEF Next

(* A handler takes at most 2 * Attempts + 13 steps from the gateway event  *)
(* to its end, whatever fails, is lost or changes meanwhile: every step of *)
(* its own is one of them, and nobody's step adds to what is ahead.        *)
StepsRunOut ==
    [][\A m \in Message :
        /\ GetChannelByID(m) \/ dmUserReturns(m) \/ Step(m) => Ahead(job'[m]) < Ahead(job[m])
        /\ job'[m] # job[m] => Ahead(job'[m]) < Ahead(job[m])]_vars

(* No call is retried for ever and no handler comes back to where it was.  *)
(* For EveryModerationEnds there remains that an unfinished handler can    *)
(* take a step, and does.                                                  *)
THEOREM HandlersRunOut == Spec => StepsRunOut /\ [](\A m \in Message : Ahead(job[m]) \in 0 .. 2 * Attempts + 13)
<1>1. TypeOK => \A m \in Message : Ahead(job[m]) \in 0 .. 2 * Attempts + 13
  BY AheadIs DEF TypeOK
<1>2. TypeOK /\ TypeOK' /\ [Next]_vars =>
        \A m \in Message :
          /\ GetChannelByID(m) \/ dmUserReturns(m) \/ Step(m) => Ahead(job'[m]) < Ahead(job[m])
          /\ job'[m] # job[m] => Ahead(job'[m]) < Ahead(job[m])
  BY HandlerNearer, OthersSetNobodyBack DEF TypeOK
<1> QED
  BY <1>1, <1>2, TypeCorrect, PTL DEF Spec, StepsRunOut
=============================================================================
