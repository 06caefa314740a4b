----------------------------- MODULE Moderation -----------------------------
(***************************************************************************)
(* internal/bot: what happens to one guild's trigger messages, from the    *)
(* gateway event to the ban, the event record and the log message.         *)
(*                                                                         *)
(* Events are dispatched asynchronously (WithAsyncEventsEnabled), so every *)
(* message has a goroutine of its own: job[m].  A step of it is one access *)
(* to state that others share: the store, the dedup cache, Discord.  Store *)
(* models the tables and their mirror; here the guild's configuration and  *)
(* its honeypot channel are two variables.  SpamDetector decides which     *)
(* messages cross the spam threshold; here that is the set Crossing.  The  *)
(* refresh of the warning message that ends a moderation is not here.      *)
(***************************************************************************)
EXTENDS Integers, FiniteSets

CONSTANTS
    Message, User, Channel,
    Author, Place,      \* who wrote each message, and in which channel
    Crossing,           \* messages with the sighting that reaches the spam threshold
    Exempt,             \* the owner and the administrators
    Settings,           \* the configurations administrators choose from
    NoConfig, Nil,
    Attempts,           \* banRetryAttempts, 3 in the code
    Fault,              \* how Discord's REST API may fail
    Overrun,            \* whether a handler may outlive its 30 s dedup entry
    MaxChanges          \* bound on what others do meanwhile: the environment's actions

Action == {"softban", "ban", "disabled"}
Setting == [action : Action, log : Channel \union {Nil}, spam : BOOLEAN]

ASSUME ModerationAssumption ==
    /\ Author \in [Message -> User]
    /\ Place \in [Message -> Channel]
    /\ Crossing \subseteq Message
    /\ Exempt \subseteq User
    /\ Settings \subseteq Setting
    /\ NoConfig \notin Setting
    /\ Nil \notin Channel \union Message
    /\ Attempts \in Nat \ {0}
    /\ Fault \subseteq {"transient", "lost", "permanent"}
    /\ Overrun \in BOOLEAN
    /\ MaxChanges \in Nat

VARIABLES
    config,     \* the guild's honeypot_config row
    honeypot,   \* its row of honeypot_channels, or Nil
    changes,    \* how many of the environment's actions have happened
    removal,    \* per channel: how far Discord and the bot are in deleting it
    dedup,      \* users with a live entry in Bot.dedup
    bannedBy,   \* per user: the message whose AddBan last took effect, or Nil
    job,        \* per message: its handler goroutine
    phase       \* the process: "up", "stopping" (Bot.ctx cancelled), "down"

vars == <<config, honeypot, changes, removal, dedup, bannedBy, job, phase>>
guildState == <<config, honeypot, changes, removal>>

(* stages while the handler owns the dedup entry, and the others *)
Owning == {"dm", "dmOver", "ban", "unban", "event", "send", "unset", "fallback", "end"}
Stage == Owning \union {"new", "lookedUp", "eligible", "ignored", "done", "killed"}

triggerKind == {"honeypot", "spam"}
Topic == {"none", "exempt", "banFailed", "unbanFailed", "routine"}
Fate == {"none", "posted", "dropped"}
MaybeChannel == Channel \union {Nil}
Tries == 0 .. Attempts - 1      \* failed attempts of the call under way
Snapshot == Setting \union {NoConfig}

Job == [at : Stage,
        kind : triggerKind,
        cfg : Snapshot,             \* the configuration it works with
        alertChannel : MaybeChannel,
        tries : Tries,
        about : Topic,              \* what its last message was for
        banned : BOOLEAN,           \* AddBan returned without error
        counted : BOOLEAN,          \* RecordEvent inserted the event
        alert : Fate]               \* what became of its last alert

TypeOK ==
    /\ config \in Snapshot
    /\ honeypot \in MaybeChannel
    /\ changes \in 0 .. MaxChanges
    /\ removal \in [Channel -> {"exists", "deleted", "unsetting", "handled"}]
    /\ dedup \subseteq User
    /\ bannedBy \in [User -> Message \union {Nil}]
    /\ job \in [Message -> Job]
    /\ phase \in {"up", "stopping", "down"}

Init ==
    /\ config \in Settings
    /\ honeypot \in Channel
    /\ changes = 0
    /\ removal = [c \in Channel |-> "exists"]
    /\ dedup = {}
    /\ bannedBy = [u \in User |-> Nil]
    /\ job = [m \in Message |->
                [at |-> "new", kind |-> "honeypot", cfg |-> NoConfig,
                 alertChannel |-> Nil, tries |-> 0, about |-> "none",
                 banned |-> FALSE, counted |-> FALSE, alert |-> "none"]]
    /\ phase = "up"

-----------------------------------------------------------------------------
At(m, stage) == job[m].at = stage /\ phase # "down"
Goto(m, stage) == job' = [job EXCEPT ![m].at = stage]

(* A call made with Bot.ctx reaches Discord or the database while it lives. *)
Reachable == phase = "up"

(* Errors the retry loop takes for transient: a 5xx, the network, and also *)
(* the cancelled context.  "lost": the call took effect, its answer did not *)
(* arrive.                                                                  *)
TransientError == ~Reachable \/ "transient" \in Fault
LostAnswer == Reachable /\ "lost" \in Fault
PermanentError == Reachable /\ "permanent" \in Fault

(* onMessageCreate up to the channel lookup, which the mirror serves. *)
GetChannelByID(m) ==
    /\ At(m, "new")
    /\ \/ honeypot = Place[m]
          /\ job' = [job EXCEPT ![m].at = "lookedUp", ![m].kind = "honeypot"]
       \/ honeypot # Place[m] /\ m \in Crossing
          /\ job' = [job EXCEPT ![m].at = "lookedUp", ![m].kind = "spam"]
       \/ honeypot # Place[m] /\ m \notin Crossing /\ Goto(m, "ignored")
    /\ UNCHANGED <<guildState, dedup, bannedBy, phase>>

spamEligible(s) == s # NoConfig /\ s.spam /\ s.action # "disabled"

GetConfig(m) ==
    LET usable == config # NoConfig /\ (job[m].kind = "spam" => spamEligible(config))
    IN  /\ At(m, "lookedUp")
        /\ \/ Reachable /\ usable
              /\ job' = [job EXCEPT ![m].at = "eligible", ![m].cfg = config]
           \/ ~(Reachable /\ usable) /\ Goto(m, "ignored")
        /\ UNCHANGED <<guildState, dedup, bannedBy, phase>>

(* mutant: nobody is exempt *)
moderateAnybody(m) == IF job[m].cfg.action = "disabled" THEN "end" ELSE "dm"

(* What moderate begins with: exempt spammers are passed over silently,    *)
(* exempt posters in an armed honeypot get a log message.                  *)
decideModeration(m) ==
    IF job[m].cfg.action = "disabled" THEN "end"
    ELSE IF Author[m] \notin Exempt THEN "dm"
    ELSE IF job[m].kind = "spam" THEN "end" ELSE "send"

alertChannelOf(m) ==
    IF job[m].kind = "spam" /\ honeypot # Nil THEN honeypot ELSE Place[m]

SetIfAbsent(m) ==
    /\ At(m, "eligible")
    /\ \/ Author[m] \in dedup /\ Goto(m, "ignored") /\ UNCHANGED dedup
       \/ /\ Author[m] \notin dedup
          /\ dedup' = dedup \union {Author[m]}
          /\ job' = [job EXCEPT
                ![m].at = decideModeration(m),
                ![m].alertChannel = alertChannelOf(m),
                ![m].about = IF decideModeration(m) = "send" THEN "exempt" ELSE "none"]
    /\ UNCHANGED <<guildState, bannedBy, phase>>

-----------------------------------------------------------------------------
(* The DM runs in a goroutine that may hang; the timer ends the wait.      *)
dmUserReturns(m) ==
    /\ At(m, "dm")
    /\ Goto(m, "dmOver")
    /\ UNCHANGED <<guildState, dedup, bannedBy, phase>>

(* mutant: no timer beside the channel *)
WaitForDM(m) == At(m, "dmOver")

WaitOver(m) == At(m, "dmOver") \/ At(m, "dm")

StopWaiting(m) ==
    /\ WaitOver(m)
    /\ Goto(m, "ban")
    /\ UNCHANGED <<guildState, dedup, bannedBy, phase>>

Post(m, topic) ==
    job' = [job EXCEPT ![m].at = "send", ![m].about = topic, ![m].tries = 0]

(* mutant: one attempt too many *)
retryOnceMore(m, topic) ==
    \/ job[m].tries < Attempts /\ job' = [job EXCEPT ![m].tries = @ + 1]
    \/ job[m].tries >= Attempts /\ Post(m, topic)

(* retryTransient after a transient error: again, or give up with it. *)
retryTransient(m, topic) ==
    \/ job[m].tries + 1 < Attempts /\ job' = [job EXCEPT ![m].tries = @ + 1]
    \/ job[m].tries + 1 >= Attempts /\ Post(m, topic)

AddBan(m) ==
    /\ At(m, "ban")
    /\ \/ /\ Reachable
          /\ bannedBy' = [bannedBy EXCEPT ![Author[m]] = m]
          /\ job' = [job EXCEPT
                ![m].at = IF job[m].cfg.action = "softban" THEN "unban" ELSE "event",
                ![m].tries = 0, ![m].banned = TRUE]
       \/ TransientError /\ retryTransient(m, "banFailed") /\ UNCHANGED bannedBy
       \/ /\ LostAnswer
          /\ bannedBy' = [bannedBy EXCEPT ![Author[m]] = m]
          /\ retryTransient(m, "banFailed")
       \/ PermanentError /\ Post(m, "banFailed") /\ UNCHANGED bannedBy
    /\ UNCHANGED <<guildState, dedup, phase>>

(* DeleteBan of a user who is not banned fails with UnknownBan: "someone   *)
(* beat us to it - fine".                                                  *)
DeleteBan(m) ==
    /\ At(m, "unban")
    /\ \/ /\ Reachable
          /\ bannedBy' = [bannedBy EXCEPT ![Author[m]] = Nil]
          /\ job' = [job EXCEPT ![m].at = "event", ![m].tries = 0]
       \/ TransientError /\ retryTransient(m, "unbanFailed") /\ UNCHANGED bannedBy
       \/ /\ LostAnswer
          /\ bannedBy' = [bannedBy EXCEPT ![Author[m]] = Nil]
          /\ retryTransient(m, "unbanFailed")
       \/ PermanentError /\ Post(m, "unbanFailed") /\ UNCHANGED bannedBy
    /\ UNCHANGED <<guildState, dedup, phase>>

(* The row references the configuration and, for a honeypot trigger, the   *)
(* channel it was posted in; a failed insert is only logged.               *)
RecordEvent(m) ==
    /\ At(m, "event")
    /\ job' = [job EXCEPT
          ![m].at = "send", ![m].about = "routine",
          ![m].counted = /\ Reachable /\ config # NoConfig
                         /\ job[m].kind = "honeypot" => honeypot = Place[m]]
    /\ UNCHANGED <<guildState, dedup, bannedBy, phase>>

-----------------------------------------------------------------------------
Alerting(m) == job[m].about \in {"banFailed", "unbanFailed"}
Resume(m) == IF job[m].about = "unbanFailed" THEN "event" ELSE "end"

(* mutant: an alert is sent like a routine log, without a fallback *)
LoggedOnly(m, ok) ==
    job' = [job EXCEPT ![m].at = Resume(m),
                       ![m].alert = IF Alerting(m) /\ ok THEN "posted" ELSE @]

(* sendLog has returned; sendAlert falls back to the alert channel. *)
Logged(m, ok) ==
    job' = [job EXCEPT
        ![m].at = IF Alerting(m) /\ ~ok THEN "fallback" ELSE Resume(m),
        ![m].alert = IF Alerting(m) /\ ok THEN "posted" ELSE @]

sendLog(m) ==
    LET log == job[m].cfg.log IN
    /\ At(m, "send")
    /\ \/ log = Nil /\ Logged(m, FALSE)
       \/ log # Nil /\ Reachable /\ removal[log] = "exists" /\ Logged(m, TRUE)
       \/ log # Nil /\ TransientError /\ Logged(m, FALSE)
       \/ log # Nil /\ LostAnswer /\ Logged(m, FALSE)
       \/ /\ log # Nil /\ Reachable         \* isPermanentChannelError
          /\ removal[log] # "exists" \/ PermanentError
          /\ Goto(m, "unset")
    /\ UNCHANGED <<guildState, dedup, bannedBy, phase>>

UnsetLog ==
    config' = IF Reachable /\ config # NoConfig THEN [config EXCEPT !.log = Nil]
              ELSE config

UnsetLogChannel(m) ==
    /\ At(m, "unset")
    /\ UnsetLog
    /\ Logged(m, FALSE)
    /\ UNCHANGED <<honeypot, changes, removal, dedup, bannedBy, phase>>

sendAlertFallback(m) ==
    /\ At(m, "fallback")
    /\ \E fate \in {"posted", "dropped"} :
        /\ fate = "posted" => Reachable /\ removal[job[m].alertChannel] = "exists"
        /\ fate = "dropped" => \/ ~Reachable \/ Fault # {}
                               \/ removal[job[m].alertChannel] # "exists"
        /\ job' = [job EXCEPT ![m].at = Resume(m), ![m].alert = fate]
    /\ UNCHANGED <<guildState, dedup, bannedBy, phase>>

(* mutant: a return before the Delete is deferred *)
FinishHolding(m) ==
    /\ At(m, "end")
    /\ Goto(m, "done")
    /\ UNCHANGED <<guildState, dedup, bannedBy, phase>>

(* The handler returns, and with it the deferred Delete of the guard. *)
Finish(m) ==
    /\ At(m, "end")
    /\ dedup' = dedup \ {Author[m]}
    /\ Goto(m, "done")
    /\ UNCHANGED <<guildState, bannedBy, phase>>

-----------------------------------------------------------------------------
(* Thirty seconds have passed since the entry was made: Discord's calls    *)
(* have no deadline of their own, so the handler may still be running.     *)
Expire(u) ==
    /\ Overrun
    /\ u \in dedup
    /\ dedup' = dedup \ {u}
    /\ UNCHANGED <<guildState, bannedBy, job, phase>>

Intervene == changes < MaxChanges /\ changes' = changes + 1

(* SaveGuildSetup by /honeypot or after a join, DeleteGuild on leave. *)
SaveGuildSetup(s, c) ==
    /\ Intervene
    /\ Reachable
    /\ removal[c] = "exists" /\ (s.log # Nil => removal[s.log] = "exists")
    /\ config' = s
    /\ honeypot' = c
    /\ UNCHANGED <<removal, dedup, bannedBy, job, phase>>

DeleteGuild ==
    /\ Intervene
    /\ Reachable
    /\ config' = NoConfig
    /\ honeypot' = Nil
    /\ UNCHANGED <<removal, dedup, bannedBy, job, phase>>

(* A deletion the bot is not there to see is never handled. *)
DiscordDeletes(c) ==
    /\ Intervene
    /\ removal[c] = "exists"
    /\ removal' = [removal EXCEPT ![c] = IF phase = "down" THEN "handled" ELSE "deleted"]
    /\ UNCHANGED <<config, honeypot, dedup, bannedBy, job, phase>>

(* handleContainerDelete: the lookups in one step, UnsetLogChannel later. *)
handleContainerDelete(c) ==
    /\ phase # "down"
    /\ removal[c] = "deleted"
    /\ honeypot' = IF Reachable /\ honeypot = c THEN Nil ELSE honeypot
    /\ removal' = [removal EXCEPT ![c] =
          IF /\ Reachable /\ honeypot # c /\ config # NoConfig
             /\ config.log = c THEN "unsetting" ELSE "handled"]
    /\ UNCHANGED <<config, changes, dedup, bannedBy, job, phase>>

UnsetDeleted(c) ==
    /\ phase # "down"
    /\ removal[c] = "unsetting"
    /\ UnsetLog
    /\ removal' = [removal EXCEPT ![c] = "handled"]
    /\ UNCHANGED <<honeypot, changes, dedup, bannedBy, job, phase>>

(* A moderator lifts the ban, with the Unban button or by hand. *)
ModeratorUnbans(u) ==
    /\ Intervene
    /\ bannedBy[u] # Nil
    /\ bannedBy' = [bannedBy EXCEPT ![u] = Nil]
    /\ UNCHANGED <<config, honeypot, removal, dedup, job, phase>>

(* SIGTERM: Bot.Close cancels Bot.ctx and waits for nobody; then, or after *)
(* a crash, the handlers are gone and the caches with them.                *)
Shutdown ==
    /\ Intervene
    /\ phase = "up"
    /\ phase' = "stopping"
    /\ UNCHANGED <<config, honeypot, removal, dedup, bannedBy, job>>

Exit ==
    /\ \/ phase = "stopping" /\ UNCHANGED changes
       \/ phase = "up" /\ Intervene
    /\ phase' = "down"
    /\ dedup' = {}
    /\ job' = [m \in Message |->
          IF job[m].at \in Owning \union {"lookedUp", "eligible"}
          THEN [job[m] EXCEPT !.at = "killed"] ELSE job[m]]
    /\ removal' = [c \in Channel |->
          IF removal[c] \in {"deleted", "unsetting"} THEN "handled" ELSE removal[c]]
    /\ UNCHANGED <<config, honeypot, bannedBy>>

Restart ==
    /\ phase = "down"
    /\ phase' = "up"
    /\ UNCHANGED <<guildState, dedup, bannedBy, job>>

(* The steps of a handler that has begun, all of which are up to the bot. *)
Step(m) ==
    \/ GetConfig(m) \/ SetIfAbsent(m)
    \/ StopWaiting(m) \/ AddBan(m) \/ DeleteBan(m) \/ RecordEvent(m)
    \/ sendLog(m) \/ UnsetLogChannel(m) \/ sendAlertFallback(m)
    \/ Finish(m)

Environment ==
    \/ \E s \in Settings, c \in Channel : SaveGuildSetup(s, c)
    \/ DeleteGuild
    \/ \E c \in Channel :
        DiscordDeletes(c) \/ handleContainerDelete(c) \/ UnsetDeleted(c)
    \/ \E u \in User : Expire(u) \/ ModeratorUnbans(u)
    \/ Shutdown \/ Exit \/ Restart

(* Nothing is left to do: every message there is has been dealt with. *)
Idling ==
    /\ \A m \in Message : job[m].at \in {"ignored", "done", "killed"}
    /\ UNCHANGED vars

Next ==
    \/ \E m \in Message : GetChannelByID(m) \/ dmUserReturns(m) \/ Step(m)
    \/ Environment
    \/ Idling

Spec == Init /\ [][Next]_vars

(* Goroutines that can run do run.  Messages need not arrive, DMs need not *)
(* return and nothing outside the bot has to happen.                       *)
FairSpec == Spec /\ \A m \in Message : WF_vars(Step(m))

-----------------------------------------------------------------------------
Owner(m) == job[m].at \in Owning
Settled(m) == job[m].at \in {"done", "killed"}

(* The dedup entry is a per-user lock as long as no handler outlives it:   *)
(* two messages of a user are never moderated at once, whichever detector  *)
(* picked them up, and no early return, failure path, shutdown or restart  *)
(* leaves the entry behind or takes it from the handler that owns it.      *)
GuardIsLock ==
    ~Overrun =>
        /\ dedup = {Author[m] : m \in {n \in Message : Owner(n)}}
        /\ \A m, n \in Message :
            Owner(m) /\ Owner(n) /\ Author[m] = Author[n] => m = n

(* The handlers that moderate take and release their author's guard as     *)
(* ModerationLock says, whatever expires and ends under them: who holds it *)
(* is who moderates, and a user with several holders, or with a holder and *)
(* no entry, is one whose handler has outlived it.                         *)
Holders == {m \in Message : Owner(m)}

Outlived ==
    {u \in User :
        LET H == {m \in Holders : Author[m] = u}
        IN  H # {} /\ (u \notin dedup \/ \E m, n \in H : m # n)}

Lock == INSTANCE ModerationLock WITH holders <- Holders, outlived <- Outlived

ImplementsLock == Lock!Spec

(* A handler that ran to its end with a banning configuration and a user   *)
(* it may ban did not fail silently: either AddBan succeeded, or it tried  *)
(* to alert somebody.  And a softban that left its user banned is never    *)
(* passed over, whichever answers were lost and however often it retried.  *)
TroubleIsReported ==
    \A m \in Message :
        job[m].at = "done" /\ job[m].cfg.action # "disabled"
            /\ Author[m] \notin Exempt =>
                /\ job[m].banned \/ job[m].alert # "none"
                /\ job[m].cfg.action = "softban" /\ bannedBy[Author[m]] = m
                    => job[m].alert # "none"

(* Nobody is banned, and nothing is counted as a ban, on account of a      *)
(* message whose author is exempt or whose handler found the honeypot      *)
(* disabled, and nothing is counted where AddBan never succeeded: not      *)
(* after lost answers, retries or configuration changes in between.        *)
BansAreEarned ==
    \A m \in Message :
        bannedBy[Author[m]] = m \/ job[m].counted =>
            /\ Author[m] \notin Exempt
            /\ job[m].cfg # NoConfig /\ job[m].cfg.action # "disabled"
            /\ job[m].counted => job[m].banned

(* A moderation that began comes to its end, and frees its guard: a DM     *)
(* that never returns is not waited for and no call is retried for ever.   *)
EveryModerationEnds == \A m \in Message : Owner(m) ~> Settled(m)

-----------------------------------------------------------------------------
(* What comments and documents say and the code does not keep: TLC refutes  *)
(* each of these, see the README.                                          *)

(* sendLog: "The log channel is only unset when the failure is a permanent *)
(* channel problem".  The handler works with a snapshot and unsets by      *)
(* guild, so it can unset a log channel it never wrote to.                 *)
OnlyDeadLogIsUnset ==
    [][\A m \in Message :
        UnsetLogChannel(m) /\ config # NoConfig /\ config.log # Nil
            => removal[config.log] # "exists" \/ config.log = job[m].cfg.log]_vars

(* The warning message carries "a running ban counter" (README): a ban     *)
(* that succeeded is counted once its handler is done, while the bot is up *)
(* and Discord and the database work.                                      *)
BansAreCounted ==
    \A m \in Message :
        phase = "up" /\ job[m].at = "done" /\ job[m].banned => job[m].counted

(* sendAlert: "Unlike routine logs, these are never silently dropped."     *)
(* With Discord in good health and the channel there, the moderators learn *)
(* of a softban that left its user banned.                                 *)
AlertsArrive ==
    \A m \in Message :
        job[m].at = "done" /\ job[m].cfg.action = "softban"
            /\ bannedBy[Author[m]] = m
            /\ removal[job[m].alertChannel] = "exists"
                => job[m].alert = "posted"

(* "Same 30-second `dedup` guard keyed (guild, user), so the 3rd/4th blast *)
(* message doesn't re-ban" (design document): of the messages of a user,   *)
(* all of them posted before the first ban, one leads to a ban.            *)
BlastBansOnce ==
    \A m, n \in Message :
        job[m].banned /\ job[n].banned /\ Author[m] = Author[n] => m = n
=============================================================================
