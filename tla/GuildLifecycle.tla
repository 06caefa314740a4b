--------------------------- MODULE GuildLifecycle ---------------------------
(***************************************************************************)
(* internal/bot/setup.go and housekeeping.go with the save of              *)
(* handler_config.go: how one guild is set up, configured, tidied and      *)
(* forgotten.                                                              *)
(*                                                                         *)
(* Discord tells of joining, leaving and deletions, each event is handled  *)
(* by a goroutine of its own (a slot p of job), and no order is kept       *)
(* between them.  A step is one REST or database call.  Table and mirror   *)
(* of the store are one here, and the warning message is Warning's.        *)
(***************************************************************************)
EXTENDS Integers, FiniteSets

CONSTANTS
    Proc,               \* slots for handlers: how many may be under way
    Channel,
    Named,              \* channels whose name normalizes to "honeypot"
    Present,            \* the channels there are at first
    NoConfig, Nil,
    MaxEvents           \* bound on what happens outside the bot

ASSUME LifecycleAssumption ==
    /\ Named \subseteq Channel
    /\ Present \subseteq Channel
    /\ Nil \notin Channel
    /\ MaxEvents \in Nat

VARIABLES
    member,     \* Discord: the bot is a member of the guild
    channels,   \* Discord: the guild's channels
    deleted,    \* Discord: channels there were
    config,     \* the guild's honeypot_config row, or NoConfig
    honeypot,   \* its row of honeypot_channels, or Nil
    job,        \* the handlers under way
    happened,   \* bound: events so far
    mixed,      \* history: the latest join, leave or save overlapped another,
                \* failed, was killed, or the bot was not told
    missed,     \* history: deleted channels a handler was about to save, or
                \* whose deletion no handler saw through
    twofold,    \* history: channels chosen as honeypot and log channel at once
    gaveUp      \* history: something failed, was killed, or the bot not told

history == <<mixed, missed, twofold, gaveUp>>
vars == <<member, channels, deleted, config, honeypot, job, happened, history>>

(* by: whether onGuildJoin's default or an administrator's choice *)
Config == [log : Channel \union {Nil}, by : {"join", "admin"}]
ASSUME NoConfigAssumption == NoConfig \notin Config

Kind == {"none", "join", "leave", "save", "delete"}
Stage == {"idle", "config", "find", "create", "save", "purge",
          "check", "remove", "compare", "unset"}
Job == [kind : Kind, at : Stage, ch : Channel \union {Nil}, log : Channel \union {Nil}]

TypeOK ==
    /\ member \in BOOLEAN
    /\ channels \subseteq Channel
    /\ deleted \subseteq Channel
    /\ config \in Config \union {NoConfig}
    /\ honeypot \in Channel \union {Nil}
    /\ job \in [Proc -> Job]
    /\ happened \in 0 .. MaxEvents
    /\ mixed \in BOOLEAN
    /\ missed \subseteq Channel
    /\ twofold \subseteq Channel
    /\ gaveUp \in BOOLEAN

Idle == [kind |-> "none", at |-> "idle", ch |-> Nil, log |-> Nil]

Init ==
    /\ member = FALSE
    /\ channels = Present
    /\ deleted = {}
    /\ config = NoConfig
    /\ honeypot = Nil
    /\ job = [p \in Proc |-> Idle]
    /\ happened = 0
    /\ mixed = FALSE
    /\ missed = {}
    /\ twofold = {}
    /\ gaveUp = FALSE

-----------------------------------------------------------------------------
Changing(p) == job[p].kind \in {"join", "leave", "save"}
Naming(p, c) == job[p].kind \in {"join", "save"} /\ c \in {job[p].ch, job[p].log}
AllDone == \A p \in Proc : job[p] = Idle

Happens == happened < MaxEvents /\ happened' = happened + 1

(* Discord dispatches an event, disgo starts its goroutine. *)
Start(p, kind, stage, c, l) ==
    /\ job[p] = Idle
    /\ job' = [job EXCEPT ![p] = [kind |-> kind, at |-> stage, ch |-> c, log |-> l]]

(* The bot is down, and will not be told: for a guild that is there when   *)
(* it logs in there is neither a join nor a deletion, and for one that is  *)
(* not there is no leave.                                                  *)
Unseen == AllDone /\ UNCHANGED job /\ gaveUp' = TRUE

Mix == mixed' = \E p \in Proc : Changing(p)

Invite(p) ==
    /\ Happens
    /\ ~member
    /\ member' = TRUE
    /\ \/ Start(p, "join", "config", Nil, Nil) /\ Mix /\ UNCHANGED gaveUp
       \/ Unseen /\ mixed' = TRUE
    /\ UNCHANGED <<channels, deleted, config, honeypot, missed, twofold>>

Kick(p) ==
    /\ Happens
    /\ member
    /\ member' = FALSE
    /\ \/ Start(p, "leave", "purge", Nil, Nil) /\ Mix /\ UNCHANGED gaveUp
       \/ Unseen /\ mixed' = TRUE
    /\ UNCHANGED <<channels, deleted, config, honeypot, missed, twofold>>

(* An administrator submits the dialog; validateConfig looks the channels  *)
(* up in the cache, which has those there are.                             *)
Submit(p, c, l) ==
    /\ Happens
    /\ member
    /\ c \in channels /\ l \in channels \union {Nil}
    /\ Start(p, "save", "save", c, l)
    /\ Mix
    /\ twofold' = IF c = l THEN twofold \union {c} ELSE twofold
    /\ UNCHANGED <<member, channels, deleted, config, honeypot, missed, gaveUp>>

(* People delete a channel; a guild the bot is not in does not tell it.    *)
DeleteChannel(p, c) ==
    /\ Happens
    /\ c \in channels
    /\ channels' = channels \ {c}
    /\ deleted' = deleted \union {c}
    /\ \/ /\ member
          /\ Start(p, "delete", "check", c, Nil)
          /\ missed' = IF \E q \in Proc : Naming(q, c) THEN missed \union {c} ELSE missed
          /\ UNCHANGED gaveUp
       \/ /\ (~member /\ UNCHANGED <<job, gaveUp>>) \/ Unseen
          /\ missed' = missed \union {c}
    /\ UNCHANGED <<member, config, honeypot, mixed, twofold>>

-----------------------------------------------------------------------------
outside == <<member, channels, deleted, happened, history>>

At(p, stage) == job[p].at = stage
Goto(p, stage) == job' = [job EXCEPT ![p].at = stage]
Return(p) == job' = [job EXCEPT ![p] = Idle]

(* mutant: the known guild is set up anew *)
SetUpAnew(p) == Goto(p, "find")

(* "rejoined a guild we already know" *)
SetUpUnknown(p) ==
    \/ config # NoConfig /\ Return(p)
    \/ config = NoConfig /\ Goto(p, "find")

GetConfig(p) ==
    /\ At(p, "config")
    /\ SetUpUnknown(p)
    /\ UNCHANGED <<config, honeypot, outside>>

(* The first channel so named is the honeypot; Discord lists channels only *)
(* to members.                                                             *)
GetGuildChannels(p) ==
    /\ At(p, "find")
    /\ \/ \E c \in channels \intersect Named :
            member /\ job' = [job EXCEPT ![p].at = "save", ![p].ch = c]
       \/ member /\ channels \intersect Named = {} /\ Goto(p, "create")
       \/ ~member /\ Return(p)
    /\ UNCHANGED <<config, honeypot, outside>>

(* A new channel's obfuscated name normalizes to "honeypot" (Lookalike).   *)
(* It stays there if the answer is lost, which ends the handler.           *)
CreateGuildChannel(p) ==
    /\ At(p, "create")
    /\ \/ \E c \in Named \ (channels \union deleted) :
            /\ member
            /\ channels' = channels \union {c}
            /\ \/ job' = [job EXCEPT ![p].at = "save", ![p].ch = c] /\ UNCHANGED <<mixed, gaveUp>>
               \/ Return(p) /\ mixed' = TRUE /\ gaveUp' = TRUE
       \/ ~member /\ Return(p) /\ UNCHANGED <<channels, mixed, gaveUp>>
    /\ UNCHANGED <<member, deleted, config, honeypot, happened, missed, twofold>>

(* A request or a query fails, without effect: the handler says so in the  *)
(* log, or in the dialog, and returns.  A look at the mirror cannot fail.  *)
Fails(p) ==
    /\ job[p].at \notin {"idle", "check"}
    /\ Return(p)
    /\ mixed' = (mixed \/ Changing(p))
    /\ missed' = IF job[p].kind = "delete" THEN missed \union {job[p].ch} ELSE missed
    /\ gaveUp' = TRUE
    /\ UNCHANGED <<member, channels, deleted, config, honeypot, happened, twofold>>

SaveGuildSetup(p) ==
    /\ At(p, "save")
    /\ config' = [log |-> job[p].log,
                  by |-> IF job[p].kind = "join" THEN "join" ELSE "admin"]
    /\ honeypot' = job[p].ch
    /\ Return(p)
    /\ UNCHANGED outside

(* mutant: the cascade does not reach the channel *)
PurgeConfig == config' = NoConfig /\ UNCHANGED honeypot

Purge == config' = NoConfig /\ honeypot' = Nil

DeleteGuild(p) ==
    /\ At(p, "purge")
    /\ Purge
    /\ Return(p)
    /\ UNCHANGED outside

(* handleContainerDelete *)
GetChannelByID(p) ==
    /\ At(p, "check")
    /\ Goto(p, IF honeypot = job[p].ch THEN "remove" ELSE "compare")
    /\ UNCHANGED <<config, honeypot, outside>>

(* mutant: the honeypot of the guild, whichever it is *)
RemoveHoneypot(c) == Nil

DeleteRow(c) == IF honeypot = c THEN Nil ELSE honeypot

RemoveChannel(p) ==
    /\ At(p, "remove")
    /\ honeypot' = DeleteRow(job[p].ch)
    /\ Return(p)
    /\ UNCHANGED <<config, outside>>

(* mutant: only the honeypot is looked after *)
NeverLog(p) == FALSE

IsLog(p) == config # NoConfig /\ config.log = job[p].ch

Compare(p) ==
    /\ At(p, "compare")
    /\ \/ IsLog(p) /\ Goto(p, "unset")
       \/ ~IsLog(p) /\ Return(p)
    /\ UNCHANGED <<config, honeypot, outside>>

(* mutant: 0 for NULL *)
ZeroLog == IF config = NoConfig THEN NoConfig ELSE [config EXCEPT !.log = 0]

NoLog == IF config = NoConfig THEN NoConfig ELSE [config EXCEPT !.log = Nil]

UnsetLogChannel(p) ==
    /\ At(p, "unset")
    /\ config' = NoLog
    /\ Return(p)
    /\ UNCHANGED <<honeypot, outside>>

(* The process ends with all its handlers; a next one starts afresh. *)
Restart ==
    /\ Happens
    /\ job' = [p \in Proc |-> Idle]
    /\ mixed' = (mixed \/ \E p \in Proc : Changing(p))
    /\ missed' = missed \union {job[p].ch : p \in {q \in Proc : job[q].kind = "delete"}}
    /\ gaveUp' = (gaveUp \/ ~AllDone)
    /\ UNCHANGED <<member, channels, deleted, config, honeypot, twofold>>

Step(p) ==
    \/ GetConfig(p) \/ GetGuildChannels(p) \/ CreateGuildChannel(p)
    \/ Fails(p) \/ SaveGuildSetup(p) \/ DeleteGuild(p)
    \/ GetChannelByID(p) \/ RemoveChannel(p) \/ Compare(p) \/ UnsetLogChannel(p)

Rest == AllDone /\ UNCHANGED vars

Next ==
    \/ \E p \in Proc :
        \/ Step(p) \/ Invite(p) \/ Kick(p)
        \/ \E c \in Channel :
            DeleteChannel(p, c) \/ \E l \in Channel \union {Nil} : Submit(p, c, l)
    \/ Restart
    \/ Rest

Spec == Init /\ [][Next]_vars

-----------------------------------------------------------------------------
Settled == \A p \in Proc : ~Changing(p)

(* A join, leave or save that runs alone to its end settles the guild,     *)
(* whatever went wrong before it: the guild is configured exactly while    *)
(* the bot is a member, and its honeypot is forgotten with it; deletions   *)
(* may be handled at any time meanwhile.                                   *)
MembershipSettles ==
    ~mixed /\ Settled =>
        /\ (config # NoConfig) <=> member
        /\ ~member => honeypot = Nil

(* Once its deletion has been handled, a channel that is gone is neither   *)
(* honeypot nor log channel any more, in whatever order deletions, joins   *)
(* and saves are handled.  It may be when a handler that had already       *)
(* chosen it was about to save it or its deletion was not seen through,    *)
(* and as log channel when it was the honeypot as well.                    *)
GoneIsDeregistered ==
    \A c \in deleted \ missed :
        (\A p \in Proc : job[p].kind = "delete" => job[p].ch # c)
            => /\ honeypot # c
               /\ config # NoConfig /\ config.log = c => c \in twofold

(* A registered honeypot is not lost to somebody else's deletion: its row  *)
(* goes with the configuration, or because the channel itself is gone,     *)
(* however old the look was that chose to remove it.                       *)
OnlyGoneIsRemoved ==
    [][honeypot # Nil /\ honeypot' = Nil => config' = NoConfig \/ honeypot \in deleted]_vars

(* The default settings of a join never replace settings there are, unless *)
(* that very join overlaps another join, a leave or a save.                *)
ChoiceSurvivesJoin ==
    [][\A p \in Proc :
        SaveGuildSetup(p) /\ job[p].kind = "join" /\ config # NoConfig => mixed]_vars

-----------------------------------------------------------------------------
(* What comments and documents say and the code does not keep: TLC refutes *)
(* each of these, see the README.                                          *)

(* README: "On joining a server the bot finds or creates a honeypot        *)
(* channel".  With every event handled and nothing failed, a guild the bot *)
(* is in is set up.                                                        *)
JoinedIsSetUp == AllDone /\ member /\ ~gaveUp => config # NoConfig

(* handleContainerDelete "cleans up after a deleted channel or thread": a  *)
(* log channel that is still there is not unset.                           *)
LiveLogStays ==
    [][\A p \in Proc :
        UnsetLogChannel(p) /\ config # NoConfig /\ config.log # Nil
            => config.log \in deleted]_vars

(* "A honeypot channel is deregistered, a log channel is unset": with      *)
(* every event handled and nothing failed, no deleted channel is the       *)
(* honeypot.                                                               *)
NoGoneHoneypot == AllDone /\ member /\ ~gaveUp => honeypot \notin deleted

(* And none is the log channel, if no handler was about to save it when it *)
(* was deleted.                                                            *)
NoGoneLog ==
    AllDone /\ ~gaveUp /\ config # NoConfig => config.log \notin deleted \ missed
=============================================================================
