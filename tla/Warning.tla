------------------------------- MODULE Warning -------------------------------
(***************************************************************************)
(* internal/bot/warning.go and its callers: the persistent warning message *)
(* of one guild's honeypot, with its counter of bans.                      *)
(*                                                                         *)
(* ensureWarningMessage runs after a ban, a save of the dialog, a join, a  *)
(* click on an old counter button and on the owner's refresh, each in a    *)
(* goroutine p of its own, with a REST or database call at every step.     *)
(* Nothing keeps two of them apart.  Store models how a write reaches the  *)
(* mirror; here table and mirror are one.                                  *)
(*                                                                         *)
(* Message ids are snowflakes: ordered by time.  A post is one of the      *)
(* bot's or somebody else's, and begins with warningMessagePrefix or not.  *)
(***************************************************************************)
EXTENDS Integers, FiniteSets, FiniteSetsExt

CONSTANTS
    Proc, Channel,
    Nil,                \* SQL NULL, or no message
    NoRow,              \* the channel is not a registered honeypot
    Page,               \* how many messages GetMessages lists, 50 in the code
    Fault,              \* how Discord's REST API may fail
    Home,               \* the honeypot at first
    MaxPosts, MaxBans, MaxFaults, MaxChanges    \* bounds on the environment

ASSUME WarningAssumption ==
    /\ Home \in Channel
    /\ Nil \notin Nat /\ NoRow \notin Nat /\ Nil # NoRow
    /\ Page \in Nat \ {0}
    /\ Fault \subseteq {"fails", "lost"}
    /\ MaxPosts \in Nat /\ MaxBans \in Nat /\ MaxFaults \in Nat /\ MaxChanges \in Nat

VARIABLES
    rows,       \* honeypot_channels: channel -> msg_id (or NULL) or NoRow
    bans,       \* CountEventsByGuild
    made,       \* the id of the newest message
    posts,      \* Discord's messages
    deletions,  \* messages whose MESSAGE_DELETE has not been handled
    job,        \* per goroutine: its call of ensureWarningMessage
    faults, changes,
    meddled     \* history: channels where others than Clean deleted messages

vars == <<rows, bans, made, posts, deletions, job, faults, changes, meddled>>

Id == 1 .. MaxPosts
MaybeId == Id \union {Nil}

(* gone: by whom the message was deleted *)
Post == [channel : Channel, bot : BOOLEAN, prefixed : BOOLEAN,
         label : 0 .. MaxBans, gone : {"no", "bot", "people"}]

Stage == {"idle", "ok", "err",                              \* no call under way
          "honeypot", "save", "old",                        \* in the callers
          "lookup", "count", "update", "list", "adopt", "record", "clean",
          "create", "store"}

Job == [at : Stage, ch : Channel, known : MaybeId,
        prev : Channel \union {Nil},    \* onModalSubmit: the previous honeypot
        count : 0 .. MaxBans, msg : MaybeId, extras : SUBSET Id,
        solo : BOOLEAN]                 \* history: no fault, and nobody else acted

TypeOK ==
    /\ rows \in [Channel -> MaybeId \union {NoRow}]
    /\ bans \in 0 .. MaxBans
    /\ made \in 0 .. MaxPosts
    /\ posts \in [Id -> Post]
    /\ deletions \subseteq Id
    /\ job \in [Proc -> Job]
    /\ faults \in 0 .. MaxFaults
    /\ changes \in 0 .. MaxChanges
    /\ meddled \subseteq Channel

Resting == [at |-> "idle", ch |-> Home, known |-> Nil, prev |-> Nil, count |-> 0,
            msg |-> Nil, extras |-> {}, solo |-> FALSE]

Init ==
    /\ rows = [c \in Channel |-> IF c = Home THEN Nil ELSE NoRow]
    /\ bans = 0
    /\ made = 0
    /\ posts = [i \in Id |-> [channel |-> Home, bot |-> FALSE, prefixed |-> FALSE,
                              label |-> 0, gone |-> "no"]]
    /\ deletions = {}
    /\ job = [p \in Proc |-> Resting]
    /\ faults = 0
    /\ changes = 0
    /\ meddled = {}

-----------------------------------------------------------------------------
Exists(i) == i \in 1 .. made /\ posts[i].gone = "no"
Messages(c) == {i \in 1 .. made : posts[i].channel = c /\ posts[i].gone = "no"}
OwnWarning(i) == posts[i].bot /\ posts[i].prefixed
Warnings(c) == {i \in Messages(c) : OwnWarning(i)}

(* GetMessages: the newest Page messages of the channel *)
Recent(c) == {i \in Messages(c) : Cardinality({j \in Messages(c) : j > i}) < Page}

(* A call that was not alone leaves nothing to be told of when it is over. *)
Over == {"idle", "ok", "err"}
Free(p) == job[p].at \in Over
Accompanied(j) == IF j.at \in Over THEN Resting ELSE [j EXCEPT !.solo = FALSE]

(* p goes on with j; what it does breaks the solitude of the other calls. *)
Act(p, j) == job' = [q \in Proc |-> IF q = p THEN j ELSE Accompanied(job[q])]
Disturb == job' = [q \in Proc |-> Accompanied(job[q])]

(* A step of p that others cannot see. *)
Think(p, j) == job' = [job EXCEPT ![p] = j]

Return(p, result) ==
    IF job[p].solo THEN [Resting EXCEPT !.at = result, !.ch = job[p].ch, !.solo = TRUE]
    ELSE Resting

Faulty == faults < MaxFaults /\ faults' = faults + 1
Fails == "fails" \in Fault /\ Faulty        \* nothing happened
LosesAnswer == "lost" \in Fault /\ Faulty   \* it happened, but looks failed

-----------------------------------------------------------------------------
(* The callers. *)

Call(p, c, stage) ==
    [Resting EXCEPT !.at = stage, !.ch = c, !.solo = TRUE]

(* moderate: the event is recorded, then the guild's honeypot looked up. *)
RecordEvent(p) ==
    /\ Free(p)
    /\ bans < MaxBans
    /\ bans' = bans + 1
    /\ Act(p, Call(p, Home, "honeypot"))
    /\ UNCHANGED <<rows, made, posts, deletions, faults, changes, meddled>>

GetChannel(p) ==
    /\ job[p].at = "honeypot"
    /\ \/ \E c \in Channel :
            /\ rows[c] # NoRow
            /\ Think(p, [job[p] EXCEPT !.at = "lookup", !.ch = c])
       \/ (\A c \in Channel : rows[c] = NoRow) /\ Think(p, Resting)
    /\ UNCHANGED <<rows, bans, made, posts, deletions, faults, changes, meddled>>

(* The owner's refresh goes through the registered channels, a click on an *)
(* old counter button concerns any.                                        *)
Refresh(p, c) ==
    /\ Free(p)
    /\ Think(p, Call(p, c, "lookup"))
    /\ UNCHANGED <<rows, bans, made, posts, deletions, faults, changes, meddled>>

Intervene == changes < MaxChanges /\ changes' = changes + 1

(* onModalSubmit remembers the previous honeypot and its message.          *)
(* onGuildJoin has none to remember: it goes on only without a             *)
(* configuration.                                                          *)
Submit(p, c) ==
    /\ Free(p)
    /\ Intervene
    /\ \/ \E d \in Channel :
            /\ rows[d] # NoRow
            /\ Think(p, [Call(p, c, "save") EXCEPT !.prev = d, !.known = rows[d]])
       \/ (\A d \in Channel : rows[d] = NoRow) /\ Think(p, Call(p, c, "save"))
    /\ UNCHANGED <<rows, bans, made, posts, deletions, faults, meddled>>

(* mutant: the guild's row changes its channel and keeps its message *)
SavedWithMsg(p) ==
    [c \in Channel |-> IF c # job[p].ch THEN NoRow
                       ELSE IF rows[c] = NoRow THEN job[p].known ELSE rows[c]]

Saved(p) ==
    [c \in Channel |-> IF c # job[p].ch THEN NoRow
                       ELSE IF rows[c] = NoRow THEN Nil ELSE rows[c]]

SaveGuildSetup(p) ==
    /\ job[p].at = "save"
    /\ rows' = Saved(p)
    /\ Act(p, [job[p] EXCEPT !.at =
          IF job[p].prev \notin {Nil, job[p].ch} /\ job[p].known # Nil
          THEN "old" ELSE "lookup"])
    /\ UNCHANGED <<bans, made, posts, deletions, faults, changes, meddled>>

Delete(i, who) ==
    /\ posts' = [posts EXCEPT ![i].gone = IF Exists(i) THEN who ELSE @]
    /\ deletions' = IF Exists(i) THEN deletions \union {i} ELSE deletions

DeleteOld(p) ==
    LET on == [job[p] EXCEPT !.at = "lookup", !.known = Nil, !.prev = Nil] IN
    /\ job[p].at = "old"
    /\ \/ /\ Delete(job[p].known, "bot")
          /\ meddled' = meddled \union {posts[job[p].known].channel}
          /\ Act(p, on)
          /\ UNCHANGED faults
       \/ /\ Fails /\ Think(p, Accompanied(on))
          /\ UNCHANGED <<posts, deletions, meddled>>
    /\ UNCHANGED <<rows, bans, made, changes>>

-----------------------------------------------------------------------------
(* ensureWarningMessage *)

GetChannelByID(p) ==
    /\ job[p].at = "lookup"
    /\ \/ /\ rows[job[p].ch] = NoRow
          /\ Think(p, Return(p, "err"))
       \/ /\ rows[job[p].ch] # NoRow
          /\ Think(p, [job[p] EXCEPT !.at = "count", !.known = rows[job[p].ch]])
    /\ UNCHANGED <<rows, bans, made, posts, deletions, faults, changes, meddled>>

CountEvents(p) ==
    /\ job[p].at = "count"
    /\ Think(p, [job[p] EXCEPT !.count = bans,
                               !.at = IF job[p].known = Nil THEN "list" ELSE "update"])
    /\ UNCHANGED <<rows, bans, made, posts, deletions, faults, changes, meddled>>

(* updateWarningMessage, both its calls: whether the message has been      *)
(* edited, and whether the caller learns of it.                            *)
Edit(p, i, success, failure) ==
    \/ /\ Exists(i)
       /\ posts' = [posts EXCEPT ![i].label = job[p].count]
       /\ \/ Act(p, success) /\ UNCHANGED faults
          \/ LosesAnswer /\ Act(p, Accompanied(failure))
    \/ ~Exists(i) /\ Think(p, failure) /\ UNCHANGED <<posts, faults>>
    \/ Fails /\ Think(p, Accompanied(failure)) /\ UNCHANGED posts

(* mutant: an update that fails is the end of the call *)
UpdateOnly(p) ==
    /\ job[p].at = "update"
    /\ Edit(p, job[p].known, Return(p, "ok"), Return(p, "err"))
    /\ UNCHANGED <<rows, bans, made, deletions, changes, meddled>>

UpdateRecorded(p) ==
    /\ job[p].at = "update"
    /\ Edit(p, job[p].known, Return(p, "ok"), [job[p] EXCEPT !.at = "list"])
    /\ UNCHANGED <<rows, bans, made, deletions, changes, meddled>>

(* mutant: whoever wrote it *)
MatchesPrefix(i) == posts[i].prefixed

Matches(i) == OwnWarning(i)

(* mutant: the adopted message is among the duplicates *)
ExtrasAll(S) == S

Extras(S) == S \ {Min(S)}

(* selectWarningMessage: the oldest of the bot's warnings listed is kept,  *)
(* whatever their order.  A listing that fails counts as empty.            *)
GetMessages(p) ==
    LET found == {i \in Recent(job[p].ch) : Matches(i)} IN
    /\ job[p].at = "list"
    /\ \/ /\ found # {}
          /\ Think(p, [job[p] EXCEPT !.at = "adopt", !.msg = Min(found),
                                     !.extras = Extras(found)])
          /\ UNCHANGED faults
       \/ found = {} /\ Think(p, [job[p] EXCEPT !.at = "create"]) /\ UNCHANGED faults
       \/ Fails /\ Think(p, [job[p] EXCEPT !.at = "create", !.solo = FALSE])
    /\ UNCHANGED <<rows, bans, made, posts, deletions, changes, meddled>>

Adopt(p) ==
    LET on == [job[p] EXCEPT !.at = "record"] IN
    /\ job[p].at = "adopt"
    /\ Edit(p, job[p].msg, on, on)
    /\ UNCHANGED <<rows, bans, made, deletions, changes, meddled>>

(* SetWarningMsg of a channel that has no row any more changes nothing. *)
SetWarningMsg(p, stage, next) ==
    /\ job[p].at = stage
    /\ \/ /\ rows' = [rows EXCEPT ![job[p].ch] = IF @ = NoRow THEN @ ELSE job[p].msg]
          /\ Act(p, next)
          /\ UNCHANGED faults
       \/ /\ Fails
          /\ Think(p, Resting)
          /\ UNCHANGED rows
    /\ UNCHANGED <<bans, made, posts, deletions, changes, meddled>>

StoreAdopted(p) ==
    SetWarningMsg(p, "record",
        IF job[p].extras = {} THEN Return(p, "ok") ELSE [job[p] EXCEPT !.at = "clean"])

CleanOver(p, i) ==
    IF job[p].extras = {i} THEN Return(p, "ok") ELSE [job[p] EXCEPT !.extras = @ \ {i}]

Clean(p, i) ==
    /\ job[p].at = "clean"
    /\ i \in job[p].extras
    /\ \/ Delete(i, "bot") /\ Act(p, CleanOver(p, i)) /\ UNCHANGED faults
       \/ /\ Fails /\ Think(p, Accompanied(CleanOver(p, i)))
          /\ UNCHANGED <<posts, deletions>>
    /\ UNCHANGED <<rows, bans, made, changes, meddled>>

NewPost(c, bot, prefixed, label) ==
    /\ made < MaxPosts
    /\ made' = made + 1
    /\ posts' = [posts EXCEPT ![made'] =
          [channel |-> c, bot |-> bot, prefixed |-> prefixed, label |-> label,
           gone |-> "no"]]

CreateMessage(p) ==
    /\ job[p].at = "create"
    /\ \/ /\ NewPost(job[p].ch, TRUE, TRUE, job[p].count)
          /\ Act(p, [job[p] EXCEPT !.at = "store", !.msg = made'])
          /\ UNCHANGED faults
       \/ /\ LosesAnswer
          /\ NewPost(job[p].ch, TRUE, TRUE, job[p].count)
          /\ Act(p, Resting)
       \/ /\ Fails
          /\ Think(p, Resting)
          /\ UNCHANGED <<made, posts>>
    /\ UNCHANGED <<rows, bans, deletions, changes, meddled>>

StorePosted(p) == SetWarningMsg(p, "store", Return(p, "ok"))

-----------------------------------------------------------------------------
(* A person posts, also a copy of the warning; the bot posts an alert or   *)
(* its intro.                                                              *)
OthersPost(c) ==
    /\ Intervene
    /\ \E bot \in BOOLEAN : NewPost(c, bot, ~bot, 0)
    /\ Disturb
    /\ UNCHANGED <<rows, bans, deletions, faults, meddled>>

(* A moderator deletes a message. *)
PeopleDelete(i) ==
    /\ Intervene
    /\ Exists(i)
    /\ Delete(i, "people")
    /\ meddled' = meddled \union {posts[i].channel}
    /\ Disturb
    /\ UNCHANGED <<rows, bans, made, faults>>

(* mutant: zero instead of NULL *)
ClearToZero(i) == [c \in Channel |-> IF rows[c] = i THEN 0 ELSE rows[c]]

ClearMsg(i) == [c \in Channel |-> IF rows[c] = i THEN Nil ELSE rows[c]]

onMessageDelete(i) ==
    /\ i \in deletions
    /\ deletions' = deletions \ {i}
    /\ rows' = ClearMsg(i)
    /\ IF rows' = rows THEN UNCHANGED job ELSE Disturb
    /\ UNCHANGED <<bans, made, posts, faults, changes, meddled>>

(* onGuildLeave; the messages stay, also when the bot is invited again. *)
DeleteGuild ==
    /\ Intervene
    /\ rows' = [c \in Channel |-> NoRow]
    /\ bans' = 0
    /\ Disturb
    /\ UNCHANGED <<made, posts, deletions, faults, meddled>>

(* The process ends anywhere and is started again; what happened to        *)
(* messages meanwhile it is not told.                                      *)
Restart ==
    /\ Intervene
    /\ job' = [p \in Proc |-> Resting]
    /\ deletions' = {}
    /\ UNCHANGED <<rows, bans, made, posts, faults, meddled>>

(* The bound on posts, and not the bot, ends the behaviour here. *)
Full == made = MaxPosts /\ (\A p \in Proc : job[p].at = "create") /\ UNCHANGED vars

Step(p) ==
    \/ GetChannel(p) \/ SaveGuildSetup(p) \/ DeleteOld(p)
    \/ GetChannelByID(p) \/ CountEvents(p) \/ UpdateRecorded(p) \/ GetMessages(p)
    \/ Adopt(p) \/ StoreAdopted(p) \/ (\E i \in Id : Clean(p, i))
    \/ CreateMessage(p) \/ StorePosted(p)

Next ==
    \/ \E p \in Proc :
        \/ Step(p) \/ RecordEvent(p)
        \/ \E c \in Channel : Refresh(p, c) \/ Submit(p, c)
    \/ \E c \in Channel : OthersPost(c)
    \/ \E i \in Id : PeopleDelete(i) \/ onMessageDelete(i)
    \/ DeleteGuild \/ Restart \/ Full

Spec == Init /\ [][Next]_vars

(* A call that has begun goes on, deletions are told of, and refreshes     *)
(* keep coming: with every ban, click and request of the owner.            *)
FairSpec ==
    /\ Spec
    /\ \A p \in Proc : WF_vars(Step(p))
    /\ \A i \in Id : WF_vars(onMessageDelete(i))
    /\ \E p \in Proc : \A c \in Channel : SF_vars(Refresh(p, c))

-----------------------------------------------------------------------------
(* Whatever is recorded, adopted, or deleted by the bot is a warning it    *)
(* posted itself, and recorded only for the channel it is in: no person's  *)
(* message and no alert of the bot's, however the calls, the moves of the  *)
(* honeypot and the deletions interleave.                                  *)
OnlyOwnWarnings ==
    /\ \A c \in Channel :
        rows[c] \in Id => OwnWarning(rows[c]) /\ posts[rows[c]].channel = c
    /\ \A i \in Id : posts[i].gone = "bot" => OwnWarning(i)

(* A call that met no fault and was alone from its first to its last step  *)
(* has put things right, whatever they were like: the channel's recorded   *)
(* message exists and shows the count; and it fails only on a channel that *)
(* is no honeypot.                                                         *)
SoloCallRepairs ==
    \A p \in Proc : job[p].solo =>
        /\ job[p].at = "ok" =>
            /\ rows[job[p].ch] \in Warnings(job[p].ch)
            /\ posts[rows[job[p].ch]].label = bans
        /\ job[p].at = "err" => rows[job[p].ch] = NoRow

(* Cleaning up duplicates never takes a channel's only warning: where      *)
(* nobody else deletes, calls that clean up at once leave at least one.    *)
CleaningKeepsOne ==
    \A c \in Channel \ meddled :
        (\E i \in Id : i <= made /\ posts[i].channel = c /\ OwnWarning(i))
            => Warnings(c) # {}

(* Refreshes that keep coming get there: after the last ban, deletion,     *)
(* fault or change the honeypot's recorded message exists and shows the    *)
(* count, for good.                                                        *)
InOrder ==
    \A c \in Channel : rows[c] # NoRow =>
        rows[c] \in Warnings(c) /\ posts[rows[c]].label = bans

CatchesUp == <>[]InOrder

-----------------------------------------------------------------------------
(* What comments and documents say and the code does not keep: TLC refutes  *)
(* each of these, see the README.                                          *)

Quiet == \A p \in Proc : Free(p)

(* "Adopt the oldest and clean up duplicates instead of spamming another   *)
(* one": a new warning is posted only where the bot has none.              *)
NoSecondWarning ==
    [][\A p \in Proc : CreateMessage(p) => Warnings(job[p].ch) = {}]_vars

(* ensureWarningMessage "returns nil when the warning message is confirmed *)
(* posted or updated": a message that it has adopted, alone and without    *)
(* duplicates, then shows at least the bans it has counted.                *)
NilMeansUpdated ==
    [][\A p \in Proc :
        StoreAdopted(p) /\ job[p].extras = {} /\ UNCHANGED faults
            => posts[job[p].msg].label >= job[p].count]_vars

(* The warning carries "a running ban counter" (README): when every ban's  *)
(* refresh has returned, it shows the number of bans.                      *)
CounterIsCurrent == Quiet /\ bans > 0 => InOrder

(* "Message gone (deleted manually) - fall through and repost": a recorded *)
(* message that is still there is not posted again.                        *)
RepostedOnlyIfGone ==
    [][\A p \in Proc :
        CreateMessage(p) /\ job[p].known # Nil => ~Exists(job[p].known)]_vars
=============================================================================
