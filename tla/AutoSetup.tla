----------------------------- MODULE AutoSetup -----------------------------
(***************************************************************************)
(* internal/bot/setup.go: what onGuildJoin does to the honeypot channel    *)
(* itself.  ensureEveryoneCanSeeChannel edits the @everyone overwrite of   *)
(* the channel it was given, as the listing showed it, while people edit   *)
(* it too; the introduction deletes itself after a while.  Which channel   *)
(* it is and what is saved of it is GuildLifecycle's, the warning message  *)
(* Warning's; here they are one step, Settle.                              *)
(***************************************************************************)
EXTENDS Integers

CONSTANTS
    Permission,
    Needed,             \* View Channel and Send Messages
    None,               \* no overwrite
    MaxChanges          \* bound on what people change, and on restarts

ASSUME SetupAssumption ==
    /\ Needed \subseteq Permission
    /\ MaxChanges \in Nat

VARIABLES
    default,    \* Discord: what the guild's @everyone role permits
    overwrite,  \* Discord: the channel's overwrite for @everyone, or None
    entitled,   \* Discord: the bot may edit overwrites
    seen,       \* the overwrite as the listing showed it
    at,         \* where the handler is
    intro,      \* the introduction: "none", "posted", "gone"
    timer,      \* its goroutine: "none", "waiting", "over"
    changes,    \* how many of the environment's actions have happened
    edited,     \* history: people edited default or overwrite since the listing
    failed      \* history: what failed, or seemed to: the fix, posting the
                \* introduction, its deletion (which a stop forestalls)

vars == <<default, overwrite, entitled, seen, at, intro, timer, changes, edited, failed>>

Overwrite == [allow : SUBSET Permission, deny : SUBSET Permission]
MaybeOverwrite == Overwrite \union {None}
ASSUME NoneAssumption == None \notin Overwrite

Stage == {"list", "look", "member", "grant", "settle", "introduce", "done", "aborted"}

TypeOK ==
    /\ default \subseteq Permission
    /\ overwrite \in MaybeOverwrite
    /\ entitled \in BOOLEAN
    /\ seen \in MaybeOverwrite
    /\ at \in Stage
    /\ intro \in {"none", "posted", "gone"}
    /\ timer \in {"none", "waiting", "over"}
    /\ changes \in 0 .. MaxChanges
    /\ edited \in BOOLEAN
    /\ failed \subseteq {"fix", "intro", "timer"}

(* Discord keeps no permission both allowed and denied. *)
Proper(o) == o = None \/ o.allow \intersect o.deny = {}

(* The bot's channel is new and has none, one that was there may have any. *)
Init ==
    /\ default \in SUBSET Permission
    /\ overwrite \in {o \in MaybeOverwrite : Proper(o)}
    /\ entitled \in BOOLEAN
    /\ seen = None
    /\ at = "list"
    /\ intro = "none"
    /\ timer = "none"
    /\ changes = 0
    /\ edited = FALSE
    /\ failed = {}

-----------------------------------------------------------------------------
discord == <<default, overwrite, entitled, changes, edited>>
message == <<intro, timer>>

(* The channel as listed, or as created; without one the handler returns.  *)
GetGuildChannels ==
    /\ at = "list"
    /\ seen' = overwrite
    /\ at' \in {"look", "aborted"}
    /\ edited' = FALSE
    /\ UNCHANGED <<default, overwrite, entitled, changes, message, failed>>

(* mutant: an explicit overwrite is taken to be right *)
MustFixDefault(d, o) == o = None /\ ~(Needed \subseteq d)

MustFix(d, o) ==
    \/ o # None /\ o.deny \intersect Needed # {}
    \/ o = None /\ ~(Needed \subseteq d)

(* The role is looked up in the cache, where it may be missing. *)
Look ==
    /\ at = "look"
    /\ \/ MustFix(default, seen) /\ at' = "member" /\ UNCHANGED failed
       \/ ~MustFix(default, seen) /\ at' = "settle" /\ UNCHANGED failed
       \/ at' = "settle" /\ failed' = failed \union {"fix"}
    /\ UNCHANGED <<discord, seen, message>>

(* Manage Roles or Manage Channels; a failed GetMember permits nothing. *)
BotPermissions ==
    /\ at = "member"
    /\ \/ entitled /\ at' = "grant" /\ UNCHANGED failed
       \/ at' = "settle" /\ failed' = failed \union {"fix"}
    /\ UNCHANGED <<discord, seen, message>>

AllowOf(o) == IF o = None THEN {} ELSE o.allow
DenyOf(o) == IF o = None THEN {} ELSE o.deny

(* mutant: the needed permissions and nothing else *)
GrantBare(o) == [allow |-> Needed, deny |-> DenyOf(o) \ Needed]

Grant(o) == [allow |-> AllowOf(o) \union Needed, deny |-> DenyOf(o) \ Needed]

(* The request replaces the overwrite there is by one made of the one      *)
(* seen; the answer that it did may be lost.                               *)
UpdatePermissionOverwrite ==
    /\ at = "grant"
    /\ \/ entitled /\ overwrite' = Grant(seen) /\ failed' \in {failed, failed \union {"fix"}}
       \/ UNCHANGED overwrite /\ failed' = failed \union {"fix"}
    /\ at' = "settle"
    /\ UNCHANGED <<default, entitled, changes, edited, seen, message>>

(* SaveGuildSetup, which may fail, and ensureWarningMessage *)
Settle ==
    /\ at = "settle"
    /\ at' \in {"introduce", "done"}
    /\ UNCHANGED <<discord, seen, message, failed>>

(* On an error, also of a message that was posted, there is no goroutine.  *)
CreateIntro ==
    /\ at = "introduce"
    /\ \/ intro' = "posted" /\ timer' = "waiting" /\ UNCHANGED failed
       \/ intro' \in {intro, "posted"} /\ UNCHANGED timer /\ failed' = failed \union {"intro"}
    /\ at' = "done"
    /\ UNCHANGED <<discord, seen>>

(* mutant: the goroutine only waits *)
JustWaits == UNCHANGED intro

DeletesIntro == intro' = "gone"

(* 150 s have passed. *)
IntroTimer ==
    /\ timer = "waiting"
    /\ timer' = "over"
    /\ \/ DeletesIntro /\ failed' \in {failed, failed \union {"timer"}}
       \/ intro = "posted" /\ UNCHANGED intro /\ failed' = failed \union {"timer"}
    /\ UNCHANGED <<discord, seen, at>>

-----------------------------------------------------------------------------
Intervene == changes < MaxChanges /\ changes' = changes + 1

(* "Delete message now", by somebody with Manage Messages *)
DeleteIntro ==
    /\ Intervene
    /\ intro = "posted"
    /\ intro' = "gone"
    /\ UNCHANGED <<default, overwrite, entitled, seen, at, timer, edited, failed>>

EditOverwrite(o) ==
    /\ Intervene
    /\ overwrite' = o
    /\ edited' = TRUE
    /\ UNCHANGED <<default, entitled, seen, at, message, failed>>

EditDefault(d) ==
    /\ Intervene
    /\ default' = d
    /\ edited' = TRUE
    /\ UNCHANGED <<overwrite, entitled, seen, at, message, failed>>

EditBot ==
    /\ Intervene
    /\ entitled' = ~entitled
    /\ UNCHANGED <<default, overwrite, seen, at, message, edited, failed>>

(* Bot.ctx is cancelled: the handler's calls fail, the timer dies with it. *)
Stop ==
    /\ Intervene
    /\ at' = IF at = "done" THEN at ELSE "aborted"
    /\ timer' = "over"
    /\ failed' = IF timer = "waiting" THEN failed \union {"timer"} ELSE failed
    /\ UNCHANGED <<default, overwrite, entitled, seen, intro, edited>>

Rest == at \in {"done", "aborted"} /\ timer # "waiting" /\ UNCHANGED vars

Step ==
    \/ GetGuildChannels \/ Look \/ BotPermissions \/ UpdatePermissionOverwrite
    \/ Settle \/ CreateIntro

Next ==
    \/ Step \/ IntroTimer
    \/ DeleteIntro
    \/ \E o \in Overwrite : Proper(o) /\ EditOverwrite(o)
    \/ \E d \in SUBSET Permission : EditDefault(d)
    \/ EditBot \/ Stop \/ Rest

Spec == Init /\ [][Next]_vars
FairSpec == Spec /\ WF_vars(Step) /\ WF_vars(IntroTimer)

-----------------------------------------------------------------------------
(* What everybody may do in the channel: denials first, then allowances. *)
Effective(d, o) == (d \ DenyOf(o)) \union AllowOf(o)

(* The fix gives @everyone what is needed and, if nobody edited the        *)
(* channel since it was listed, gives and takes nothing else.              *)
FixGivesTheNeeded ==
    [][UpdatePermissionOverwrite /\ overwrite' # overwrite =>
        LET old == Effective(default, overwrite)
            new == Effective(default', overwrite')
        IN  /\ Needed \subseteq new
            /\ ~edited => new = old \union Needed]_vars

(* What the channel's own overwrite denies @everyone of the needed         *)
(* permissions is lifted, unless something failed or people edited it.     *)
DenialIsLifted ==
    at \in {"settle", "introduce", "done"} /\ "fix" \notin failed /\ ~edited
        => DenyOf(overwrite) \intersect Needed = {}

(* The introduction is deleted by the bot or by people, unless posting it  *)
(* seemed to fail, its deletion did, or the bot is stopped before.         *)
IntroGoes == intro = "posted" ~> intro = "gone" \/ failed \intersect {"intro", "timer"} # {}

-----------------------------------------------------------------------------
(* What comments say and the code does not keep: TLC refutes it, see the   *)
(* README.                                                                 *)

(* ensureEveryoneCanSeeChannel "grants @everyone View Channel + Send       *)
(* Messages on the honeypot channel if either the channel's explicit       *)
(* @everyone overwrite or the guild-level default denies them": afterwards *)
(* everybody has them, unless something failed or people edited it.        *)
EveryoneCanPost ==
    at \in {"settle", "introduce", "done"} /\ "fix" \notin failed /\ ~edited
        => Needed \subseteq Effective(default, overwrite)

(* onGuildJoin "posts a self-deleting intro message": what is posted goes, *)
(* unless its deletion fails or dies with the bot, as it is meant to.      *)
IntroIsSelfDeleting == intro = "posted" ~> intro = "gone" \/ "timer" \in failed
=============================================================================
