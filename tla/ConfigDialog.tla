---------------------------- MODULE ConfigDialog ----------------------------
(***************************************************************************)
(* internal/bot/handler_config.go: the dialogs administrators of one guild *)
(* submit, each handled by a goroutine of its own, with validateConfig of  *)
(* rules.go and the bot's permissions of helpers.go, which are those of    *)
(* its roles as they were when its member object was last fetched.         *)
(*                                                                         *)
(* View Channel and Send Messages are asked for together and are one       *)
(* permission here.  Store models the transaction and GuildLifecycle what  *)
(* becomes of it; Warning models the old warning message and the new one.  *)
(***************************************************************************)
EXTENDS Integers, FiniteSets

CONSTANTS
    Dialog, Channel, Role,
    Submission,         \* what administrators choose, see Sub
    Malformed,          \* no channel, or an action there is none of
    Grants,             \* what a role permits: <<channel, permission>> pairs
    Nil,
    TTL,                \* selfMemberTTL, in ticks
    Patience,           \* how long a REST call may take before it fails
    Fault,              \* what may fail: "rest", "database", "lost" answers of it
    MaxTime, MaxChanges

Permission == {"post", "ban"}
Access == Channel \X Permission
Sub == [honeypot : Channel, log : Channel \union {Nil},
        bans : BOOLEAN,         \* the action is softban or ban
        may : BOOLEAN]          \* the administrator has Ban Members

ASSUME DialogAssumption ==
    /\ Submission \subseteq Sub
    /\ Malformed \notin Sub
    /\ Grants \in [Role -> SUBSET Access]
    /\ Nil \notin Channel \union Dialog
    /\ TTL \in Nat
    /\ Patience \in Nat
    /\ Fault \subseteq {"rest", "database", "lost"}
    /\ MaxTime \in Nat
    /\ MaxChanges \in Nat

VARIABLES
    now,        \* time.Now()
    roles,      \* Discord: the bot's roles
    changes,    \* changes of them, and restarts, so far
    self,       \* Bot.selfMembers: the roles it holds, and its expiry, or Nil
    config,     \* the dialog that wrote the guild's configuration, or Nil
    honeypot,   \* the dialog that wrote its honeypot channel, or Nil
    job,        \* per dialog: its goroutine
    past,       \* history: when the bot had which roles
    lost        \* history: dialogs saved with an error for an answer

vars == <<now, roles, changes, self, config, honeypot, job, past, lost>>

Time == 0 .. MaxTime
Stage == {"new", "deferring", "log", "askLog", "honeypot", "askHoneypot",
          "saving", "warning", "replying", "answered", "mute", "killed"}
Reply == {"none", "malformed", "problems", "failed", "configured", "unposted"}

Job == [at : Stage,
        sub : Submission \union {Malformed},
        began : Time,           \* history: when it was submitted
        asked : Time,           \* when Discord answered GetMember
        roles : SUBSET Role,    \* what that answer says
        logOK : BOOLEAN,        \* the bot may post in the log channel
        faulty : BOOLEAN,       \* history: a call to Discord failed
        reply : Reply]

TypeOK ==
    /\ now \in Time
    /\ roles \subseteq Role
    /\ changes \in 0 .. MaxChanges
    /\ self \in [roles : SUBSET Role, until : 0 .. MaxTime + TTL] \union {Nil}
    /\ config \in Dialog \union {Nil}
    /\ honeypot \in Dialog \union {Nil}
    /\ job \in [Dialog -> Job]
    /\ past \subseteq [at : Time, roles : SUBSET Role]
    /\ lost \subseteq Dialog

Init ==
    /\ now = 0
    /\ roles \in SUBSET Role
    /\ changes = 0
    /\ self = Nil
    /\ config = Nil
    /\ honeypot = Nil
    /\ job = [d \in Dialog |->
                [at |-> "new", sub |-> Malformed, began |-> 0, asked |-> 0,
                 roles |-> {}, logOK |-> FALSE, faulty |-> FALSE, reply |-> "none"]]
    /\ past = {[at |-> now, roles |-> roles]}
    /\ lost = {}

-----------------------------------------------------------------------------
world == <<now, roles, changes, past>>
rows == <<config, honeypot, lost>>

At(d, stage) == job[d].at = stage
Answer(d, r) == job' = [job EXCEPT ![d].at = "replying", ![d].reply = r]

(* The goroutine ends, and what it knew goes with it. *)
Over(j, stage) == [j EXCEPT !.at = stage, !.sub = Malformed, !.began = 0,
                            !.asked = 0, !.roles = {}, !.logOK = FALSE]
Return(d, stage, fault) ==
    job' = [job EXCEPT ![d] = [Over(job[d], stage) EXCEPT !.faulty = job[d].faulty \/ fault]]

Submit(d, s) ==
    /\ At(d, "new")
    /\ job' = [job EXCEPT ![d].at = "deferring", ![d].sub = s, ![d].began = now]
    /\ UNCHANGED <<world, self, rows>>

(* mutant: a malformed submission is returned from without an answer *)
ReadSilently(d) ==
    LET s == job[d].sub
    IN  \/ s = Malformed /\ Return(d, "mute", FALSE)
        \/ s # Malformed /\ job' = [job EXCEPT ![d].at = IF s.log = Nil THEN "honeypot" ELSE "log"]

(* The submission is read; without a log channel none is looked up.        *)
Read(d) ==
    LET s == job[d].sub
    IN  \/ s = Malformed /\ Answer(d, "malformed")
        \/ /\ s # Malformed
           /\ job' = [job EXCEPT ![d].at = IF s.log = Nil THEN "honeypot" ELSE "log"]

DeferCreateMessage(d) ==
    /\ At(d, "deferring")
    /\ \/ Read(d)
       \/ "rest" \in Fault /\ Return(d, "mute", TRUE)
    /\ UNCHANGED <<world, self, rows>>

-----------------------------------------------------------------------------
Granted(R) == UNION {Grants[r] : r \in R}

(* mutant: the administrator's right to ban stands for the bot's *)
ProblemsOfUser(s, logOK, R) ==
    \/ <<s.honeypot, "post">> \notin Granted(R)
    \/ s.bans /\ ~s.may
    \/ s.log # Nil /\ ~logOK

(* validateConfig found problems *)
Problems(s, logOK, R) ==
    \/ <<s.honeypot, "post">> \notin Granted(R)
    \/ s.bans /\ (<<s.honeypot, "ban">> \notin Granted(R) \/ ~s.may)
    \/ s.log # Nil /\ ~logOK

(* What botPermissionsIn returns decides of the log channel first and then *)
(* of the submission.                                                      *)
Learn(d, R, fault) ==
    LET s == job[d].sub
        known == [job[d] EXCEPT !.roles = {}, !.asked = 0, !.faulty = @ \/ fault]
        bad == Problems(s, job[d].logOK, R)
    IN  \/ /\ job[d].at \in {"log", "askLog"}
           /\ job' = [job EXCEPT ![d] =
                [known EXCEPT !.at = "honeypot", !.logOK = <<s.log, "post">> \in Granted(R)]]
        \/ /\ job[d].at \in {"honeypot", "askHoneypot"}
           /\ job' = [job EXCEPT ![d] =
                [known EXCEPT !.at = IF bad THEN "replying" ELSE "saving",
                              !.reply = IF bad THEN "problems" ELSE "none"]]

(* mutant: a member object is kept for good *)
KeptAlive(e) == e # Nil

Alive(e) == e # Nil /\ now <= e.until

(* botPermissionsInChannel: the cached member object, or a request for one *)
(* - answered by Discord now, received later.                              *)
botPermissionsIn(d) ==
    /\ job[d].at \in {"log", "honeypot"}
    /\ \/ Alive(self) /\ Learn(d, self.roles, FALSE)
       \/ /\ ~Alive(self)
          /\ job' = [job EXCEPT ![d].at = IF @ = "log" THEN "askLog" ELSE "askHoneypot",
                                ![d].asked = now, ![d].roles = roles]
    /\ UNCHANGED <<world, self, rows>>

(* The channel is not in the cache of channels. *)
UnknownChannel(d) ==
    /\ "rest" \in Fault
    /\ job[d].at \in {"log", "honeypot"}
    /\ Learn(d, {}, TRUE)
    /\ UNCHANGED <<world, self, rows>>

FreshMember(R) == [roles |-> R, until |-> now + TTL]

GetMember(d) ==
    /\ job[d].at \in {"askLog", "askHoneypot"}
    /\ \/ /\ now <= job[d].asked + Patience
          /\ self' = FreshMember(job[d].roles)
          /\ Learn(d, job[d].roles, FALSE)
       \/ /\ "rest" \in Fault \/ now > job[d].asked + Patience
          /\ Learn(d, {}, TRUE)
          /\ UNCHANGED self
    /\ UNCHANGED <<world, rows>>

-----------------------------------------------------------------------------
(* mutant: two statements, without a transaction around them *)
HalfSaved(d) == config' = d /\ UNCHANGED <<honeypot, lost>>

NotSaved(d) == UNCHANGED rows

Saved(d) == config' = d /\ honeypot' = d

SaveGuildSetup(d) ==
    /\ At(d, "saving")
    /\ \/ Saved(d) /\ UNCHANGED lost /\ job' = [job EXCEPT ![d].at = "warning"]
       \/ "database" \in Fault /\ NotSaved(d) /\ Answer(d, "failed")
       \/ "lost" \in Fault /\ Saved(d) /\ lost' = lost \union {d} /\ Answer(d, "failed")
    /\ UNCHANGED <<world, self>>

(* The rest of the save; the previous warning message, deleted or not,     *)
(* makes no difference to the answer.                                      *)
ensureWarningMessage(d) ==
    /\ At(d, "warning")
    /\ \/ Answer(d, "configured")
       \/ "rest" \in Fault /\ Answer(d, "unposted")
    /\ UNCHANGED <<world, self, rows>>

editDeferredReply(d) ==
    /\ At(d, "replying")
    /\ Return(d, "answered", FALSE)
    /\ UNCHANGED <<world, self, rows>>

EditFails(d) ==
    /\ "rest" \in Fault
    /\ At(d, "replying")
    /\ Return(d, "mute", TRUE)
    /\ UNCHANGED <<world, self, rows>>

-----------------------------------------------------------------------------
Intervene == changes < MaxChanges /\ changes' = changes + 1

(* Somebody gives the bot a role or takes one away. *)
ChangeRole(r) ==
    /\ Intervene
    /\ roles' = IF r \in roles THEN roles \ {r} ELSE roles \union {r}
    /\ past' = past \union {[at |-> now, roles |-> roles']}
    /\ UNCHANGED <<now, self, job, rows>>

Tick ==
    /\ now < MaxTime
    /\ now' = now + 1
    /\ past' = past \union {[at |-> now', roles |-> roles]}
    /\ UNCHANGED <<roles, changes, self, job, rows>>

Ended == {"answered", "mute", "killed"}

Restart ==
    /\ Intervene
    /\ self' = Nil
    /\ job' = [d \in Dialog |->
          IF job[d].at \in Ended \union {"new"} THEN job[d] ELSE Over(job[d], "killed")]
    /\ UNCHANGED <<now, roles, past, rows>>

Idling == now = MaxTime /\ (\A d \in Dialog : job[d].at \in Ended) /\ UNCHANGED vars

Step(d) ==
    \/ DeferCreateMessage(d) \/ botPermissionsIn(d) \/ UnknownChannel(d) \/ GetMember(d)
    \/ SaveGuildSetup(d) \/ ensureWarningMessage(d) \/ editDeferredReply(d) \/ EditFails(d)

Next ==
    \/ \E d \in Dialog :
        Step(d) \/ \E s \in Submission \union {Malformed} : Submit(d, s)
    \/ \E r \in Role : ChangeRole(r)
    \/ Tick \/ Restart \/ Idling

Spec == Init /\ [][Next]_vars

(* The scheduler runs every goroutine, and REST and database calls return. *)
FairSpec == Spec /\ \A d \in Dialog : WF_vars(Step(d))

-----------------------------------------------------------------------------
Needed(s) ==
    {<<s.honeypot, "post">>}
        \union (IF s.bans THEN {<<s.honeypot, "ban">>} ELSE {})
        \union (IF s.log # Nil THEN {<<s.log, "post">>} ELSE {})

(* the roles the bot had since instant t *)
RolesSince(t) == {e.roles : e \in {x \in past : x.at >= t}}

(* no lookup of the dialog can know of roles that were gone before this    *)
Horizon(d) == job[d].began - TTL - Patience

(* Nothing is saved with a permission the bot has been without for longer  *)
(* than the cache of its member object lasts: every one that a dialog      *)
(* about to save needs was there since the lifetime, and the time of a     *)
(* REST call, before it was submitted.                                     *)
SavedOnHeldPermissions ==
    \A d \in Dialog : At(d, "saving") =>
        \A a \in Needed(job[d].sub) : \E R \in RolesSince(Horizon(d)) : a \in Granted(R)

(* A dialog is not told of problems unless there was one: the              *)
(* administrator may not ban, or a lookup failed, or the bot was without a *)
(* permission it needs no longer than that ago.                            *)
RefusedOnLackedPermissions ==
    \A d \in Dialog : At(d, "replying") /\ job[d].reply = "problems" =>
        LET s == job[d].sub
        IN  \/ s.bans /\ ~s.may
            \/ job[d].faulty
            \/ \E R \in RolesSince(Horizon(d)) : ~(Needed(s) \subseteq Granted(R))

(* "No settings have been changed" is true: neither row is that dialog's,  *)
(* unless the database committed it and the answer got lost.               *)
RefusalIsTrue ==
    \A d \in Dialog :
        job[d].reply \in {"malformed", "problems", "failed"} /\ d \notin lost
            => d \notin {config, honeypot}

(* "Every exit path below must edit the deferred reply": a dialog comes to *)
(* its answer, unless a call to Discord fails or the process ends.         *)
EveryDialogIsAnswered ==
    \A d \in Dialog :
        At(d, "deferring") ~>
            \/ At(d, "answered") \/ At(d, "killed")
            \/ At(d, "mute") /\ job[d].faulty

-----------------------------------------------------------------------------
(* What a comment says and the code does not keep: TLC refutes it, see the *)
(* README.                                                                 *)

(* selfMemberTTL: "Staleness only matters after the bot's roles change,    *)
(* and then only mis-words config-validation warnings".  A dialog is       *)
(* refused only if, at some time since it was submitted, it would have     *)
(* been with the roles the bot then had.                                   *)
StalenessOnlyMiswords ==
    \A d \in Dialog : At(d, "replying") /\ job[d].reply = "problems" =>
        LET s == job[d].sub
        IN  \/ s.bans /\ ~s.may
            \/ job[d].faulty
            \/ \E R \in RolesSince(job[d].began) : ~(Needed(s) \subseteq Granted(R))
=============================================================================
