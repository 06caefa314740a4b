# Joe's Honeypot in TLA+

Specifications of the Discord bot in this repository, checked by TLC on small
instances and, where it says so, proved by TLAPS for every instance.

The bot registers one *honeypot* channel per guild. Whoever posts there, or
blasts the same images over several channels, is banned or softbanned (banned
and unbanned again, which deletes the last hour of messages). A warning message
in the honeypot carries a counter of bans. The bot is one process; its gateway
events are dispatched asynchronously, one goroutine per event and no order
between them, and everything hard about it comes from that: goroutines that
share a database, its in-memory mirror, four TTL caches and Discord itself, and
that die together when the process is stopped.

## Inventory

| component | state | operations | interacts with |
|---|---|---|---|
| TTL cache (`internal/cache/ttl.go`) | map of entries with expiry, counter of stores | Set, Get, SetIfAbsent, Update, Delete | used as dedup guard, spam sightings, DM channels, own members |
| Store (`internal/store`) | SQLite tables config, channels, events; mirror of channels | SaveGuildSetup, SetWarningMsg, ClearWarningMsgByMsgID, UnsetLogChannel, RemoveChannel, DeleteGuild, RecordEvent, reads; Open | called by every handler |
| Moderation (`handler_message.go`, `retry.go`, `rules.go`) | dedup guard; a snapshot of the configuration per handler | onMessageCreate, moderate, sendLog, sendAlert, retryTransient | store, Discord's bans, log channel |
| Spam detector (`spam.go`) | sightings per user and fingerprint | checkSpam, recordSpamSighting | dedup guard, moderation |
| Warning message (`warning.go`) | `msg_id` in the store; the messages in the channel | ensureWarningMessage, onMessageDelete | store, Discord; called after a ban, a save, a join, a refresh |
| Deleted channels and guilds (`housekeeping.go`) | none of its own | handleContainerDelete, onMessageDelete, onGuildLeave | store |
| Auto-setup (`setup.go`) | none of its own | onGuildJoin | store, Discord's channels, warning |
| Configuration dialog (`handler_config.go`, `commands.go`) | none of its own | onCommand, onModalSubmit | store, warning |
| Buttons (`handler_buttons.go`) | none of its own | Unban, intro, stale counter | Discord's bans, warning |
| Owner's refresh (`refresh.go`) | none of its own | handleMentionRefresh | store, warning |
| Lifecycle (`bot.go`, `cmd/bot/main.go`) | `Bot.ctx` | New, Start, Close, run | cancels every call of every handler |
| Lookalike, templates, permissions | none | pure functions, cache lookups | setup, messages |

Where behaviour is hard:

- *Concurrency.* A database write and its mirror update are two steps under two
  locks. Handlers work with a configuration read before a wait of up to two
  seconds and up to six REST calls with backoff.
- *Failure.* Discord's calls fail for good, fail for a while, or take effect
  and lose their answer. Inserts fail on foreign keys. Softban is two calls.
- *Ordering.* Messages of one blast, leave and join, deletion and save, arrive
  in any order. The dedup guard expires by time and is deleted by its holder.
- *Shutdown and crash.* `Close` cancels the context in the middle of
  everything and waits for nobody. Tables survive, mirror and caches do not.

What makes each component correct: the cache cannot be told from a map with
instantaneous expiry and does not grow without bound; the mirror is the table,
a guild has one honeypot, foreign keys hold, re-saving loses no history; the
guard is a lock per user, nobody is banned without cause, failures are
reported, moderations end; sightings count only distinct channels within the
window, and once; there is one warning message, recorded, with the right
count; a guild left is forgotten and a guild joined is set up. `PROJECT.json`
lists the hazards line by line with the properties that cover them.

## Modules

| module | models |
|---|---|
| `TTLMap` | abstract specification: a map whose entries vanish when they expire |
| `TTLCache` | `internal/cache/ttl.go`; implements `TTLMap` |
| `Store` | `internal/store`: tables, mirror, goroutines between commit and mirror update |
| `ModerationLock` | abstract specification of the dedup guard: a lock per user with a lifetime |
| `Moderation` | one guild's trigger messages from gateway event to released guard, with `Bot.ctx`, shutdown, restart, configuration changes and channel deletions around them; its guard implements `ModerationLock` |
| `SpamDetector` | `spam.go`: sightings, threshold, guard and consumed trigger under a clock; its guard implements `ModerationLock` |
| `Warning` | `warning.go` and `onMessageDelete`: concurrent calls of `ensureWarningMessage` by all their callers, call by call |
| `GuildLifecycle` | `setup.go`, `housekeeping.go` and the save of the dialog: join, leave, save and deletions of one guild in any order |
| `ConfigDialog` | `handler_config.go`, `validateConfig`, `botPermissionsIn`: a dialog from submission to answer |
| `AutoSetup` | `setup.go`: the @everyone overwrite and the self-deleting introduction |
| `Lookalike` | `lookalike.go`: `obfuscate` and `normalize` |
| `TTLCacheProofs`, `StoreProofs`, `ModerationProofs`, `SpamDetectorProofs`, `SetupProofs`, `GuildLifecycleProofs`, `ConfigDialogProofs`, `WarningProofs` | theorems |
| `MC...` | instances for TLC |

How they compose. `TTLCache` implements `TTLMap`, and the modules that use a
cache (`Moderation`, `SpamDetector`, `ConfigDialog`) use it as such a map: an
entry is here one instant and gone the next. `Moderation` and `SpamDetector`
look at the same guard from its two sides: for the one a message *crosses* or
not, for the other a moderation lasts as long as it lasts. Both implement
`ModerationLock`, which is what each assumes of the other. `Store` takes apart
what `Moderation`, `Warning` and `GuildLifecycle` treat as one: the commit of a
write and its arrival in the mirror. `GuildLifecycle` and `Warning` meet in the
row of a channel, which the one writes whole and the other fills with a
message.

Operators commented as *mutants* are variants of the definition after them,
each with a bug the code could plausibly have. They are not part of any
specification: they are swapped in to see that a property notices.

### TTLCache

Each method holds `c.mu` from start to end, so each is one action; `store` and
`delete` are the helpers the methods share. `m` maps keys to value and expiry,
`stores` counts to `SweepInterval`, `now` is the clock, moved by `Tick`. `out`
is what the call returned (for `Update`: what its callback saw). `kept` and
`sweptAt` are history variables of the sweep. An entry is live at its
`expiresAt` and dead after it, as `time.After` has it.

### Store

`config`, `rows`, `events` are the tables: a configuration per guild or
`NoRow`; a message id, `Nil` (NULL) or `NoRow` per channel; the number of event
rows per guild, which is all the code asks of them. `mirror` is
`Store.channels`. The pool has one connection, so a statement or transaction is
atomic. A write is `Commit`, which leaves the goroutine `pending` with the
mirror update it owes, then `UpdateMirror`. `ClearWarningMsgByMsgID` has a third
step, its look at the mirror. `Reopen` is the end of the process at any moment
followed by `Open`. The history variable `raced` collects guilds for which a
write committed while another was still to be mirrored. A channel's guild is a
constant (`Owner`) and so is a message's channel (`Home`): Discord moves
neither. A call that fails changes nothing and is no step. `SetChannel` and
`UpsertConfig` are exported but have no caller besides the tests; they are
modelled like the others.

### Moderation

`job[m]` is the goroutine of message `m`: the stage it has reached, the kind of
trigger, its configuration snapshot, the failed attempts of the call under way,
what its last message to moderators was about, whether `AddBan` returned
success, whether the event was inserted, what became of the last alert. One
step is one access to shared state:

    new -> lookedUp -> eligible -> dm -> [dmOver] -> ban -> [unban] -> event
        -> send -> [unset] -> [fallback] -> end -> done

`ignored` are messages that lead to nothing; `killed` handlers died with the
process. `retryTransient` is the retry loop: a cancelled context looks like a
network failure to `isTransientRestError`, so a stopping bot goes through its
attempts too. `bannedBy[u]` is Discord's ban list with the message whose ban
last took effect. `removal[c]` follows a deleted channel from Discord to
`handleContainerDelete`. `phase` is up, stopping (`Bot.ctx` cancelled), down.
`Crossing` holds the messages for which the spam detector reaches its
threshold, whatever the sightings were.

`Holders` (who has the guard) and `Outlived` (users of whom more than one does,
or one without an entry) map this state to `ModerationLock`. There a handler
takes the guard of a user only while the entry is absent, its release removes
the entry whosever it is, and a step of the clock may remove any entry.

Outside the model: the warning refresh after a moderation (`Warning`), the honey
reaction, the exempt user's DM, failures of SQLite other than a cancelled
context and a foreign key. The existence of the channels that `validateConfig`
establishes by the permissions in the gateway cache is taken at the instant of
the save. Exemption is taken as a fact about the user (`Exempt`).

### SpamDetector

Every message with attachments has a goroutine, `job[m]`:

    new -> tracked -> counted                              below the threshold
                   -> crossed -> owning -> punishing|passing -> punished|passed

`GetConfig` is `checkSpam` up to `spamEligible`; `recordSpamSighting` the
`Update` of the cache, whose callback adds a channel under the cache's mutex and
whose lifetime starts anew; `SetIfAbsent`, `ConsumeTrigger` and `Finish` the
guard, the deletion of the sightings under it, and the deferred `Delete`.
`sightings` holds per user and fingerprint a set of channels with its expiry,
`dedup` per user the expiry of the entry. `Tick` is the clock and drops what
died. The histories `seenAt` and `spent` (when a message was counted, whether
its sighting was consumed) let `Fresh` say what the cache *ought* to hold
without looking at it; `tookAt`, `endedAt`, `late` do so for the guard. A
fingerprint is equal to another or not: neither hash nor attachments are
modelled. Messages in the honeypot compete for the same guard in `Moderation`.

### Warning

A goroutine `p` is in a caller (`RecordEvent` then the lookup, `Refresh`,
`Submit` then the save and the deletion of the old message) or in
`ensureWarningMessage`:

    lookup -> count -> update -> list -> adopt -> record -> clean -> ok
                                      -> create -> store -> ok

and out of it from wherever it fails. A call during which nobody else changed
anything (`solo`) is remembered as `ok` or `err` until the next change. Each arrow is one REST or database call, and calls of
several goroutines interleave. `posts` are Discord's messages: the bot's or
not, with the warning's first line or not, the number they show, who deleted
them. Ids are ordered by time. A call fails, or takes effect and loses its
answer (`Fault`); `deletions` are MESSAGE_DELETE events not yet handled, lost by
a restart.

### GuildLifecycle

`member`, `channels` and `deleted` are Discord's; `config` and `honeypot` the
guild's rows. A slot `p` of `job` is a handler of a join, a leave, a save or a
deletion, at the REST or database call it makes next. Events begin in Discord's
order and are handled in any. `Fails` is the error return of each of those calls
(the look at the mirror has none), `CreateGuildChannel` also leaves a channel
behind whose answer is lost, `Restart` kills all handlers, and `Unseen` is a
join, leave or deletion while the process is down: the gateway does not tell of
it afterwards. A write of the store whose answer is lost needs no step of its
own: every handler returns after its write, whatever the answer.

Histories say what a property does not promise. `mixed` is about the latest join,
leave or save alone: it overlapped another, failed, was killed or unseen. It is
FALSE again with the next one that starts by itself, so `MembershipSettles` and
`ChoiceSurvivesJoin` say that whatever went wrong, one undisturbed event repairs
it. `missed` are the deleted channels a handler was about to save, or whose
deletion was not seen or not seen through; `twofold` those chosen as honeypot and
log channel at once; `gaveUp` (anything failed, was killed or unseen) serves only
the properties that are refuted.

### ConfigDialog

`job[d]` is the handler of dialog `d`; it defers the answer, asks for the bot's
permissions in the log channel and then in the honeypot (from the cached member
object, or by `GetMember`, whose answer is formed at one instant and stored
later), saves in one transaction, refreshes the warning, edits the deferred
answer. `self` is `Bot.selfMembers`, `roles` what Discord knows. `past` is a
history of the bot's roles, so that properties can speak of *when* a permission
was there.

### AutoSetup

The handler lists the channels (`seen` is the overwrite of that moment), looks
whether @everyone lacks something, whether the bot may edit overwrites, and
replaces the overwrite by one made from what it saw. People edit the guild's
default, the overwrite and the bot's roles meanwhile. `timer` is the goroutine
that deletes the introduction. Every request may fail, or take effect and lose
its answer; in the one that posts the introduction the handler then returns
before it starts the goroutine, and the message is there without one. `failed`
remembers which calls came back with an error, and a stop that caught the
goroutine waiting. "aborted" is a handler that returned early or was stopped.

### Lookalike

A run takes one word: `obfuscate` chooses for each rune a lookalike or the rune
itself, one step per rune; `normalize` undoes it. The table is a constant; the
instance checks the code's own, as far as TLC has it as a constant. Its
specification is `NameSpec`, so that `SetupProofs` can extend it and `AutoSetup`.

## Runs

| run | instance | shows |
|---|---|---|
| `ttlcache` | 3 keys, 2 values, lifetimes 0 and 1, clock to 3, sweep every 3 stores | types, bounded garbage, refinement of `TTLMap` |
| `store` | 2 goroutines, 2 guilds (one with 2 channels), 3 messages, 1 event per guild | one honeypot per guild, foreign keys, mirror follows table, history survives |
| `store_overlap` | as above | `MirrorIsWriteThrough` fails |
| `moderation` | 3 messages: a user's into the honeypot, the same user's crossing spam message, an administrator's; 2 channels, 3 configurations, all faults, 2 attempts, 1 intervention | guard is a lock, trouble is reported, bans are earned |
| `moderation_ends` | one user's two messages, 3 attempts, guards that expire under their handlers, all faults, 1 intervention | every moderation ends; the handlers' guard is `ModerationLock` |
| `spam` | a user's blast over three channels beside an exempt user's two posts of the same images; threshold 2, window of one tick, guard entries that expire within one, clock to 2, one toggle or restart | the cache holds what the window says; nobody is moderated on less than the threshold; no blast slips through; the guard is `ModerationLock` and exclusive unless outlived |
| `warning` | two calls, two channels, three posts, listings of two, a ban, a fault, two interventions | a call alone repairs; cleaning up leaves one; only the bot's own warnings are recorded, adopted, deleted, each in its channel |
| `warning_catches_up` | two calls, one channel, four posts, listings of three, a ban, a fault, one intervention, under fairness | refreshes that keep coming get there |
| `guild` | three handlers at a time, three channels, six events, failing calls, restarts, unseen events | a change that runs alone settles the guild, the deleted is forgotten, nothing else is |
| `dialog` | two dialogs, two roles, three kinds of submission and malformed ones, cached member for one tick, clock to 2, one change of roles or restart, all faults, under fairness | saved and refused on permissions no older than the cache; a refusal changed nothing; every deferred dialog is answered |
| `autosetup` | every default and overwrite over three permissions, two edits, all faults, under fairness | the fix gives what is needed and nothing else; the introduction goes unless a call about it failed or the bot stopped |
| `lookalike` | every word of up to three runes | `normalize` undoes `obfuscate`, which disguises |

Bounds. `MaxTime`, `MaxEvents`, `MaxPosts`, `MaxBans`, `MaxFaults`,
`MaxChanges` and `MaxLength` are the only sizes capped; each bounds the
environment or the input. In the cache, lifetimes 0 and 1 under a clock to 3 let
an entry be renewed, expire unseen, be swept and return; three stores per sweep
let the sweep meet live and dead entries. Two goroutines are the smallest number
that overlap, and a write touches one guild only, so a second guild is there to
show locality. Two channels are what moving a honeypot takes. `MaxChanges`
counts what others do while messages are handled (save, leave, delete, unban by
a moderator, shutdown, crash): one is enough for every single interference with
every stage. Two attempts have a first, retried failure and a last one; the
liveness run has the code's three. In `spam` the threshold is 2 instead of the
code's 3, so that a blast of three channels crosses it twice: the second message
crosses, and the third meets the guard, the consumed trigger or a lapsed window;
a window of one tick under a clock to 2 lets sightings be refreshed, lapse and
begin again, and a `Hold` of no tick lets the guard expire before, at and after
its release. `dialog` takes a tick to be longer than a REST call (`Patience` 0),
and the lifetime of the cached member is one of them: an answer, a change of
roles and the end of the lifetime fall on either side of each other. Three posts
are a recorded warning, a duplicate and somebody's copy; listings shorter than
the channel let a warning be out of their reach. Six events make a guild's whole history
(join, save, deletion, leave, join) and one more that repairs or disturbs it, three at a time the largest overlap of
different kinds. `MaxPosts` can leave a call of `ensureWarningMessage` before
its post; `Full` is that end of the instance. Symmetry is used in the runs
`store`, `store_overlap`, `warning` and `guild`, for goroutines, and never where liveness is
checked.

Deadlock is checked in every run. `Idling` is the stuttering of a bot with
nothing left to do, enabled only when every message has been dealt with.

### Fairness

`FairSpec` asks weak fairness of each handler's own steps: a runnable goroutine
runs, and a REST or database call returns some time with one of its outcomes.
Nothing is assumed of gateway events, of DMs (`dmUserReturns` has no fairness: a
DM may hang for ever), of administrators, of restarts. While the process is
down no handler is left whose steps could be enabled.
`retryTransient`'s outcomes are chosen freely, so termination does not rest on
a call ever succeeding.

`ConfigDialog` and `AutoSetup` ask the same of their handlers, and of the timer
of the introduction; role changes, edits and restarts are free.
`EveryDialogIsAnswered` therefore says that no path returns without an answer,
not that Discord takes it.

`Warning` asks it of the calls under way and of the events of deletions. One
assumption is about the environment: some goroutine is again and again given a
refresh (`SF` of `Refresh`), as every ban, click and request of the owner gives
one. Without it `CatchesUp` is false, which is what `CounterIsCurrent` (below) shows: a
label that is behind waits for the next occasion.

### What the code does otherwise than it says

The first is a run. The others are stated at the end of their modules, under
"What comments and documents say and the code does not keep"; putting the
definition in the place of the properties of the configuration in brackets makes
TLC print the behaviour described. They are observations about the code, none of
the properties that hold rests on them.

1. `MirrorIsWriteThrough` (`store.go:27`, `queries.go:110`; run
   `store_overlap`). Two writes to a guild commit in one order and reach the
   mirror in the other. With no call under way the mirror then lacks the
   honeypot the table has, and the lookup whose "miss is authoritative" passes
   over its messages until a restart. `MirrorTracksTable` is what does hold: no
   overlap, no divergence.
2. `OnlyDeadLogIsUnset` (`handler_message.go:188`) [`moderation` with `TwoLogs`
   as `Settings`]. A handler with an old snapshot cannot write to its log channel
   and unsets, by guild, the one chosen meanwhile.
3. `BansAreCounted` (`README.md:11-12`) [`moderation`]. A honeypot moved between
   lookup and insert makes the event's foreign key fail; the ban is missing from
   the counter.
4. `AlertsArrive` (`handler_message.go:212`) [`moderation`]. Shutdown between ban
   and unban: the user stays banned, and alert and fallback are cancelled with
   the rest.
5. `BlastBansOnce` (spam detector design, line 67) [`moderation`]. The thirty
   seconds of the guard are an upper bound; its holder deletes it on return, on
   purpose ("allow re-punishing a rejoining user"), and a straggler of the same
   blast is then punished again.
6. `ReoffenceIsFresh` (`spam.go:107`) [`spam`]. A message is counted before the
   guard is asked; if its sighting is consumed meanwhile, it still takes the
   guard when the first handler is done, on no fresh sighting.
7. `SecondChannelIsPunished` (`README.md:19`) [`spam` with the code's `Threshold`
   of 3]. "A second channel within 30 minutes": the code has three channels and
   fifteen seconds.
8. `NoSecondWarning` (`warning.go:43`) [`warning`]. Two calls that find no
   warning post one each. The next call that lists adopts one and deletes the
   other.
9. `CounterIsCurrent` (`README.md:11-12`) [`warning`]. Count before edit: two
   refreshes write in the opposite order, and the smaller number stays. A
   refresh that fails leaves it as well.
10. `RepostedOnlyIfGone` (`warning.go:38`) [`warning` with `MaxFaults` 2]. Any
    failure of the update is taken for a deleted message; with the listing
    failing too a second warning is posted beside the recorded one.
11. `JoinedIsSetUp` (`README.md:10`) [`guild`]. A leave handled after the next
    join purges the new setup.
12. `LiveLogStays` (`housekeeping.go:19`) [`guild`]. Between the comparison and
    the unset an administrator chooses another log channel, and loses it.
13. `NoGoneHoneypot` (`housekeeping.go:20`) [`guild`]. A channel deleted while it
    is being saved is registered after its deletion was handled.
14. `NoGoneLog` (`housekeeping.go:20-21`) [`guild`]. A channel that was honeypot
    and log channel is only deregistered.
15. `StalenessOnlyMiswords` (`helpers.go:13`) [`dialog`]. A dialog is *refused*
    on the cached member object after the missing role was given.
16. `EveryoneCanPost` (`setup.go:94`) [`autosetup`]. An @everyone overwrite that
    denies nothing keeps the guild's default from being looked at.
17. `NilMeansUpdated` (`warning.go:18-19`) [`warning`]. A failed update
    of a message it adopts does not keep `ensureWarningMessage` from returning
    nil, "confirmed posted or updated".
18. `IntroIsSelfDeleting` (`setup.go:17-18`) [`autosetup`]. The introduction
    is posted, its answer lost, and the goroutine that would delete it never
    started.

What holds in their place: `MembershipSettles` and `ChoiceSurvivesJoin` say that
11 takes an overlap and lasts until a join, leave or save runs alone,
`GoneIsDeregistered` that 13 and 14 are the only ways beside a lost or failed
event, `IntroGoes` that 18 is the only one beside a failed deletion and a stop;
`SoloCallRepairs` and `CatchesUp` say what a refresh does for 8 to 10 and 17,
`EvidenceSuffices` and `ExclusiveUnlessLate` what bounds 6, and
`SavedOnHeldPermissions` and `RefusedOnLackedPermissions` how stale 15 can be.
Two losses are nobody's promise and stated nowhere as a property of their own: a
join's defaults over the save of a dialog it overlaps, and people's edit of an
overwrite between its listing and its replacement.

## Proofs

Assumptions are those on the constants (`CacheAssumption`, `StoreAssumption`,
`IdleAssumption`, `ModerationAssumption`, `SpamAssumption`, `LookalikeAssumption`,
`TableAssumption`, `SetupAssumption`, `NoneAssumption`, `LifecycleAssumption`,
`NoConfigAssumption`, `DialogAssumption`, `WarningAssumption`); TLC evaluates
them in the runs. They fix the shape of the parameters and nothing of the
behaviour, but for `TableAssumption`, which the code's table satisfies.

`TTLCacheProofs`
- `TypeCorrect`, `GarbageIsBounded`: inductive together with the finiteness of
  the map's domain, on which the cardinality bound rests. A step of the cache is
  a store, a deletion, a read or the clock (`Calls`); the bound follows from the
  first three and the clock touches nothing it speaks of.
- `Implements`: the refinement. `LiveView`, the map without what has expired,
  makes the step of `TTLMap` that the call makes: storing with or without a
  sweep is `Put`, evicting a dead entry is a stutter, the clock drops what dies.

`StoreProofs`
- `TypeCorrect`: `TypeOK` is inductive. It includes that messages are recorded
  only in the row of their own channel, also in updates still pending.
- `OneHoneypot`: a guild's two rows would have to come from `setChannelTx` or
  `applyChannelSwap`, both of which leave at most the row of their channel; all
  other operators only take rows away or change messages. Inductive over types.
- `KeysHold`: inductive over types. Rows appear only with a configuration in
  the same transaction or behind the foreign key, and configurations disappear
  only with the cascade.
- `MirrorFollows`: `MirrorTracksTable` is inductive over types because it says
  of the one pending write of an unraced guild that mirroring it *will* yield
  the table. A commit on such a guild finds the mirror equal to the table and
  establishes this by the commuting of each SQL operator with its mirror
  operator; a second commit puts the guild into `raced`. The lemmas state that
  commuting, and that every operator leaves other guilds alone.
- `HistoryKept`: a step that changes a configuration and leaves it one is a
  save, whose `setChannelTx` keeps the row that stays, or touches no row.

`ModerationProofs`
- `TypeCorrect`: inductive; in particular a call is never tried more than
  `Attempts` times.
- `GuardCorrect`: `GuardIsLock` is inductive over types. Only `SetIfAbsent`
  makes an owner, and only where nobody of that author is one; only `Finish`
  and the end of the process unmake one.
- `ReportCorrect`, `EarnedCorrect`: neither property is inductive. `HandlerInv`
  says what is known of a handler at each stage: from `dm` to `event` its
  snapshot bans and its author may be banned (`Armed`), what it posts tells
  which call failed, and from `event` on a softban whose ban stands has been
  alerted. `OneHandler` reduces a handler's step to that handler, since another message
  gains nothing from a change of the ban list that is not its own.

- `LockImplemented`: every step is one of `ModerationLock` or a stutter. The
  classification of steps (`LockMoves`: nobody's guard moves, one handler takes
  or releases it, an entry expires, all vanish) does the work, with the
  invariant that an entry always has a holder, without which a release could
  take an entry nobody holds.
- `HandlersRunOut`: `Ahead` counts what a handler may still have to do, a stage
  at a time and within a stage the attempts left. Each of its steps takes one
  away (`HandlerNearer`, `RetryNearer`), nobody's adds one
  (`OthersSetNobodyBack`), so it ends within 2 * `Attempts` + 13 steps.

`SpamDetectorProofs`
- `TypeCorrect`: inductive with `KeysInv`, only messages with enough attachments
  get as far as a key.
- `ExclusiveCorrect`, `LockImplemented`: by `GuardInv`. As long as no handler
  of a user outlived its entry the entry is that handler's own, to the tick of
  its expiry, and there is no second; every entry has a holder.
- `SightingsCorrect`: the set in the cache against the definition of the sliding
  window over all past posts. Inductive as `SightingInv`: next to the equality
  it says that a live entry expires one window after the latest post that
  counts (`LatestOf`). The lemmas on `Steady` say how the window moves: another
  post does not matter for the time before it, and one tick more is bridged
  exactly if the latest post is young enough - which is what the expiry says.
- `EvidenceCorrect`: when the threshold is crossed the channels in the cache are,
  by `SightingInv`, those of posts with no gap (`RecentIsEvidence`); afterwards
  evidence only grows (`EvidenceGrows`), whatever is consumed or forgotten.
- `BlastCorrect`: inductive with "no expiry is further off than a window": who
  releases the guard now has outlasted every sighting there is, and who finds
  the guard taken finds, by `GuardInv`, a handler that has it.

`SetupProofs`, on what `onGuildJoin` makes of the channel
- `NameTypeCorrect`, `OnlyLookalikesAlways`, `Disguised` and `Undone`, of `Lookalike`:
  for every table of runes. They follow from one invariant of the loop, that
  each rune written so far is a lookalike of the one it stands for, and from
  what the assumption says of the table: no rune is a lookalike of two.
- `TypeCorrect`, of `AutoSetup`: inductive. `DenialLifted`: inductive with
  `ListingIsCurrent`, that what the handler has seen is what there is as long as
  nobody edited the channel. `FixIsMinimal`: from that and the types. What is
  needed is given even where people edited the channel in between.
- `IntroIsTended`: by `IntroInv`, nothing is posted before the last step of the
  handler, and what is posted comes with its goroutine or with an error.

`GuildLifecycleProofs`
- `TypeCorrect`: inductive with what belongs together in a handler (`Handler`).
- `OnlyGoneRemoved`: by `DeletedInv`, a handler of a deletion names a channel
  that is gone, and no channel comes back.
- `MembershipIsSettled`, `ChoiceSurvives`: neither is inductive. `MemberInv`
  says what a join, leave or save that runs alone knows of the guild at each
  stage: whether the bot is a member and, past its look, that a join found no
  configuration and nobody has made one since. Nothing is asked of what was
  before it began, so one such event settles a guild in any state. Steps that
  neither begin nor end one of them well (`Aside`) leave this as it is, among
  them all steps of deletions and all failures.
- `GoneDeregistered`: by `GoneInv`. As long as a channel that is gone is
  registered, a handler that has still to look at it is after it, and nobody is
  about to save it. A handler of a deletion that fails or is killed leaves the
  invariant by putting its channel among the `missed`, no other. The one place where this would break, a handler that goes to
  `remove` and never compares the log channel, is the channel chosen twice
  (`TwofoldInv`).

`ConfigDialogProofs`
- `TypeCorrect`: inductive.
- `RefusalsAreTrue`: by `RefusalInv`, a dialog that has not yet got to its save
  is in neither row, and one that is has no refusal for an answer.
- `SavedIfHeld`, `RefusedIfLacked`: by `MemoryInv`, in three parts. The roles of
  this moment are in the history (`PastInv`); the cached member's roles were the
  bot's at a time from which its expiry is no further off than lifetime and
  request (`SelfInv`); what a dialog looked up was so at a time after its
  horizon, permission by permission (`LookingInv`). The history only grows, so
  every step leaves alone what was held or lacked (`PastStays`).
- `DialogsRunOut`: at most nine stages, each further on than the last, whatever
  others do. `AnswerInv` says that only a failed call lets a dialog end unanswered.

`WarningProofs`
- `TypeCorrect`: inductive with `OldKnown`, a call that is to delete the
  previous honeypot's message has one.
- `OnlyOwn`: not inductive. `OwnInv` says the same of every id a call holds: the
  message to adopt, to record, its duplicates, the previous honeypot's message.
  Whether a message is the bot's own warning in a channel never changes
  (`OwnGrows`), so ids learnt long ago stay sound.
- `OneWarningStays`: by `EldestInv`, the eldest of the bot's warnings in a
  channel in which nobody else deletes is there. Each duplicate has an elder
  (`ExtrasSound`), even if the call has seen but a page of the channel, so the
  eldest of all is no call's duplicate; new posts are younger.
- `SoloRepairs`: `SoloInv` says what a lone call knows at each stage. Whatever
  others can see ends its solitude (`SoloUndisturbed`), so it is proved for the
  steps of that call only.
- `CallsRunOut`: `Ahead` counts the steps a call has left, one for each duplicate
  still to delete. A listing has at most a page of them (`ListingIsShort`), and
  none is added later; a call that cleans up has one left.

Each step of these calls is first reduced to what becomes of the job and of the
posts (`UpdateRecordedIs`, ..., `PostsDo`, `RowsDo`, `JobsDo`); the invariants
are proved from these and not from the actions again.

Model-checked only: the liveness properties `EveryModerationEnds`, `CatchesUp`,
`EveryDialogIsAnswered` and `IntroGoes`, which are beyond this prover. What it
can say of them, `HandlersRunOut`, `CallsRunOut`, `DialogsRunOut` and
`IntroIsTended` do: none of these goroutines can go on for ever, and how they
end. What remains for TLC is that an unfinished one is always able to take a
step, and that by fairness it does. Every other property of every passing
run is proved.

## Plan

The parts of the program with a state of their own are modelled and their
safety is proved. What is left: `Warning` over `Store`'s commit and mirror
steps, where a lookup may miss a row that is in the table.

## Not modelled

Message texts and layout (`templates.go`), slash command definitions and the
dialog that `onCommand` shows, interaction replies other than a dialog's, the
24 h limit of the Unban button, permission computation (disgo's), the honey
reaction, logging, start-up, container and migrations other than by the schema
they leave. They keep no state that the properties above depend on.

The owner's refresh is `Warning`'s `Refresh` per guild; its loop over guilds and
the number it reports are not modelled. The fingerprint is an identity: that two
sets of attachments have one fingerprint exactly if they have the same files is
the code's intent and a matter of data, not of control. That `DeleteBan` of a
softban also lifts a ban a moderator made by hand in between needs a ban's
origin, which Discord does not keep. A database write that committed but
returned an error appears in `ConfigDialog` only, where the answer depends on
it.
