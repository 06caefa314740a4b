-------------------------------- MODULE Store --------------------------------
(***************************************************************************)
(* internal/store: the SQLite tables and the in-memory mirror of           *)
(* honeypot_channels that serves every channel read.                       *)
(*                                                                         *)
(* The pool holds one connection (SetMaxOpenConns(1)), so a statement or a *)
(* transaction is atomic and writes are serialised by the database.  The   *)
(* mirror is updated afterwards, under Store.mu, in a second step: between *)
(* the two the caller is in `pending'.  Callers are the event goroutines   *)
(* of the bot.  A call that fails (cancelled context, I/O error, foreign   *)
(* key) leaves everything as it was and is not a step of the model.        *)
(*                                                                         *)
(* The guild_id column is a function of the channel (Owner): Discord never *)
(* moves a channel between guilds and both callers of SaveGuildSetup pass  *)
(* a channel of the guild at hand.                                         *)
(***************************************************************************)
EXTENDS Integers

CONSTANTS
    Proc,           \* goroutines calling the store
    Guild, Channel, Msg,
    Owner,          \* the guild of each channel
    Home,           \* the channel of each message
    LogChannel, Action,
    Nil,            \* SQL NULL
    NoRow,          \* no row with this key
    Idle,           \* no call under way
    MaxEvents       \* bound on the events recorded per guild

ASSUME StoreAssumption ==
    /\ Owner \in [Channel -> Guild]
    /\ Home \in [Msg -> Channel]
    /\ Nil \notin Msg \union LogChannel
    /\ NoRow \notin Msg \union {Nil}
    /\ NoRow \notin [log : LogChannel \union {Nil}, action : Action]
    /\ MaxEvents \in Nat

VARIABLES
    config,     \* honeypot_config: guild -> settings or NoRow
    rows,       \* honeypot_channels: channel -> msg_id (or NULL) or NoRow
    events,     \* honeypot_events: the number of rows of each guild
    mirror,     \* Store.channels, same shape as rows
    pending,    \* per goroutine: the write whose mirror update is still due
    raced       \* history: guilds where two writes overlapped since Open

vars == <<config, rows, events, mirror, pending, raced>>
tables == <<config, rows, events>>

Settings == [log : LogChannel \union {Nil}, action : Action]
Table == [Channel -> Msg \union {Nil, NoRow}]

Swap(g, c) == [op |-> "swap", guild |-> g, channel |-> c]
MsgSet(c, v) == [op |-> "msg", channel |-> c, msg |-> v]
Clearing(v) == [op |-> "clearing", msg |-> v]
Cleared(v) == [op |-> "cleared", msg |-> v]
Removal(c) == [op |-> "remove", channel |-> c]
Purge(g) == [op |-> "purge", guild |-> g]

Call ==
    {Swap(Owner[c], c) : c \in Channel}
    \union {MsgSet(c, v) : c \in Channel, v \in Msg \union {Nil}}
    \union {Clearing(v) : v \in Msg} \union {Cleared(v) : v \in Msg}
    \union {Removal(c) : c \in Channel} \union {Purge(g) : g \in Guild}

ASSUME IdleAssumption == Idle \notin Call

(* A warning message is recorded only in the row of the channel it is in. *)
AtHome(t) == \A c \in Channel : t[c] \in Msg => Home[t[c]] = c

TypeOK ==
    /\ config \in [Guild -> Settings \union {NoRow}]
    /\ rows \in Table /\ AtHome(rows)
    /\ events \in [Guild -> Nat]
    /\ mirror \in Table /\ AtHome(mirror)
    /\ pending \in [Proc -> Call \union {Idle}]
    /\ \A p \in Proc : \A c \in Channel : \A v \in Msg :
        pending[p] = MsgSet(c, v) => Home[v] = c
    /\ raced \subseteq Guild

-----------------------------------------------------------------------------
(* SQL on honeypot_channels *)

(* mutants: the guild's other row is left; INSERT OR REPLACE forgets msg_id *)
insertChannelOnly(g, c) == [rows EXCEPT ![c] = IF @ = NoRow THEN Nil ELSE @]
replaceChannelTx(g, c) ==
    [d \in Channel |-> IF d = c THEN Nil ELSE IF Owner[d] = g THEN NoRow ELSE rows[d]]

setChannelTx(g, c) ==
    [d \in Channel |-> IF d = c /\ rows[d] = NoRow THEN Nil
                       ELSE IF Owner[d] = g /\ d # c THEN NoRow ELSE rows[d]]

(* mutant: WHERE guild_id instead of WHERE channel_id *)
UpdateMsgOfGuild(c, v) ==
    [d \in Channel |-> IF Owner[d] = Owner[c] /\ rows[d] # NoRow THEN v ELSE rows[d]]

UpdateMsg(c, v) == [rows EXCEPT ![c] = IF @ = NoRow THEN NoRow ELSE v]
UpdateMsgToNull(v) == [d \in Channel |-> IF rows[d] = v THEN Nil ELSE rows[d]]
DeleteRow(c) == [rows EXCEPT ![c] = NoRow]

(* mutant: PRAGMA foreign_keys is off, nothing cascades *)
NoCascade(g) == rows

CascadeGuild(g) == [d \in Channel |-> IF Owner[d] = g THEN NoRow ELSE rows[d]]

(* the matching updates of the map t that is Store.channels *)

applyChannelSwap(t, g, c) ==
    LET kept == [d \in Channel |-> IF Owner[d] = g /\ d # c THEN NoRow ELSE t[d]]
    IN  [kept EXCEPT ![c] = IF @ = NoRow THEN Nil ELSE @]
MirrorMsg(t, c, v) == [t EXCEPT ![c] = IF @ = NoRow THEN @ ELSE v]
MirrorMsgToNil(t, v) == [d \in Channel |-> IF t[d] = v THEN Nil ELSE t[d]]
MirrorDelete(t, c) == [t EXCEPT ![c] = NoRow]

(* mutant: the guild is not swept from the mirror *)
NoSweep(t, g) == t

MirrorSweep(t, g) == [d \in Channel |-> IF Owner[d] = g THEN NoRow ELSE t[d]]

Mirrored(o, t) ==
    CASE o.op = "swap" -> applyChannelSwap(t, o.guild, o.channel)
      [] o.op = "msg" -> MirrorMsg(t, o.channel, o.msg)
      [] o.op = "cleared" -> MirrorMsgToNil(t, o.msg)
      [] o.op = "remove" -> MirrorDelete(t, o.channel)
      [] o.op = "purge" -> MirrorSweep(t, o.guild)

(* the guild whose rows a committed write may have changed *)
Touches(o, g) ==
    \/ o # Idle /\ o.op \in {"swap", "purge"} /\ o.guild = g
    \/ o # Idle /\ o.op \in {"msg", "remove"} /\ Owner[o.channel] = g
    \/ o # Idle /\ o.op = "cleared" /\ Owner[Home[o.msg]] = g

Unapplied(g) == {p \in Proc : Touches(pending[p], g)}

-----------------------------------------------------------------------------
Init ==
    /\ config = [g \in Guild |-> NoRow]
    /\ rows = [c \in Channel |-> NoRow]
    /\ events = [g \in Guild |-> 0]
    /\ mirror = rows
    /\ pending = [p \in Proc |-> Idle]
    /\ raced = {}

(* The database has accepted the write o of goroutine p, on guild g. *)
Commit(p, g, o) ==
    /\ pending' = [pending EXCEPT ![p] = o]
    /\ raced' = IF Unapplied(g) = {} THEN raced ELSE raced \union {g}
    /\ UNCHANGED mirror

(* One transaction: the config row first, the channel row's key needs it. *)
SaveGuildSetup(p, c, s) ==
    /\ pending[p] = Idle
    /\ config' = [config EXCEPT ![Owner[c]] = s]
    /\ rows' = setChannelTx(Owner[c], c)
    /\ UNCHANGED events
    /\ Commit(p, Owner[c], Swap(Owner[c], c))

SetChannel(p, c) ==
    /\ pending[p] = Idle
    /\ config[Owner[c]] # NoRow             \* foreign key
    /\ rows' = setChannelTx(Owner[c], c)
    /\ UNCHANGED <<config, events>>
    /\ Commit(p, Owner[c], Swap(Owner[c], c))

(* An UPDATE that matches no row succeeds all the same. *)
SetWarningMsg(p, c, v) ==
    /\ pending[p] = Idle
    /\ v \in Msg => Home[v] = c
    /\ rows' = UpdateMsg(c, v)
    /\ UNCHANGED <<config, events>>
    /\ Commit(p, Owner[c], MsgSet(c, v))

(* ClearWarningMsgByMsgID: the mirror decides whether the message is known, *)
(* and only then the table is written.                                      *)
CheckKnown(p, v) ==
    /\ pending[p] = Idle
    /\ \E c \in Channel : mirror[c] = v
    /\ pending' = [pending EXCEPT ![p] = Clearing(v)]
    /\ UNCHANGED <<tables, mirror, raced>>

ClearWarningMsg(p, v) ==
    /\ pending[p] = Clearing(v)
    /\ rows' = UpdateMsgToNull(v)
    /\ UNCHANGED <<config, events>>
    /\ Commit(p, Owner[Home[v]], Cleared(v))

ClearFails(p, v) ==
    /\ pending[p] = Clearing(v)
    /\ pending' = [pending EXCEPT ![p] = Idle]
    /\ UNCHANGED <<tables, mirror, raced>>

(* ON DELETE SET NULL: the events of the channel stay and still count. *)
RemoveChannel(p, c) ==
    /\ pending[p] = Idle
    /\ rows' = DeleteRow(c)
    /\ UNCHANGED <<config, events>>
    /\ Commit(p, Owner[c], Removal(c))

(* ON DELETE CASCADE takes the guild's channel row and its events along. *)
DeleteGuild(p, g) ==
    /\ pending[p] = Idle
    /\ config' = [config EXCEPT ![g] = NoRow]
    /\ rows' = CascadeGuild(g)
    /\ events' = [events EXCEPT ![g] = 0]
    /\ Commit(p, g, Purge(g))

(* The second half of every write above, under Store.mu. *)
UpdateMirror(p) ==
    /\ \E g \in Guild : p \in Unapplied(g)
    /\ mirror' = Mirrored(pending[p], mirror)
    /\ pending' = [pending EXCEPT ![p] = Idle]
    /\ UNCHANGED <<tables, raced>>

UpsertConfig(g, s) ==
    /\ config' = [config EXCEPT ![g] = s]
    /\ UNCHANGED <<rows, events, mirror, pending, raced>>

UnsetLogChannel(g) ==
    /\ config[g] # NoRow
    /\ config' = [config EXCEPT ![g].log = Nil]
    /\ UNCHANGED <<rows, events, mirror, pending, raced>>

(* Both foreign keys must hold: the guild's and, when given, the channel's. *)
RecordEvent(g, c) ==
    /\ events[g] < MaxEvents
    /\ config[g] # NoRow
    /\ c # Nil => rows[c] # NoRow
    /\ events' = [events EXCEPT ![g] = @ + 1]
    /\ UNCHANGED <<config, rows, mirror, pending, raced>>

(* SELECT channel_id, guild_id, msg_id FROM honeypot_channels *)
loadChannels == rows

(* The process ends anywhere, and Open preloads the mirror from the table. *)
Reopen ==
    /\ pending' = [p \in Proc |-> Idle]
    /\ mirror' = loadChannels
    /\ raced' = {}
    /\ UNCHANGED tables

Writes(p) ==
    \/ UpdateMirror(p)
    \/ \E c \in Channel :
        \/ SetChannel(p, c)
        \/ RemoveChannel(p, c)
        \/ \E s \in Settings : SaveGuildSetup(p, c, s)
        \/ \E v \in Msg \union {Nil} : SetWarningMsg(p, c, v)
    \/ \E v \in Msg : CheckKnown(p, v) \/ ClearWarningMsg(p, v) \/ ClearFails(p, v)
    \/ \E g \in Guild : DeleteGuild(p, g)

Next ==
    \/ \E p \in Proc : Writes(p)
    \/ \E g \in Guild :
        \/ UnsetLogChannel(g)
        \/ \E s \in Settings : UpsertConfig(g, s)
        \/ \E c \in Channel \union {Nil} : RecordEvent(g, c)
    \/ Reopen

Spec == Init /\ [][Next]_vars

-----------------------------------------------------------------------------
(* GetChannel returns the first row of the guild it meets in a map walked  *)
(* in no fixed order, so a guild must never own two: not in the table, not *)
(* in the mirror, however the writes interleave.                           *)
OnePerGuild(t) ==
    \A c, d \in Channel :
        t[c] # NoRow /\ t[d] # NoRow /\ Owner[c] = Owner[d] => c = d

SingleHoneypot == OnePerGuild(rows) /\ OnePerGuild(mirror)

(* Foreign keys as the schema declares them: no honeypot and no event of a *)
(* guild without configuration, whatever order setups, channel removals    *)
(* and purges commit in.                                                   *)
ReferentialIntegrity ==
    /\ \A c \in Channel : rows[c] # NoRow => config[Owner[c]] # NoRow
    /\ \A g \in Guild : events[g] > 0 => config[g] # NoRow

SameFor(g, t, u) == \A c \in Channel : Owner[c] = g => t[c] = u[c]

(* For a guild whose writes never overlapped since Open, the mirror is the *)
(* table, except while one write waits to be mirrored; then mirroring it   *)
(* yields the table.  Store.channels is a write-through mirror only under  *)
(* this condition, which no lock of the store enforces.                    *)
MirrorTracksTable ==
    \A g \in Guild \ raced :
        /\ Unapplied(g) = {} => SameFor(g, mirror, rows)
        /\ \A p \in Unapplied(g) : SameFor(g, Mirrored(pending[p], mirror), rows)
        /\ \A p, q \in Unapplied(g) : p = q

(* Saving a configuration again must not cost a configured guild its ban   *)
(* count, nor a channel that stays its recorded warning message.           *)
SparesHistory ==
    \A g \in Guild :
        config[g] # NoRow /\ config'[g] # NoRow =>
            /\ events'[g] >= events[g]
            /\ config'[g] # config[g] =>
                \A c \in Channel :
                    Owner[c] = g /\ rows[c] \in Msg /\ rows'[c] # NoRow
                        => rows'[c] = rows[c]

HistorySurvives == [][SparesHistory]_vars

(* store.go calls Store.channels a write-through mirror serving all reads: *)
(* with no call under way it should equal the table.  It need not: two     *)
(* writes may be mirrored in the opposite order of their commits.          *)
MirrorIsWriteThrough == (\A p \in Proc : pending[p] = Idle) => mirror = rows
=============================================================================
