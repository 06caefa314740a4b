------------------------- MODULE GuildLifecycleProofs -------------------------
(***************************************************************************)
(* Theorems about GuildLifecycle, for any number of handlers, channels and *)
(* events.                                                                 *)
(***************************************************************************)
EXTENDS GuildLifecycle, TLAPS

USE LifecycleAssumption, NoConfigAssumption

Tidying == {"check", "remove", "compare", "unset"}

(* Stage and kind of a handler belong together. *)
Handler(j) ==
    /\ j.at = "idle" => j.kind = "none"
    /\ j.at \in {"config", "find", "create"} => j.kind = "join" /\ j.ch = Nil
    /\ j.at = "save" => j.kind \in {"join", "save"} /\ j.ch \in Channel
    /\ j.at = "purge" => j.kind = "leave"
    /\ j.at \in Tidying => j.kind = "delete" /\ j.ch \in Channel
    /\ j.kind = "join" => j.log = Nil

HandlersInv == \A p \in Proc : Handler(job[p])

TypeInv == TypeOK /\ HandlersInv

(* What one step does to the handlers: to one of them, at most. *)
LEMMA HandlerTypes ==
  ASSUME TypeInv, NEW p \in Proc, NEW j \in Job, Handler(j), job' = [job EXCEPT ![p] = j]
  PROVE  job' \in [Proc -> Job] /\ HandlersInv'
BY DEF TypeInv, TypeOK, HandlersInv

LEMMA Advance ==
  ASSUME TypeInv, NEW p \in Proc, NEW s \in Stage, Goto(p, s)
  PROVE  job' = [job EXCEPT ![p] = [job[p] EXCEPT !.at = s]]
BY DEF Goto, TypeInv, TypeOK

LEMMA TypeStep == TypeInv /\ [Next]_vars => TypeInv'
<1> SUFFICES ASSUME TypeInv, [Next]_vars PROVE TypeInv'
  OBVIOUS
<1>t. TypeOK /\ HandlersInv /\ \A p \in Proc : job[p] \in Job /\ Handler(job[p])
  BY DEF TypeInv, TypeOK, HandlersInv
<1> USE DEF Tidying
<1>i. Idle \in Job /\ Handler(Idle)
  BY DEF Idle, Job, Kind, Stage, Handler
<1>1. ASSUME NEW p \in Proc, Invite(p) \/ Kick(p)
      PROVE  TypeInv'
  <2>1. \/ job' = job
        \/ job' = [job EXCEPT ![p] = [kind |-> "join", at |-> "config", ch |-> Nil, log |-> Nil]]
        \/ job' = [job EXCEPT ![p] = [kind |-> "leave", at |-> "purge", ch |-> Nil, log |-> Nil]]
    BY <1>1 DEF Invite, Kick, Start, Unseen
  <2>2. job' \in [Proc -> Job] /\ HandlersInv'
    <3>1. CASE job' = job
      BY <1>t, <3>1 DEF TypeOK, HandlersInv
    <3>2. CASE job' # job
      BY <2>1, <3>2, HandlerTypes DEF Job, Kind, Stage, Handler
    <3> QED
      BY <3>1, <3>2
  <2>3. member' \in BOOLEAN /\ mixed' \in BOOLEAN /\ gaveUp' \in BOOLEAN
    BY <1>1, <1>t DEF Invite, Kick, Mix, Unseen, TypeOK
  <2>4. happened' \in 0 .. MaxEvents
    BY <1>1, <1>t DEF Invite, Kick, Happens, TypeOK
  <2>5. UNCHANGED <<channels, deleted, config, honeypot, missed, twofold>>
    BY <1>1 DEF Invite, Kick
  <2> QED
    BY <1>t, <2>2, <2>3, <2>4, <2>5 DEF TypeInv, TypeOK
<1>2. ASSUME NEW p \in Proc, NEW c \in Channel, NEW l \in Channel \union {Nil}, Submit(p, c, l)
      PROVE  TypeInv'
  <2>1. job' = [job EXCEPT ![p] = [kind |-> "save", at |-> "save", ch |-> c, log |-> l]]
    BY <1>2 DEF Submit, Start
  <2>2. job' \in [Proc -> Job] /\ HandlersInv'
    BY <2>1, HandlerTypes DEF Job, Kind, Stage, Handler
  <2> QED
    BY <1>2, <1>t, <2>2 DEF Submit, Happens, Mix, TypeInv, TypeOK
<1>3. ASSUME NEW p \in Proc, NEW c \in Channel, DeleteChannel(p, c)
      PROVE  TypeInv'
  <2>1. job' \in [Proc -> Job] /\ HandlersInv'
    <3>1. CASE job' = job
      BY <1>t, <3>1 DEF TypeOK, HandlersInv
    <3>2. CASE job' = [job EXCEPT ![p] = [kind |-> "delete", at |-> "check", ch |-> c, log |-> Nil]]
      BY <3>2, HandlerTypes DEF Job, Kind, Stage, Handler
    <3> QED
      BY <1>3, <3>1, <3>2 DEF DeleteChannel, Start, Unseen
  <2>2. gaveUp' \in BOOLEAN /\ missed' \subseteq Channel
    BY <1>3, <1>t DEF DeleteChannel, Unseen, TypeOK
  <2>3. /\ channels' \subseteq Channel /\ deleted' \subseteq Channel
        /\ happened' \in 0 .. MaxEvents
        /\ UNCHANGED <<member, config, honeypot, mixed, twofold>>
    BY <1>3, <1>t DEF DeleteChannel, Happens, TypeOK
  <2> QED
    BY <1>t, <2>1, <2>2, <2>3 DEF TypeInv, TypeOK
<1>4. ASSUME NEW p \in Proc, job' = [job EXCEPT ![p] = Idle]
      PROVE  job' \in [Proc -> Job] /\ HandlersInv'
  BY <1>4, <1>i, HandlerTypes
<1>5. ASSUME NEW p \in Proc, NEW s \in Stage, Goto(p, s), Handler([job[p] EXCEPT !.at = s])
      PROVE  job' \in [Proc -> Job] /\ HandlersInv'
  BY <1>5, <1>t, Advance, HandlerTypes DEF Job
<1>6. ASSUME NEW p \in Proc, GetConfig(p)
      PROVE  TypeInv'
  <2>1. job' \in [Proc -> Job] /\ HandlersInv'
    BY <1>6, <1>t, <1>4, <1>5 DEF GetConfig, SetUpUnknown, At, Return, Handler, Stage, Job
  <2> QED
    BY <1>6, <1>t, <2>1 DEF GetConfig, outside, history, TypeInv, TypeOK
<1>7. ASSUME NEW p \in Proc, NEW c \in Channel,
             job[p].at \in {"find", "create"}, job' = [job EXCEPT ![p].at = "save", ![p].ch = c]
      PROVE  job' \in [Proc -> Job] /\ HandlersInv'
  <2>1. job' = [job EXCEPT ![p] = [job[p] EXCEPT !.at = "save", !.ch = c]]
    BY <1>7, <1>t DEF TypeOK
  <2>2. [job[p] EXCEPT !.at = "save", !.ch = c] \in Job /\ Handler([job[p] EXCEPT !.at = "save", !.ch = c])
    BY <1>7, <1>t DEF Job, Stage, Handler
  <2> QED
    BY <2>1, <2>2, HandlerTypes
<1>8. ASSUME NEW p \in Proc, GetGuildChannels(p)
      PROVE  TypeInv'
  <2>1. job' \in [Proc -> Job] /\ HandlersInv'
    <3>1. CASE \E c \in Channel : job' = [job EXCEPT ![p].at = "save", ![p].ch = c]
      BY <1>8, <1>7, <3>1 DEF GetGuildChannels, At
    <3>2. CASE Goto(p, "create")
      BY <1>8, <1>t, <1>5, <3>2 DEF GetGuildChannels, At, Handler, Stage, Job
    <3>3. CASE Return(p)
      BY <1>4, <3>3 DEF Return
    <3> QED
      BY <1>8, <1>t, <3>1, <3>2, <3>3 DEF GetGuildChannels, TypeOK
  <2> QED
    BY <1>8, <1>t, <2>1 DEF GetGuildChannels, outside, history, TypeInv, TypeOK
<1>9. ASSUME NEW p \in Proc, CreateGuildChannel(p)
      PROVE  TypeInv'
  <2>1. job' \in [Proc -> Job] /\ HandlersInv'
    <3>1. CASE \E c \in Channel : job' = [job EXCEPT ![p].at = "save", ![p].ch = c]
      BY <1>9, <1>7, <3>1 DEF CreateGuildChannel, At
    <3>2. CASE Return(p)
      BY <1>4, <3>2 DEF Return
    <3> QED
      BY <1>9, <3>1, <3>2 DEF CreateGuildChannel
  <2>2. channels' \subseteq Channel
    BY <1>9, <1>t DEF CreateGuildChannel, TypeOK
  <2> QED
    BY <1>9, <1>t, <2>1, <2>2 DEF CreateGuildChannel, history, TypeInv, TypeOK
<1>10. ASSUME NEW p \in Proc, Fails(p)
       PROVE  TypeInv'
  <2>1. job' \in [Proc -> Job] /\ HandlersInv'
    BY <1>10, <1>4 DEF Fails, Return
  <2>2. missed' \subseteq Channel
    <3>1. job[p].kind = "delete" => job[p].ch \in Channel
      BY <1>t DEF Handler, Job, Stage
    <3> QED
      BY <1>10, <1>t, <3>1 DEF Fails, TypeOK
  <2> QED
    BY <1>10, <1>t, <2>1, <2>2 DEF Fails, TypeInv, TypeOK
<1>11. ASSUME NEW p \in Proc, SaveGuildSetup(p)
       PROVE  TypeInv'
  <2>1. config' \in Config /\ honeypot' \in Channel
    BY <1>11, <1>t DEF SaveGuildSetup, At, Handler, Config, Job
  <2> QED
    BY <1>11, <1>t, <1>4, <2>1 DEF SaveGuildSetup, Return, outside, history, TypeInv, TypeOK
<1>12. ASSUME NEW p \in Proc, DeleteGuild(p)
       PROVE  TypeInv'
  BY <1>12, <1>t, <1>4 DEF DeleteGuild, Purge, Return, outside, history, TypeInv, TypeOK
<1>13. ASSUME NEW p \in Proc, GetChannelByID(p) \/ Compare(p)
       PROVE  TypeInv'
  <2>1. job' \in [Proc -> Job] /\ HandlersInv'
    <3>1. CASE \E s \in {"remove", "compare", "unset"} : Goto(p, s)
      BY <1>13, <1>t, <1>5, <3>1 DEF GetChannelByID, Compare, At, Handler, Stage, Job
    <3>2. CASE Return(p)
      BY <1>4, <3>2 DEF Return
    <3> QED
      BY <1>13, <3>1, <3>2 DEF GetChannelByID, Compare
  <2> QED
    BY <1>13, <1>t, <2>1 DEF GetChannelByID, Compare, outside, history, TypeInv, TypeOK
<1>14. ASSUME NEW p \in Proc, RemoveChannel(p)
       PROVE  TypeInv'
  BY <1>14, <1>t, <1>4 DEF RemoveChannel, DeleteRow, Return, outside, history, TypeInv, TypeOK
<1>15. ASSUME NEW p \in Proc, UnsetLogChannel(p)
       PROVE  TypeInv'
  <2>1. config' \in Config \union {NoConfig}
    BY <1>15, <1>t DEF UnsetLogChannel, NoLog, TypeOK, Config
  <2> QED
    BY <1>15, <1>t, <1>4, <2>1 DEF UnsetLogChannel, Return, outside, history, TypeInv, TypeOK
<1>16. CASE Restart
  <2>1. job' \in [Proc -> Job] /\ HandlersInv'
    BY <1>16, <1>i DEF Restart, HandlersInv
  <2>2. gaveUp' \in BOOLEAN /\ mixed' \in BOOLEAN
    BY <1>16, <1>t DEF Restart, TypeOK
  <2>3. missed' \subseteq Channel
    <3>1. \A p \in Proc : job[p].kind = "delete" => job[p].ch \in Channel
      BY <1>t DEF Handler, Job, Stage
    <3> QED
      BY <1>16, <1>t, <3>1 DEF Restart, TypeOK
  <2> QED
    BY <1>16, <1>t, <2>1, <2>2, <2>3 DEF Restart, Happens, TypeInv, TypeOK
<1>17. CASE Rest \/ UNCHANGED vars
  BY <1>17, <1>t DEF Rest, vars, history, TypeInv, TypeOK, HandlersInv
<1> QED
  BY <1>1, <1>2, <1>3, <1>6, <1>8, <1>9, <1>10, <1>11, <1>12, <1>13, <1>14, <1>15,
     <1>16, <1>17 DEF Next, Step

LEMMA TypeInit == Init => TypeInv
<1> SUFFICES ASSUME Init PROVE TypeInv
  OBVIOUS
<1>1. Idle \in Job /\ Handler(Idle)
  BY DEF Idle, Job, Kind, Stage, Handler, Tidying
<1>2. job \in [Proc -> Job] /\ HandlersInv
  BY <1>1 DEF Init, HandlersInv
<1>3. member \in BOOLEAN /\ mixed \in BOOLEAN /\ gaveUp \in BOOLEAN
  BY DEF Init
<1>4. /\ channels \subseteq Channel /\ deleted \subseteq Channel
      /\ missed \subseteq Channel /\ twofold \subseteq Channel
      /\ happened \in 0 .. MaxEvents
  BY DEF Init
<1>5. config \in Config \union {NoConfig} /\ honeypot \in Channel \union {Nil}
  BY DEF Init
<1> QED
  BY <1>2, <1>3, <1>4, <1>5 DEF TypeInv, TypeOK

(* "TypeOK" is an invariant of every instance. *)
THEOREM TypeCorrect == Spec => []TypeOK
<1>1. Spec => []TypeInv
  BY TypeInit, TypeStep, PTL DEF Spec
<1> QED
  BY <1>1, PTL DEF TypeInv

-----------------------------------------------------------------------------
(* How a step changes the handlers, one by one: an event starts p, a       *)
(* handler p goes on or returns, or all are gone.                          *)
Others(p) == \A q \in Proc \ {p} : job'[q] = job[q]

Starts(p, kind, stage, c, l) ==
    /\ job[p] = Idle
    /\ job'[p] = [kind |-> kind, at |-> stage, ch |-> c, log |-> l]
    /\ Others(p)

Returns(p) == job'[p] = Idle /\ Others(p)

GoesOn(p, stage, c) ==
    /\ job'[p].kind = job[p].kind /\ job'[p].log = job[p].log
    /\ job'[p].at = stage /\ job'[p].ch = c
    /\ Others(p)

LEMMA Begins ==
  ASSUME TypeInv, NEW p \in Proc, NEW k, NEW s, NEW c, NEW l, Start(p, k, s, c, l)
  PROVE  Starts(p, k, s, c, l)
BY DEF Start, Starts, Others, TypeInv, TypeOK

LEMMA Ends == ASSUME TypeInv, NEW p \in Proc, Return(p) PROVE Returns(p)
BY DEF Return, Returns, Others, TypeInv, TypeOK

LEMMA Continues ==
  ASSUME TypeInv, NEW p \in Proc, NEW s, Goto(p, s)
  PROVE  GoesOn(p, s, job[p].ch)
<1>1. job[p] \in Job
  BY DEF TypeInv, TypeOK
<1>2. job'[p] = [job[p] EXCEPT !.at = s] /\ Others(p)
  BY DEF Goto, Others, TypeInv, TypeOK
<1> QED
  BY <1>1, <1>2 DEF GoesOn, Job

LEMMA Chooses ==
  ASSUME TypeInv, NEW p \in Proc, NEW c,
         job' = [job EXCEPT ![p].at = "save", ![p].ch = c]
  PROVE  GoesOn(p, "save", c)
<1>1. job[p] \in Job
  BY DEF TypeInv, TypeOK
<1>2. job'[p] = [job[p] EXCEPT !.at = "save", !.ch = c] /\ Others(p)
  BY DEF Others, TypeInv, TypeOK
<1>3. ASSUME NEW j \in Job, NEW h, h = [j EXCEPT !.at = "save", !.ch = c]
      PROVE  h.kind = j.kind /\ h.at = "save" /\ h.ch = c /\ h.log = j.log
  <2>1. DOMAIN j = {"kind", "at", "ch", "log"}
    BY DEF Job
  <2>2. h = [x \in DOMAIN j |-> IF x = "at" THEN "save" ELSE IF x = "ch" THEN c ELSE j[x]]
    BY <1>3
  <2>3. h.kind = j.kind /\ h.log = j.log
    BY <2>1, <2>2
  <2>4. h.at = "save" /\ h.ch = c
    BY <2>1, <2>2
  <2> QED
    BY <2>3, <2>4
<1> QED
  BY <1>1, <1>2, <1>3 DEF GoesOn

-----------------------------------------------------------------------------
(* No channel comes back, and a handler of a deletion speaks of one that   *)
(* is gone.                                                                *)
DeletedInv ==
    /\ channels \intersect deleted = {}
    /\ \A p \in Proc : job[p].kind = "delete" => job[p].ch \in deleted

LEMMA DeletedStep == TypeInv /\ DeletedInv /\ [Next]_vars => DeletedInv'
<1> SUFFICES ASSUME TypeInv, DeletedInv, [Next]_vars PROVE DeletedInv'
  OBVIOUS
<1>1. ASSUME NEW p \in Proc, NEW k \in {"join", "leave", "save"}, NEW s, NEW c, NEW l,
             Starts(p, k, s, c, l), UNCHANGED <<channels, deleted>>
      PROVE  DeletedInv'
  BY <1>1 DEF Starts, Others, DeletedInv
<1>2. ASSUME NEW p \in Proc, Invite(p) \/ Kick(p)
      PROVE  DeletedInv'
  BY <1>1, <1>2, Begins DEF Invite, Kick, Unseen, DeletedInv
<1>3. ASSUME NEW p \in Proc, NEW c \in Channel, NEW l \in Channel \union {Nil}, Submit(p, c, l)
      PROVE  DeletedInv'
  BY <1>1, <1>3, Begins DEF Submit
<1>4. ASSUME NEW p \in Proc, NEW c \in Channel, DeleteChannel(p, c)
      PROVE  DeletedInv'
  <2>1. channels' \intersect deleted' = {}
    BY <1>4 DEF DeleteChannel, DeletedInv
  <2>2. \A q \in Proc : job'[q] = job[q] \/ job'[q].ch = c
    <3>1. CASE Start(p, "delete", "check", c, Nil)
      <4>1. Starts(p, "delete", "check", c, Nil)
        BY <3>1, Begins
      <4> QED
        BY <4>1 DEF Starts, Others
    <3>2. CASE UNCHANGED job
      BY <3>2
    <3> QED
      BY <1>4, <3>1, <3>2 DEF DeleteChannel, Unseen
  <2> QED
    BY <1>4, <2>1, <2>2 DEF DeleteChannel, DeletedInv
<1>5. ASSUME NEW p \in Proc, Returns(p)
      PROVE  \A q \in Proc : job'[q].kind = "delete" => job'[q] = job[q]
  BY <1>5 DEF Returns, Others, Idle
<1>6. ASSUME NEW p \in Proc, NEW s, GoesOn(p, s, job[p].ch)
      PROVE  \A q \in Proc : job'[q].kind = job[q].kind /\ job'[q].ch = job[q].ch
  BY <1>6 DEF GoesOn, Others
<1>7. ASSUME NEW p \in Proc, NEW s, NEW c, job[p].kind # "delete", GoesOn(p, s, c)
      PROVE  \A q \in Proc : job'[q].kind = "delete" => job'[q] = job[q]
  BY <1>7 DEF GoesOn, Others
<1>8. ASSUME NEW p \in Proc, GetConfig(p) \/ Fails(p) \/ SaveGuildSetup(p) \/ DeleteGuild(p)
                \/ GetChannelByID(p) \/ RemoveChannel(p) \/ Compare(p) \/ UnsetLogChannel(p)
      PROVE  DeletedInv'
  <2>1. Returns(p) \/ \E s \in Stage : GoesOn(p, s, job[p].ch)
    BY <1>8, Ends, Continues DEF GetConfig, SetUpUnknown, Fails, SaveGuildSetup, DeleteGuild,
       GetChannelByID, RemoveChannel, Compare, UnsetLogChannel, Stage
  <2>2. UNCHANGED <<channels, deleted>>
    BY <1>8 DEF GetConfig, Fails, SaveGuildSetup, DeleteGuild, outside,
       GetChannelByID, RemoveChannel, Compare, UnsetLogChannel
  <2> QED
    BY <1>5, <1>6, <2>1, <2>2 DEF DeletedInv
<1>9. ASSUME NEW p \in Proc, GetGuildChannels(p) \/ CreateGuildChannel(p)
      PROVE  DeletedInv'
  <2>1. job[p].kind # "delete"
    BY <1>9 DEF GetGuildChannels, CreateGuildChannel, At, TypeInv, HandlersInv, Handler
  <2>2. Returns(p) \/ \E s \in Stage, c \in Channel \union {Nil} : GoesOn(p, s, c)
    BY <1>9, Ends, Continues, Chooses DEF GetGuildChannels, CreateGuildChannel, Stage, TypeInv, TypeOK, Job
  <2>3. channels' \intersect deleted' = {}
    BY <1>9 DEF GetGuildChannels, CreateGuildChannel, outside, DeletedInv
  <2>4. deleted' = deleted
    BY <1>9 DEF GetGuildChannels, CreateGuildChannel, outside
  <2> QED
    BY <1>5, <1>7, <2>1, <2>2, <2>3, <2>4 DEF DeletedInv
<1>10. CASE Restart
  BY <1>10 DEF Restart, Idle, DeletedInv
<1>11. CASE Rest \/ UNCHANGED vars
  BY <1>11 DEF Rest, vars, DeletedInv
<1> QED
  BY <1>2, <1>3, <1>4, <1>8, <1>9, <1>10, <1>11 DEF Next, Step

LEMMA DeletedInit == Init => DeletedInv
BY DEF Init, DeletedInv, Idle

(* A registered honeypot is only lost with the configuration or because    *)
(* the channel is gone: RemoveChannel names the channel that the handler's *)
(* event is about.                                                         *)
THEOREM OnlyGoneRemoved == Spec => OnlyGoneIsRemoved
<1> DEFINE Kept == honeypot # Nil /\ honeypot' = Nil => config' = NoConfig \/ honeypot \in deleted
<1>1. TypeInv /\ DeletedInv /\ [Next]_vars => Kept
  <2> SUFFICES ASSUME TypeInv, DeletedInv, [Next]_vars PROVE Kept
    OBVIOUS
  <2>1. ASSUME NEW p \in Proc, SaveGuildSetup(p)
        PROVE  honeypot' # Nil
    BY <2>1 DEF SaveGuildSetup, At, TypeInv, HandlersInv, Handler
  <2>2. ASSUME NEW p \in Proc, DeleteGuild(p)
        PROVE  config' = NoConfig
    BY <2>2 DEF DeleteGuild, Purge
  <2>3. ASSUME NEW p \in Proc, RemoveChannel(p)
        PROVE  honeypot' = honeypot \/ honeypot \in deleted
    BY <2>3 DEF RemoveChannel, DeleteRow, At, Tidying, TypeInv, HandlersInv, Handler, DeletedInv
  <2>4. ASSUME NEW p \in Proc,
               \/ Invite(p) \/ Kick(p) \/ (\E c \in Channel : DeleteChannel(p, c))
               \/ (\E c \in Channel, l \in Channel \union {Nil} : Submit(p, c, l))
               \/ GetConfig(p) \/ GetGuildChannels(p) \/ CreateGuildChannel(p)
               \/ Fails(p) \/ GetChannelByID(p) \/ Compare(p) \/ UnsetLogChannel(p)
        PROVE  honeypot' = honeypot
    BY <2>4 DEF Invite, Kick, DeleteChannel, Submit, GetConfig, GetGuildChannels,
       CreateGuildChannel, Fails, GetChannelByID, Compare, UnsetLogChannel
  <2>5. CASE Restart \/ Rest \/ UNCHANGED vars
    BY <2>5 DEF Restart, Rest, vars
  <2> QED
    BY <2>1, <2>2, <2>3, <2>4, <2>5 DEF Next, Step
<1>2. Spec => [](TypeInv /\ DeletedInv)
  BY TypeInit, TypeStep, DeletedInit, DeletedStep, PTL DEF Spec
<1>3. TypeInv /\ DeletedInv /\ [Next]_vars => [Kept]_vars
  BY <1>1
<1> QED
  BY <1>2, <1>3, PTL DEF Spec, OnlyGoneIsRemoved

-----------------------------------------------------------------------------
(* As long as the latest join, leave or save has overlapped no other it is *)
(* the only one, knows whether the bot is a member and, if it is a join    *)
(* past its look, that there is no configuration; when it is over, the     *)
(* guild is as it should be.                                               *)
MemberInv ==
    ~mixed =>
        /\ \A p, q \in Proc : Changing(p) /\ Changing(q) => p = q
        /\ \A p \in Proc :
            job[p].kind = "join" => member /\ (job[p].at # "config" => config = NoConfig)
        /\ \A p \in Proc : job[p].kind = "save" => member
        /\ \A p \in Proc : job[p].kind = "leave" => ~member
        /\ Settled => /\ (config # NoConfig) <=> member
                      /\ ~member => honeypot = Nil

(* A step that neither starts a join, leave or save nor ends it well.      *)
Aside ==
    /\ \A p \in Proc : Changing(p)' => Changing(p)
    /\ \A p \in Proc : Changing(p) => Changing(p)' \/ mixed'
    /\ \A p \in Proc : Changing(p)' => job'[p].kind = job[p].kind
    /\ \A p \in Proc : Changing(p)' /\ job'[p].at # "config" => job[p].at # "config" \/ config = NoConfig
    /\ (config' = NoConfig) <=> (config = NoConfig)
    /\ honeypot' \in {honeypot, Nil}
    /\ UNCHANGED member
    /\ mixed => mixed'

LEMMA AsideKeeps == MemberInv /\ Aside => MemberInv'
<1> SUFFICES ASSUME MemberInv, Aside, ~mixed' PROVE MemberInv'
  BY DEF MemberInv
<1>1. /\ Settled' => Settled
      /\ \A p \in Proc : job'[p].kind \in {"join", "save", "leave"} => job[p].kind = job'[p].kind
      /\ ~mixed
  BY DEF Aside, Changing, Settled
<1>2. \A p, q \in Proc : Changing(p)' /\ Changing(q)' => p = q
  BY <1>1 DEF MemberInv, Aside
<1>3. \A p \in Proc : Changing(p)' =>
        /\ job'[p].kind = "join" => member' /\ (job'[p].at # "config" => config' = NoConfig)
        /\ job'[p].kind = "save" => member'
        /\ job'[p].kind = "leave" => ~member'
  BY <1>1 DEF MemberInv, Aside
<1>4. Settled' => /\ (config' # NoConfig) <=> member'
                  /\ ~member' => honeypot' = Nil
  BY <1>1 DEF MemberInv, Aside
<1> QED
  BY <1>2, <1>3, <1>4 DEF MemberInv, Changing

LEMMA MemberStep == TypeInv /\ MemberInv /\ [Next]_vars => MemberInv'
<1> SUFFICES ASSUME TypeInv, MemberInv, [Next]_vars PROVE MemberInv'
  OBVIOUS
<1>t. /\ \A p \in Proc : job[p] \in Job /\ Handler(job[p])
      /\ config \in Config \union {NoConfig}
  BY DEF TypeInv, TypeOK, HandlersInv
<1>i. Idle.kind = "none" /\ Idle.at = "idle"
  BY DEF Idle
<1>m. mixed' => MemberInv'
  BY DEF MemberInv
<1>1. ASSUME NEW p \in Proc, Invite(p), ~mixed'
      PROVE  MemberInv'
  <2>1. Starts(p, "join", "config", Nil, Nil)
    BY <1>1, Begins DEF Invite
  <2>2. member' /\ \A q \in Proc : ~Changing(q)
    BY <1>1 DEF Invite, Mix
  <2>3. \A q \in Proc : Changing(q)' => q = p
    BY <2>1, <2>2 DEF Starts, Others, Changing
  <2>4. job'[p].kind = "join" /\ job'[p].at = "config"
    BY <2>1 DEF Starts
  <2> QED
    BY <2>2, <2>3, <2>4 DEF MemberInv, Settled, Changing
<1>2. ASSUME NEW p \in Proc, Kick(p), ~mixed'
      PROVE  MemberInv'
  <2>1. Starts(p, "leave", "purge", Nil, Nil)
    BY <1>2, Begins DEF Kick
  <2>2. ~member' /\ \A q \in Proc : ~Changing(q)
    BY <1>2 DEF Kick, Mix
  <2>3. \A q \in Proc : Changing(q)' => q = p
    BY <2>1, <2>2 DEF Starts, Others, Changing
  <2>4. job'[p].kind = "leave"
    BY <2>1 DEF Starts
  <2> QED
    BY <2>2, <2>3, <2>4 DEF MemberInv, Settled, Changing
<1>3. ASSUME NEW p \in Proc, NEW c \in Channel, NEW l \in Channel \union {Nil}, Submit(p, c, l), ~mixed'
      PROVE  MemberInv'
  <2>1. Starts(p, "save", "save", c, l)
    BY <1>3, Begins DEF Submit
  <2>2. member' /\ \A q \in Proc : ~Changing(q)
    BY <1>3 DEF Submit, Mix
  <2>3. \A q \in Proc : Changing(q)' => q = p
    BY <2>1, <2>2 DEF Starts, Others, Changing
  <2>4. job'[p].kind = "save"
    BY <2>1 DEF Starts
  <2> QED
    BY <2>2, <2>3, <2>4 DEF MemberInv, Settled, Changing
<1>4. ASSUME NEW p \in Proc, NEW c \in Channel, DeleteChannel(p, c)
      PROVE  Aside
  <2>1. \A q \in Proc : job'[q] = job[q] \/ (~Changing(q) /\ ~Changing(q)')
    <3>1. CASE Start(p, "delete", "check", c, Nil)
      <4>1. Starts(p, "delete", "check", c, Nil)
        BY <3>1, Begins
      <4> QED
        BY <4>1, <1>i DEF Starts, Others, Changing
    <3>2. CASE UNCHANGED job
      BY <3>2
    <3> QED
      BY <1>4, <3>1, <3>2 DEF DeleteChannel, Unseen
  <2> QED
    BY <1>4, <2>1 DEF DeleteChannel, Aside, Changing
<1>5. ASSUME NEW p \in Proc, GetChannelByID(p) \/ RemoveChannel(p) \/ Compare(p) \/ UnsetLogChannel(p)
      PROVE  Aside
  <2>1. job[p].kind = "delete"
    BY <1>5, <1>t DEF GetChannelByID, RemoveChannel, Compare, UnsetLogChannel, At, Handler, Tidying
  <2>2. Returns(p) \/ \E s \in Stage : GoesOn(p, s, job[p].ch)
    BY <1>5, Ends, Continues DEF GetChannelByID, RemoveChannel, Compare, UnsetLogChannel, Stage
  <2>3. \A q \in Proc : job'[q] = job[q] \/ (~Changing(q) /\ ~Changing(q)')
    <3>1. CASE Returns(p)
      BY <2>1, <3>1, <1>i DEF Returns, Others, Changing
    <3>2. ASSUME NEW s \in Stage, GoesOn(p, s, job[p].ch)
          PROVE  job'[p].kind = "delete" /\ Others(p)
      BY <2>1, <3>2 DEF GoesOn
    <3> QED
      BY <2>1, <2>2, <3>1, <3>2 DEF Others, Changing
  <2>4. /\ UNCHANGED <<member, mixed>> /\ honeypot' \in {honeypot, Nil}
        /\ config' = config \/ config' = NoLog
    BY <1>5 DEF GetChannelByID, RemoveChannel, Compare, UnsetLogChannel, DeleteRow, outside, history
  <2>5. (config' = NoConfig) <=> (config = NoConfig)
    BY <1>t, <2>4 DEF NoLog, Config
  <2> QED
    BY <2>3, <2>4, <2>5 DEF Aside, Changing
<1>6. ASSUME NEW p \in Proc, GetConfig(p) \/ GetGuildChannels(p) \/ CreateGuildChannel(p), ~mixed'
      PROVE  MemberInv'
  <2>1. job[p].kind = "join"
    BY <1>6, <1>t DEF GetConfig, GetGuildChannels, CreateGuildChannel, At, Handler
  <2>2. UNCHANGED <<config, honeypot, member, mixed>>
    BY <1>6 DEF GetConfig, GetGuildChannels, CreateGuildChannel, outside, history
  <2>3. \/ Returns(p) /\ (config # NoConfig \/ ~member)
        \/ /\ \E s \in Stage, c \in Channel \union {Nil} : GoesOn(p, s, c)
           /\ job[p].at # "config" \/ config = NoConfig
    BY <1>6, <1>t, Ends, Continues, Chooses
       DEF GetConfig, SetUpUnknown, GetGuildChannels, CreateGuildChannel, At, Stage, Job, TypeInv, TypeOK
  <2>4. ASSUME Returns(p), config # NoConfig \/ ~member
        PROVE  MemberInv'
    <3>1. Changing(p) /\ member /\ ~mixed
      BY <1>6, <2>1, <2>2 DEF Changing, MemberInv
    <3>2. \A q \in Proc : ~Changing(q)'
      BY <1>i, <2>4, <3>1 DEF MemberInv, Returns, Others, Changing
    <3> QED
      BY <2>2, <2>4, <3>1, <3>2 DEF MemberInv, Settled, Changing
  <2>5. ASSUME NEW s \in Stage, NEW c \in Channel \union {Nil}, GoesOn(p, s, c),
               job[p].at # "config" \/ config = NoConfig
        PROVE  MemberInv'
    <3>1. job'[p].kind = "join" /\ \A q \in Proc : q # p => job'[q] = job[q]
      BY <2>1, <2>5 DEF GoesOn, Others
    <3>2. \A q \in Proc : job'[q].kind = job[q].kind
      BY <2>1, <3>1
    <3>3. \A q \in Proc : job'[q].at # "config" => job[q].at # "config" \/ config = NoConfig
      BY <2>5, <3>1
    <3>4. Aside
      BY <2>2, <3>2, <3>3 DEF Aside, Changing
    <3> QED
      BY <3>4, AsideKeeps
  <2> QED
    BY <2>3, <2>4, <2>5
<1>7. ASSUME NEW p \in Proc, Fails(p)
      PROVE  Aside
  <2>1. /\ \A q \in Proc : q # p => job'[q] = job[q]
        /\ job'[p].kind = "none"
    BY <1>7, <1>i, Ends DEF Fails, Returns, Others
  <2>2. UNCHANGED <<member, config, honeypot>> /\ (mixed => mixed') /\ (Changing(p) => mixed')
    BY <1>7 DEF Fails
  <2> QED
    BY <2>1, <2>2 DEF Aside, Changing
<1>8. ASSUME NEW p \in Proc, SaveGuildSetup(p) \/ DeleteGuild(p)
      PROVE  MemberInv'
  <2>1. /\ Returns(p) /\ UNCHANGED <<member, mixed>> /\ Changing(p)
    BY <1>8, <1>t, Ends DEF SaveGuildSetup, DeleteGuild, outside, history, At, Handler, Changing
  <2>2. /\ job[p].kind \in {"join", "save"} => config' # NoConfig
        /\ job[p].kind = "leave" => config' = NoConfig /\ honeypot' = Nil
    BY <1>8, <1>t DEF SaveGuildSetup, DeleteGuild, Purge, At, Handler, Config, Job
  <2>3. ~mixed => \A q \in Proc : ~Changing(q)'
    BY <1>i, <2>1 DEF MemberInv, Returns, Others, Changing
  <2> QED
    BY <1>t, <2>1, <2>2, <2>3 DEF MemberInv, Settled, Changing
<1>9. CASE Restart
  BY <1>9, <1>i DEF Restart, Changing, MemberInv, Settled
<1>10. CASE Rest \/ UNCHANGED vars
  BY <1>10 DEF Rest, vars, history, MemberInv, Settled, Changing
<1> QED
  BY <1>1, <1>2, <1>3, <1>4, <1>5, <1>6, <1>7, <1>8, <1>9, <1>10, <1>m, AsideKeeps DEF Next, Step

LEMMA MemberInit == Init => MemberInv
BY DEF Init, MemberInv, Settled, Changing, Idle

LEMMA MemberAlways == Spec => [](TypeInv /\ MemberInv)
BY TypeInit, TypeStep, MemberInit, MemberStep, PTL DEF Spec

(* A join, leave or save that runs alone to its end settles the guild: it  *)
(* is configured exactly while the bot is a member, and its honeypot is    *)
(* forgotten with it, whatever overlapped or went wrong before.            *)
THEOREM MembershipIsSettled == Spec => []MembershipSettles
<1>1. MemberInv => MembershipSettles
  BY DEF MemberInv, MembershipSettles
<1> QED
  BY <1>1, MemberAlways, PTL

(* Nor does a join write default settings over settings there are, unless  *)
(* it overlaps another join, a leave or a save.                            *)
THEOREM ChoiceSurvives == Spec => ChoiceSurvivesJoin
<1> DEFINE Spared ==
      \A p \in Proc :
        SaveGuildSetup(p) /\ job[p].kind = "join" /\ config # NoConfig => mixed
<1>1. MemberInv => Spared
  BY DEF MemberInv, SaveGuildSetup, At
<1>2. MemberInv => [Spared]_vars
  BY <1>1
<1> QED
  BY <1>2, MemberAlways, PTL DEF ChoiceSurvivesJoin

-----------------------------------------------------------------------------
LogIs(c) == config # NoConfig /\ config.log = c

(* A channel is honeypot and log channel at once only if chosen so.        *)
TwofoldInv ==
    /\ \A p \in Proc : job[p].kind = "save" /\ job[p].ch = job[p].log => job[p].ch \in twofold
    /\ \A c \in Channel : honeypot = c /\ LogIs(c) => c \in twofold

LEMMA TwofoldStep == TypeInv /\ TwofoldInv /\ [Next]_vars => TwofoldInv'
<1> SUFFICES ASSUME TypeInv, TwofoldInv, [Next]_vars PROVE TwofoldInv'
  OBVIOUS
<1>t. /\ \A p \in Proc : job[p] \in Job /\ Handler(job[p])
      /\ config \in Config \union {NoConfig}
  BY DEF TypeInv, TypeOK, HandlersInv
<1>i. Idle.kind = "none"
  BY DEF Idle
<1>1. ASSUME \A q \in Proc : job'[q].kind = "save" => job'[q] = job[q],
             twofold' = twofold,
             \A c \in Channel : honeypot' = c /\ LogIs(c)' => (honeypot = c /\ LogIs(c)) \/ c \in twofold
      PROVE  TwofoldInv'
  BY <1>1 DEF TwofoldInv
<1>2. ASSUME NEW p \in Proc, Returns(p)
      PROVE  \A q \in Proc : job'[q].kind = "save" => job'[q] = job[q]
  BY <1>2, <1>i DEF Returns, Others
<1>3. ASSUME NEW p \in Proc, NEW s, NEW c, GoesOn(p, s, c), job[p].kind # "save"
      PROVE  \A q \in Proc : job'[q].kind = "save" => job'[q] = job[q]
  BY <1>3 DEF GoesOn, Others
<1>4. ASSUME NEW p \in Proc, NEW k \in {"join", "leave", "delete"}, NEW s, NEW c, NEW l,
             Starts(p, k, s, c, l)
      PROVE  \A q \in Proc : job'[q].kind = "save" => job'[q] = job[q]
  BY <1>4 DEF Starts, Others
<1>5. ASSUME NEW p \in Proc, Invite(p) \/ Kick(p) \/ \E c \in Channel : DeleteChannel(p, c)
      PROVE  TwofoldInv'
  <2>1. \A q \in Proc : job'[q].kind = "save" => job'[q] = job[q]
    BY <1>5, <1>4, Begins DEF Invite, Kick, DeleteChannel, Unseen
  <2> QED
    BY <1>5, <2>1, <1>1 DEF Invite, Kick, DeleteChannel, LogIs
<1>6. ASSUME NEW p \in Proc, NEW c \in Channel, NEW l \in Channel \union {Nil}, Submit(p, c, l)
      PROVE  TwofoldInv'
  <2>1. Starts(p, "save", "save", c, l)
    BY <1>6, Begins DEF Submit
  <2>2. /\ twofold \subseteq twofold' /\ (c = l => c \in twofold')
        /\ UNCHANGED <<config, honeypot>>
    BY <1>6 DEF Submit
  <2>3. job'[p].ch = c /\ job'[p].log = l /\ \A q \in Proc : q # p => job'[q] = job[q]
    BY <2>1 DEF Starts, Others
  <2> QED
    BY <2>2, <2>3 DEF TwofoldInv, LogIs
<1>7. ASSUME NEW p \in Proc, GetConfig(p) \/ GetGuildChannels(p) \/ CreateGuildChannel(p)
                \/ GetChannelByID(p) \/ Compare(p) \/ Fails(p)
      PROVE  TwofoldInv'
  <2>1. Returns(p) \/ \E s, c : GoesOn(p, s, c)
    BY <1>7, Ends, Continues, Chooses DEF GetConfig, SetUpUnknown, GetGuildChannels,
       CreateGuildChannel, GetChannelByID, Compare, Fails
  <2>2. Returns(p) \/ job[p].kind # "save"
    BY <1>7, <1>t, Ends DEF GetConfig, GetGuildChannels, CreateGuildChannel, GetChannelByID,
       Compare, Fails, At, Handler, Tidying
  <2>3. \A q \in Proc : job'[q].kind = "save" => job'[q] = job[q]
    BY <2>1, <2>2, <1>2, <1>3
  <2>4. UNCHANGED <<config, honeypot, twofold>>
    BY <1>7 DEF GetConfig, GetGuildChannels, CreateGuildChannel, GetChannelByID, Compare,
       Fails, outside, history
  <2> QED
    BY <2>3, <2>4, <1>1 DEF LogIs
<1>8. ASSUME NEW p \in Proc, SaveGuildSetup(p)
      PROVE  TwofoldInv'
  <2>1. job[p].kind \in {"join", "save"} /\ job[p].ch \in Channel
    BY <1>8, <1>t DEF SaveGuildSetup, At, Handler
  <2>2. job[p].kind = "join" => job[p].log = Nil
    BY <1>t DEF Handler
  <2>3. honeypot' = job[p].ch /\ config'.log = job[p].log
    BY <1>8 DEF SaveGuildSetup
  <2>4. \A c \in Channel : honeypot' = c /\ LogIs(c)' => c \in twofold
    BY <2>1, <2>2, <2>3 DEF LogIs, TwofoldInv
  <2>5. Returns(p) /\ twofold' = twofold
    BY <1>8, Ends DEF SaveGuildSetup, outside, history
  <2> QED
    BY <2>4, <2>5, <1>1, <1>2
<1>9. ASSUME NEW p \in Proc, DeleteGuild(p) \/ RemoveChannel(p) \/ UnsetLogChannel(p)
      PROVE  TwofoldInv'
  <2>1. Returns(p) /\ twofold' = twofold
    BY <1>9, Ends DEF DeleteGuild, RemoveChannel, UnsetLogChannel, outside, history
  <2>2. /\ honeypot' \in {honeypot, Nil}
        /\ config' \in {config, NoConfig, NoLog}
    BY <1>9 DEF DeleteGuild, Purge, RemoveChannel, DeleteRow, UnsetLogChannel
  <2>3. \A c \in Channel : LogIs(c)' => LogIs(c)
    BY <1>t, <2>2 DEF LogIs, NoLog, Config
  <2>4. \A c \in Channel : honeypot' = c => honeypot = c
    BY <2>2
  <2> QED
    BY <2>1, <2>3, <2>4, <1>1, <1>2
<1>10. CASE Restart
  BY <1>10, <1>i, <1>1 DEF Restart, LogIs
<1>11. CASE Rest \/ UNCHANGED vars
  BY <1>11, <1>1 DEF Rest, vars, history, LogIs
<1> QED
  BY <1>5, <1>6, <1>7, <1>8, <1>9, <1>10, <1>11 DEF Next, Step

LEMMA TwofoldInit == Init => TwofoldInv
BY DEF Init, TwofoldInv, LogIs, Idle

-----------------------------------------------------------------------------
(* After a channel, a handler of its deletion that has still to deal with  *)
(* the honeypot, or with the log channel.                                  *)
Chased(c, stages) == \E p \in Proc : job[p].ch = c /\ job[p].at \in stages

(* Nobody is about to save a channel that is gone, and as long as it is    *)
(* registered somebody is after it.                                        *)
GoneInv ==
    \A c \in deleted \ missed :
        /\ \A p \in Proc : ~Naming(p, c)
        /\ honeypot = c => Chased(c, {"check", "remove"})
        /\ LogIs(c) /\ c \notin twofold => Chased(c, {"check", "compare", "unset"})

(* A step that registers and chooses no such channel, and leaves those     *)
(* after one alone, or counts it among the missed.                         *)
NoneTaken ==
    /\ UNCHANGED deleted
    /\ missed \subseteq missed' /\ twofold \subseteq twofold'
    /\ \A p \in Proc : job[p].kind = "delete" => job'[p] = job[p] \/ job[p].ch \in missed'
    /\ \A c \in deleted \ missed :
        /\ \A p \in Proc : Naming(p, c)' => Naming(p, c)
        /\ honeypot' = c => honeypot = c
        /\ LogIs(c)' => LogIs(c)

LEMMA NoneTakenKeeps == TypeInv /\ GoneInv /\ NoneTaken => GoneInv'
<1> SUFFICES ASSUME TypeInv, GoneInv, NoneTaken, NEW c \in deleted' \ missed'
             PROVE  /\ \A p \in Proc : ~Naming(p, c)'
                    /\ honeypot' = c => Chased(c, {"check", "remove"})'
                    /\ LogIs(c)' /\ c \notin twofold' =>
                          Chased(c, {"check", "compare", "unset"})'
  BY DEF GoneInv
<1>1. c \in deleted \ missed
  BY DEF NoneTaken
<1>2. \A p \in Proc : ~Naming(p, c)'
  BY <1>1 DEF NoneTaken, GoneInv
<1>3. ASSUME NEW stages \in SUBSET Tidying, Chased(c, stages)
      PROVE  Chased(c, stages)'
  <2>1. PICK p \in Proc : job[p].ch = c /\ job[p].at \in stages
    BY <1>3 DEF Chased
  <2>2. job[p].kind = "delete"
    BY <2>1 DEF TypeInv, HandlersInv, Handler
  <2>3. job'[p] = job[p]
    BY <2>1, <2>2 DEF NoneTaken
  <2> QED
    BY <2>1, <2>3 DEF Chased
<1>4. {"check", "remove"} \subseteq Tidying /\ {"check", "compare", "unset"} \subseteq Tidying
  BY DEF Tidying
<1>5. honeypot' = c => Chased(c, {"check", "remove"})'
  BY <1>1, <1>3, <1>4 DEF NoneTaken, GoneInv
<1>6. LogIs(c)' /\ c \notin twofold' => Chased(c, {"check", "compare", "unset"})'
  BY <1>1, <1>3, <1>4 DEF NoneTaken, GoneInv
<1> QED
  BY <1>2, <1>5, <1>6

(* What a handler's own steps do to a channel it names.                    *)
LEMMA NamesLess ==
  ASSUME NEW p \in Proc, NEW c, Returns(p) \/ \E s : GoesOn(p, s, job[p].ch)
  PROVE  \A q \in Proc : Naming(q, c)' => Naming(q, c)
<1>1. CASE Returns(p)
  <2>1. job'[p].kind = "none" /\ \A q \in Proc : q # p => job'[q] = job[q]
    BY <1>1 DEF Returns, Others, Idle
  <2> QED
    BY <2>1 DEF Naming
<1>2. ASSUME NEW s, GoesOn(p, s, job[p].ch)
      PROVE  \A q \in Proc : Naming(q, c)' => Naming(q, c)
  <2>1. /\ job'[p].kind = job[p].kind /\ job'[p].ch = job[p].ch /\ job'[p].log = job[p].log
        /\ \A q \in Proc : q # p => job'[q] = job[q]
    BY <1>2 DEF GoesOn, Others
  <2> QED
    BY <2>1 DEF Naming
<1> QED
  BY <1>1, <1>2

LEMMA GoneStep ==
  TypeInv /\ DeletedInv /\ TwofoldInv /\ GoneInv /\ [Next]_vars => GoneInv'
<1> SUFFICES ASSUME TypeInv, DeletedInv, TwofoldInv, GoneInv, [Next]_vars
             PROVE  GoneInv'
  OBVIOUS
<1>t. /\ \A p \in Proc : job[p] \in Job /\ Handler(job[p])
      /\ config \in Config \union {NoConfig}
      /\ deleted \subseteq Channel /\ Nil \notin deleted
  BY DEF TypeInv, TypeOK, HandlersInv
<1>i. Idle.kind = "none" /\ Idle.at = "idle" /\ Idle.ch = Nil
  BY DEF Idle
<1>1. ASSUME NEW p \in Proc, Invite(p) \/ Kick(p)
      PROVE  NoneTaken
  <2>1. \/ job' = job
        \/ \E k \in {"join", "leave"}, s \in {"config", "purge"} : Starts(p, k, s, Nil, Nil)
    BY <1>1, Begins DEF Invite, Kick, Unseen
  <2>s. ASSUME NEW k \in {"join", "leave"}, NEW s \in {"config", "purge"}, Starts(p, k, s, Nil, Nil)
        PROVE  /\ job[p] = Idle /\ job'[p].ch = Nil /\ job'[p].log = Nil
               /\ \A q \in Proc : q # p => job'[q] = job[q]
    BY <2>s DEF Starts, Others
  <2>2. \/ job' = job
        \/ /\ job[p] = Idle /\ job'[p].ch = Nil /\ job'[p].log = Nil
           /\ \A q \in Proc : q # p => job'[q] = job[q]
    BY <2>1, <2>s
  <2>3. \A q \in Proc : job[q].kind = "delete" => job'[q] = job[q]
    BY <2>2, <1>i
  <2>4. \A c \in deleted, q \in Proc : Naming(q, c)' => Naming(q, c)
    BY <2>2, <1>t DEF Naming
  <2> QED
    BY <1>1, <2>3, <2>4 DEF Invite, Kick, NoneTaken, LogIs
<1>2. ASSUME NEW p \in Proc, NEW c \in Channel, NEW l \in Channel \union {Nil}, Submit(p, c, l)
      PROVE  NoneTaken
  <2>1. Starts(p, "save", "save", c, l)
    BY <1>2, Begins DEF Submit
  <2>2. /\ job[p] = Idle /\ job'[p].ch = c /\ job'[p].log = l
        /\ \A q \in Proc : q # p => job'[q] = job[q]
    BY <2>1 DEF Starts, Others
  <2>3. c \notin deleted /\ l \notin deleted
    BY <1>2, <1>t DEF Submit, DeletedInv
  <2>4. \A q \in Proc : job[q].kind = "delete" => job'[q] = job[q]
    BY <2>2, <1>i
  <2>5. \A d \in deleted, q \in Proc : Naming(q, d)' => Naming(q, d)
    BY <2>2, <2>3 DEF Naming
  <2> QED
    BY <1>2, <2>4, <2>5 DEF Submit, NoneTaken, LogIs
<1>3. ASSUME NEW p \in Proc, NEW c \in Channel, DeleteChannel(p, c)
      PROVE  GoneInv'
  <2>1. /\ deleted' = deleted \union {c} /\ missed \subseteq missed'
        /\ UNCHANGED <<config, honeypot, twofold>>
    BY <1>3 DEF DeleteChannel
  <2>2. \/ Starts(p, "delete", "check", c, Nil)
        \/ job' = job /\ c \in missed'
    BY <1>3, Begins DEF DeleteChannel, Unseen
  <2>3. ASSUME NEW d
        PROVE  \A q \in Proc : Naming(q, d)' => Naming(q, d)
    BY <2>2 DEF Starts, Others, Naming
  <2>4. ASSUME NEW d \in deleted, NEW stages, Chased(d, stages)
        PROVE  Chased(d, stages)'
    <3>1. PICK q \in Proc : job[q].ch = d /\ job[q].at \in stages
      BY <2>4 DEF Chased
    <3>2. job'[q] = job[q]
      BY <3>1, <2>2, <1>t, <1>i DEF Starts, Others
    <3> QED
      BY <3>1, <3>2 DEF Chased
  <2>5. ASSUME NEW stages, "check" \in stages, c \notin missed'
        PROVE  Chased(c, stages)'
    <3>1. job'[p].ch = c /\ job'[p].at = "check"
      BY <2>2, <2>5 DEF Starts
    <3> QED
      BY <3>1, <2>5 DEF Chased
  <2>6. c \notin missed' => \A q \in Proc : ~Naming(q, c)
    BY <1>3 DEF DeleteChannel
  <2>7. ASSUME NEW d \in deleted' \ missed', d # c
        PROVE  /\ \A q \in Proc : ~Naming(q, d)'
               /\ honeypot' = d => Chased(d, {"check", "remove"})'
               /\ LogIs(d)' /\ d \notin twofold' => Chased(d, {"check", "compare", "unset"})'
    <3>1. d \in deleted \ missed
      BY <2>1, <2>7
    <3>2. \A q \in Proc : ~Naming(q, d)'
      BY <3>1, <2>3 DEF GoneInv
    <3>3. LogIs(d)' <=> LogIs(d)
      BY <2>1 DEF LogIs
    <3> QED
      BY <3>1, <3>2, <3>3, <2>1, <2>4 DEF GoneInv
  <2>8. c \notin missed' =>
          /\ \A q \in Proc : ~Naming(q, c)'
          /\ Chased(c, {"check", "remove"})'
          /\ Chased(c, {"check", "compare", "unset"})'
    BY <2>3, <2>5, <2>6
  <2> QED
    BY <2>7, <2>8 DEF GoneInv
<1>f. ASSUME NEW p \in Proc, Fails(p)
      PROVE  NoneTaken
  <2>1. Returns(p) /\ \A q \in Proc : q # p => job'[q] = job[q]
    BY <1>f, Ends DEF Fails, Returns, Others
  <2>2. /\ UNCHANGED <<deleted, twofold, config, honeypot>> /\ missed \subseteq missed'
        /\ job[p].kind = "delete" => job[p].ch \in missed'
    BY <1>f DEF Fails
  <2> QED
    BY <2>1, <2>2, NamesLess DEF NoneTaken, LogIs
<1>4. ASSUME NEW p \in Proc, GetConfig(p) \/ SaveGuildSetup(p) \/ DeleteGuild(p)
      PROVE  NoneTaken
  <2>1. Returns(p) \/ \E s : GoesOn(p, s, job[p].ch)
    BY <1>4, Ends, Continues DEF GetConfig, SetUpUnknown, SaveGuildSetup, DeleteGuild
  <2>2. job[p].kind # "delete"
    BY <1>4, <1>t DEF GetConfig, SaveGuildSetup, DeleteGuild, At, Handler
  <2>3. \A q \in Proc : job[q].kind = "delete" => job'[q] = job[q]
    BY <2>1, <2>2 DEF Returns, GoesOn, Others
  <2>4. UNCHANGED <<deleted, missed, twofold>>
    BY <1>4 DEF GetConfig, SaveGuildSetup, DeleteGuild, outside, history
  <2>5. \A c \in deleted \ missed : (honeypot' = c => honeypot = c) /\ (LogIs(c)' => LogIs(c))
    <3>1. CASE SaveGuildSetup(p)
      <4>1. job[p].kind \in {"join", "save"} /\ honeypot' = job[p].ch /\ config'.log = job[p].log
        BY <3>1, <1>t DEF SaveGuildSetup, At, Handler
      <4>2. \A c \in deleted \ missed : c # job[p].ch /\ c # job[p].log
        BY <4>1 DEF GoneInv, Naming
      <4> QED
        BY <4>1, <4>2 DEF LogIs
    <3>2. CASE DeleteGuild(p)
      BY <3>2, <1>t DEF DeleteGuild, Purge, LogIs
    <3>3. CASE GetConfig(p)
      BY <3>3 DEF GetConfig, LogIs
    <3> QED
      BY <1>4, <3>1, <3>2, <3>3
  <2> QED
    BY <2>1, <2>3, <2>4, <2>5, NamesLess DEF NoneTaken
<1>5. ASSUME NEW p \in Proc, GetGuildChannels(p) \/ CreateGuildChannel(p)
      PROVE  NoneTaken
  <2>1. \/ Returns(p) \/ \E s : GoesOn(p, s, job[p].ch)
        \/ \E c \in Channel \ deleted : GoesOn(p, "save", c)
    BY <1>5, Ends, Continues, Chooses
       DEF GetGuildChannels, CreateGuildChannel, TypeInv, TypeOK, DeletedInv
  <2>2. job[p].kind = "join" /\ job[p].log = Nil
    BY <1>5, <1>t DEF GetGuildChannels, CreateGuildChannel, At, Handler
  <2>3. \A q \in Proc : job[q].kind = "delete" => job'[q] = job[q]
    BY <2>1, <2>2 DEF Returns, GoesOn, Others
  <2>4. ASSUME NEW d \in deleted
        PROVE  \A q \in Proc : Naming(q, d)' => Naming(q, d)
    <3>1. ASSUME NEW c \in Channel \ deleted, GoesOn(p, "save", c)
          PROVE  \A q \in Proc : Naming(q, d)' => Naming(q, d)
      <4>1. /\ job'[p].ch = c /\ job'[p].log = Nil
            /\ \A q \in Proc : q # p => job'[q] = job[q]
        BY <2>2, <3>1 DEF GoesOn, Others
      <4> QED
        BY <4>1, <1>t DEF Naming
    <3> QED
      BY <2>1, <3>1, NamesLess
  <2>5. UNCHANGED <<deleted, missed, twofold, honeypot, config>>
    BY <1>5 DEF GetGuildChannels, CreateGuildChannel, outside, history
  <2> QED
    BY <2>3, <2>4, <2>5 DEF NoneTaken, LogIs
<1>6. ASSUME NEW p \in Proc, GetChannelByID(p) \/ RemoveChannel(p) \/ Compare(p) \/ UnsetLogChannel(p)
      PROVE  GoneInv'
  <2>1. Returns(p) \/ \E s \in Stage : GoesOn(p, s, job[p].ch)
    BY <1>6, Ends, Continues DEF GetChannelByID, RemoveChannel, Compare, UnsetLogChannel, Stage
  <2>2. UNCHANGED <<deleted, missed, twofold>>
    BY <1>6 DEF GetChannelByID, RemoveChannel, Compare, UnsetLogChannel, outside, history
  <2>3. ASSUME NEW c \in deleted \ missed
        PROVE  (honeypot' = c => honeypot = c) /\ (LogIs(c)' => LogIs(c))
    BY <1>6, <1>t, <2>3 DEF GetChannelByID, RemoveChannel, DeleteRow, Compare, UnsetLogChannel,
       NoLog, LogIs, Config
  <2>4. \A q \in Proc : q # p => job'[q] = job[q]
    BY <2>1 DEF Returns, GoesOn, Others
  <2>5. ASSUME NEW c \in deleted \ missed, honeypot' = c, Chased(c, {"check", "remove"})
        PROVE  Chased(c, {"check", "remove"})'
    <3>1. PICK q \in Proc : job[q].ch = c /\ job[q].at \in {"check", "remove"}
      BY <2>5 DEF Chased
    <3>2. CASE q # p
      BY <2>4, <3>1, <3>2 DEF Chased
    <3>3. CASE q = p
      <4>1. ~RemoveChannel(p)
        BY <1>t, <2>5, <3>1, <3>3 DEF RemoveChannel, DeleteRow
      <4>2. GetChannelByID(p) /\ honeypot = c
        BY <1>6, <2>3, <2>5, <3>1, <3>3, <4>1 DEF Compare, UnsetLogChannel, At
      <4>3. GoesOn(p, "remove", c)
        BY <3>1, <3>3, <4>2, Continues DEF GetChannelByID
      <4> QED
        BY <4>3 DEF GoesOn, Chased
    <3> QED
      BY <3>2, <3>3
  <2>6. ASSUME NEW c \in deleted \ missed, LogIs(c)', c \notin twofold,
               Chased(c, {"check", "compare", "unset"})
        PROVE  Chased(c, {"check", "compare", "unset"})'
    <3>1. PICK q \in Proc : job[q].ch = c /\ job[q].at \in {"check", "compare", "unset"}
      BY <2>6 DEF Chased
    <3>2. CASE q # p
      BY <2>4, <3>1, <3>2 DEF Chased
    <3>3. CASE q = p
      <4>1. LogIs(c) /\ IsLog(p)
        BY <2>3, <2>6, <3>1, <3>3 DEF LogIs, IsLog
      <4>2. ~UnsetLogChannel(p)
        BY <1>t, <2>6 DEF UnsetLogChannel, NoLog, LogIs, Config
      <4>3. honeypot # c
        BY <1>t, <2>6, <4>1 DEF TwofoldInv
      <4>4. GoesOn(p, "compare", c) \/ GoesOn(p, "unset", c)
        BY <1>6, <3>1, <3>3, <4>1, <4>2, <4>3, Continues
           DEF GetChannelByID, RemoveChannel, Compare, At
      <4> QED
        BY <4>4 DEF GoesOn, Chased
    <3> QED
      BY <3>2, <3>3
  <2>7. \A c : \A q \in Proc : Naming(q, c)' => Naming(q, c)
    BY <2>1, NamesLess
  <2> SUFFICES ASSUME NEW c \in deleted \ missed
               PROVE  /\ \A q \in Proc : ~Naming(q, c)'
                      /\ honeypot' = c => Chased(c, {"check", "remove"})'
                      /\ LogIs(c)' /\ c \notin twofold' =>
                            Chased(c, {"check", "compare", "unset"})'
    BY <2>2 DEF GoneInv
  <2>8. \A q \in Proc : ~Naming(q, c)'
    BY <2>7 DEF GoneInv
  <2>9. honeypot' = c => Chased(c, {"check", "remove"})'
    BY <2>2, <2>3, <2>5 DEF GoneInv
  <2>10. LogIs(c)' /\ c \notin twofold' => Chased(c, {"check", "compare", "unset"})'
    BY <2>2, <2>3, <2>6 DEF GoneInv
  <2> QED
    BY <2>8, <2>9, <2>10
<1>7. CASE Restart
  <2>1. /\ \A p \in Proc : job'[p] = Idle /\ (job[p].kind = "delete" => job[p].ch \in missed')
        /\ missed \subseteq missed'
    BY <1>7 DEF Restart
  <2>2. \A c : \A p \in Proc : ~Naming(p, c)'
    BY <1>i, <2>1 DEF Naming
  <2>3. NoneTaken
    BY <1>7, <2>1, <2>2 DEF Restart, NoneTaken, LogIs
  <2> QED
    BY <2>3, NoneTakenKeeps
<1>8. CASE Rest \/ UNCHANGED vars
  <2>1. NoneTaken
    BY <1>8 DEF Rest, vars, history, NoneTaken, LogIs, Naming
  <2> QED
    BY <2>1, NoneTakenKeeps
<1> QED
  BY <1>1, <1>2, <1>3, <1>f, <1>4, <1>5, <1>6, <1>7, <1>8, NoneTakenKeeps DEF Next, Step

LEMMA GoneInit == Init => GoneInv
BY DEF Init, GoneInv

(* A channel whose deletion has been handled is neither the honeypot nor,  *)
(* unless it was both, the log channel: whoever registers it has named it  *)
(* before, and handleContainerDelete looks at it once more.                *)
THEOREM GoneDeregistered == Spec => []GoneIsDeregistered
<1>1. TypeInv /\ GoneInv => GoneIsDeregistered
  <2> SUFFICES ASSUME TypeInv, GoneInv, NEW c \in deleted \ missed,
                      \A p \in Proc : job[p].kind = "delete" => job[p].ch # c
               PROVE  honeypot # c /\ (config # NoConfig /\ config.log = c => c \in twofold)
    BY DEF GoneIsDeregistered
  <2>1. \A p \in Proc : job[p].at \in Tidying => job[p].ch # c
    BY DEF TypeInv, HandlersInv, Handler
  <2>2. ~Chased(c, {"check", "remove"}) /\ ~Chased(c, {"check", "compare", "unset"})
    BY <2>1 DEF Chased, Tidying
  <2> QED
    BY <2>2 DEF GoneInv, LogIs
<1>2. Spec => [](TypeInv /\ DeletedInv /\ TwofoldInv /\ GoneInv)
  BY TypeInit, TypeStep, DeletedInit, DeletedStep, TwofoldInit, TwofoldStep, GoneInit, GoneStep,
     PTL DEF Spec
<1> QED
  BY <1>1, <1>2, PTL
=============================================================================
