----------------------------- MODULE StoreProofs -----------------------------
(***************************************************************************)
(* Theorems about Store, for every number of goroutines, guilds, channels  *)
(* and messages.  Each invariant is inductive on top of the type invariant.*)
(***************************************************************************)
EXTENDS Store, TLAPS

USE StoreAssumption, IdleAssumption

(* Every write leaves well-typed tables, a well-typed mirror and a call    *)
(* record whose message lives in the channel it names.                     *)
LEMMA TypeStep == TypeOK /\ [Next]_vars => TypeOK'
<1> SUFFICES ASSUME TypeOK, [Next]_vars PROVE TypeOK'
  OBVIOUS
<1> USE DEF TypeOK, AtHome, Table, Settings
<1>1. ASSUME NEW p \in Proc, NEW c \in Channel, SetChannel(p, c)
      PROVE  TypeOK'
  BY <1>1 DEF SetChannel, Commit, setChannelTx, tables, Call, Swap, MsgSet
<1>2. ASSUME NEW p \in Proc, NEW c \in Channel, RemoveChannel(p, c)
      PROVE  TypeOK'
  BY <1>2 DEF RemoveChannel, Commit, DeleteRow, Call, Removal, MsgSet
<1>3. ASSUME NEW p \in Proc, NEW c \in Channel, NEW s \in Settings,
             SaveGuildSetup(p, c, s)
      PROVE  TypeOK'
  BY <1>3 DEF SaveGuildSetup, Commit, setChannelTx, Call, Swap, MsgSet
<1>4. ASSUME NEW p \in Proc, NEW c \in Channel, NEW v \in Msg \union {Nil},
             SetWarningMsg(p, c, v)
      PROVE  TypeOK'
  <2>1. rows' \in Table /\ AtHome(rows')
    BY <1>4 DEF SetWarningMsg, UpdateMsg
  <2>2. pending' \in [Proc -> Call \union {Idle}]
    BY <1>4 DEF SetWarningMsg, Commit, Call
  <2>3. \A q \in Proc : \A d \in Channel : \A w \in Msg :
            pending'[q] = MsgSet(d, w) => Home[w] = d
    BY <1>4 DEF SetWarningMsg, Commit, MsgSet
  <2> QED
    BY <1>4, <2>1, <2>2, <2>3 DEF SetWarningMsg, Commit
<1>5. ASSUME NEW p \in Proc, NEW v \in Msg, CheckKnown(p, v)
      PROVE  TypeOK'
  BY <1>5 DEF CheckKnown, tables, Call, Clearing, MsgSet
<1>6. ASSUME NEW p \in Proc, NEW v \in Msg, ClearWarningMsg(p, v)
      PROVE  TypeOK'
  BY <1>6 DEF ClearWarningMsg, Commit, UpdateMsgToNull, Call, Cleared, MsgSet
<1>7. ASSUME NEW p \in Proc, NEW v \in Msg, ClearFails(p, v)
      PROVE  TypeOK'
  BY <1>7 DEF ClearFails, tables, Call, MsgSet
<1>8. ASSUME NEW p \in Proc, NEW g \in Guild, DeleteGuild(p, g)
      PROVE  TypeOK'
  BY <1>8 DEF DeleteGuild, Commit, CascadeGuild, Call, Purge, MsgSet
<1>9. ASSUME NEW p \in Proc, UpdateMirror(p)
      PROVE  TypeOK'
  <2>1. pending[p] \in Call
    BY <1>9 DEF UpdateMirror, Unapplied, Touches
  <2>2. mirror' \in Table /\ AtHome(mirror')
    <3>0. mirror' = Mirrored(pending[p], mirror)
      BY <1>9 DEF UpdateMirror
    <3>1. ASSUME NEW c \in Channel, pending[p] = Swap(Owner[c], c)
          PROVE  mirror' \in Table /\ AtHome(mirror')
      BY <3>0, <3>1 DEF Mirrored, Swap, applyChannelSwap
    <3>2. ASSUME NEW c \in Channel, NEW v \in Msg \union {Nil}, pending[p] = MsgSet(c, v)
          PROVE  mirror' \in Table /\ AtHome(mirror')
      BY <3>0, <3>2 DEF Mirrored, MsgSet, MirrorMsg
    <3>3. ASSUME NEW v \in Msg, pending[p] = Cleared(v)
          PROVE  mirror' \in Table /\ AtHome(mirror')
      BY <3>0, <3>3 DEF Mirrored, Cleared, MirrorMsgToNil
    <3>4. ASSUME NEW c \in Channel, pending[p] = Removal(c)
          PROVE  mirror' \in Table /\ AtHome(mirror')
      BY <3>0, <3>4 DEF Mirrored, Removal, MirrorDelete
    <3>5. ASSUME NEW g \in Guild, pending[p] = Purge(g)
          PROVE  mirror' \in Table /\ AtHome(mirror')
      BY <3>0, <3>5 DEF Mirrored, Purge, MirrorSweep
    <3>6. ASSUME NEW v \in Msg PROVE pending[p] # Clearing(v)
      BY <1>9 DEF UpdateMirror, Unapplied, Touches, Clearing
    <3> QED
      BY <2>1, <3>1, <3>2, <3>3, <3>4, <3>5, <3>6 DEF Call
  <2> QED
    BY <1>9, <2>2 DEF UpdateMirror, tables, Call, MsgSet
<1>10. ASSUME NEW g \in Guild, UnsetLogChannel(g)
       PROVE  TypeOK'
  BY <1>10 DEF UnsetLogChannel
<1>11. ASSUME NEW g \in Guild, NEW s \in Settings, UpsertConfig(g, s)
       PROVE  TypeOK'
  BY <1>11 DEF UpsertConfig
<1>12. ASSUME NEW g \in Guild, NEW c \in Channel \union {Nil}, RecordEvent(g, c)
       PROVE  TypeOK'
  BY <1>12 DEF RecordEvent
<1>13. CASE Reopen
  BY <1>13 DEF Reopen, loadChannels, tables, Call, MsgSet
<1>14. CASE UNCHANGED vars
  BY <1>14 DEF vars
<1> QED
  BY <1>1, <1>2, <1>3, <1>4, <1>5, <1>6, <1>7, <1>8, <1>9, <1>10, <1>11,
     <1>12, <1>13, <1>14 DEF Next, Writes

(* The tables, the mirror and the calls under way keep their types.        *)
THEOREM TypeCorrect == Spec => []TypeOK
<1>1. Init => TypeOK
  BY DEF Init, TypeOK, AtHome, Table, Call, MsgSet
<1> QED
  BY <1>1, TypeStep, PTL DEF Spec

-----------------------------------------------------------------------------
(* What a committed write does to a map, operation by operation.           *)
LEMMA MirroredCases ==
  ASSUME NEW t
  PROVE  /\ \A g, c : Mirrored(Swap(g, c), t) = applyChannelSwap(t, g, c)
         /\ \A c, v : Mirrored(MsgSet(c, v), t) = MirrorMsg(t, c, v)
         /\ \A v : Mirrored(Cleared(v), t) = MirrorMsgToNil(t, v)
         /\ \A c : Mirrored(Removal(c), t) = MirrorDelete(t, c)
         /\ \A g : Mirrored(Purge(g), t) = MirrorSweep(t, g)
BY DEF Mirrored, Swap, MsgSet, Cleared, Removal, Purge

(* The same, entry by entry of a well-typed map.                           *)
LEMMA MirroredAt ==
  ASSUME NEW t \in Table, NEW d \in Channel
  PROVE  /\ \A g \in Guild, c \in Channel :
               applyChannelSwap(t, g, c)[d] =
                  IF d = c THEN IF t[d] = NoRow THEN Nil ELSE t[d]
                  ELSE IF Owner[d] = g THEN NoRow ELSE t[d]
         /\ \A c \in Channel : \A v :
               MirrorMsg(t, c, v)[d] = IF d = c /\ t[d] # NoRow THEN v ELSE t[d]
         /\ \A v : MirrorMsgToNil(t, v)[d] = IF t[d] = v THEN Nil ELSE t[d]
         /\ \A c \in Channel :
               MirrorDelete(t, c)[d] = IF d = c THEN NoRow ELSE t[d]
         /\ \A g : MirrorSweep(t, g)[d] = IF Owner[d] = g THEN NoRow ELSE t[d]
BY DEF Table, applyChannelSwap, MirrorMsg, MirrorMsgToNil, MirrorDelete, MirrorSweep

(* Which guild each call concerns, and that a check not yet committed and   *)
(* an idle goroutine concern none.                                          *)
LEMMA TouchCases ==
  /\ \A c \in Channel : \A g : Touches(Swap(Owner[c], c), g) <=> Owner[c] = g
  /\ \A c \in Channel, v \in Msg \union {Nil} : \A g :
        Touches(MsgSet(c, v), g) <=> Owner[c] = g
  /\ \A v \in Msg : \A g : Touches(Cleared(v), g) <=> Owner[Home[v]] = g
  /\ \A c \in Channel : \A g : Touches(Removal(c), g) <=> Owner[c] = g
  /\ \A h \in Guild : \A g : Touches(Purge(h), g) <=> h = g
  /\ \A v, g : ~Touches(Clearing(v), g)
  /\ \A g : ~Touches(Idle, g)
<1>1. \A c \in Channel : \A g : Touches(Swap(Owner[c], c), g) <=> Owner[c] = g
  <2>1. \A c \in Channel : Swap(Owner[c], c) \in Call
    BY DEF Call
  <2> QED
    BY <2>1 DEF Touches, Swap
<1>2. \A c \in Channel, v \in Msg \union {Nil} : \A g :
        Touches(MsgSet(c, v), g) <=> Owner[c] = g
  <2>1. \A c \in Channel, v \in Msg \union {Nil} : MsgSet(c, v) \in Call
    BY DEF Call
  <2> QED
    BY <2>1 DEF Touches, MsgSet
<1>3. \A v \in Msg : \A g : Touches(Cleared(v), g) <=> Owner[Home[v]] = g
  <2>1. \A v \in Msg : Cleared(v) \in Call
    BY DEF Call
  <2> QED
    BY <2>1 DEF Touches, Cleared
<1>4. \A c \in Channel : \A g : Touches(Removal(c), g) <=> Owner[c] = g
  <2>1. \A c \in Channel : Removal(c) \in Call
    BY DEF Call
  <2> QED
    BY <2>1 DEF Touches, Removal
<1>5. \A h \in Guild : \A g : Touches(Purge(h), g) <=> h = g
  <2>1. \A h \in Guild : Purge(h) \in Call
    BY DEF Call
  <2> QED
    BY <2>1 DEF Touches, Purge
<1>6. \A v, g : ~Touches(Clearing(v), g)
  BY DEF Touches, Clearing
<1>7. \A g : ~Touches(Idle, g)
  BY DEF Touches
<1> QED
  BY <1>1, <1>2, <1>3, <1>4, <1>5, <1>6, <1>7

(* A write waiting to be mirrored is one of the five kinds of commit.      *)
LEMMA WaitingCases ==
  ASSUME TypeOK, NEW p \in Proc, NEW g \in Guild, Touches(pending[p], g)
  PROVE  \/ \E c \in Channel : pending[p] = Swap(Owner[c], c)
         \/ \E c \in Channel, v \in Msg \union {Nil} : pending[p] = MsgSet(c, v)
         \/ \E v \in Msg : pending[p] = Cleared(v)
         \/ \E c \in Channel : pending[p] = Removal(c)
         \/ \E h \in Guild : pending[p] = Purge(h)
BY TouchCases DEF TypeOK, Call

(* Mirroring a write changes a map only for the guild of the write.        *)
LEMMA MirroredIsLocal ==
  ASSUME TypeOK, NEW p \in Proc, NEW g \in Guild, Touches(pending[p], g),
         NEW t \in Table, AtHome(t), NEW h \in Guild, h # g
  PROVE  SameFor(h, Mirrored(pending[p], t), t)
<1> SUFFICES ASSUME NEW d \in Channel, Owner[d] = h
             PROVE  Mirrored(pending[p], t)[d] = t[d]
  BY DEF SameFor
<1>1. ASSUME NEW c \in Channel, pending[p] = Swap(Owner[c], c)
      PROVE  Mirrored(pending[p], t)[d] = t[d]
  <2>1. Mirrored(pending[p], t) = applyChannelSwap(t, Owner[c], c)
    BY <1>1, MirroredCases
  <2> QED
    BY <1>1, <2>1, MirroredAt, TouchCases
<1>2. ASSUME NEW c \in Channel, NEW v \in Msg \union {Nil}, pending[p] = MsgSet(c, v)
      PROVE  Mirrored(pending[p], t)[d] = t[d]
  <2>1. Mirrored(pending[p], t) = MirrorMsg(t, c, v)
    BY <1>2, MirroredCases
  <2> QED
    BY <1>2, <2>1, MirroredAt, TouchCases
<1>3. ASSUME NEW v \in Msg, pending[p] = Cleared(v)
      PROVE  Mirrored(pending[p], t)[d] = t[d]
  <2>1. Mirrored(pending[p], t) = MirrorMsgToNil(t, v)
    BY <1>3, MirroredCases
  <2> QED
    BY <1>3, <2>1, MirroredAt, TouchCases DEF AtHome
<1>4. ASSUME NEW c \in Channel, pending[p] = Removal(c)
      PROVE  Mirrored(pending[p], t)[d] = t[d]
  <2>1. Mirrored(pending[p], t) = MirrorDelete(t, c)
    BY <1>4, MirroredCases
  <2> QED
    BY <1>4, <2>1, MirroredAt, TouchCases
<1>5. ASSUME NEW x \in Guild, pending[p] = Purge(x)
      PROVE  Mirrored(pending[p], t)[d] = t[d]
  <2>1. Mirrored(pending[p], t) = MirrorSweep(t, x)
    BY <1>5, MirroredCases
  <2> QED
    BY <1>5, <2>1, MirroredAt, TouchCases
<1> QED
  BY <1>1, <1>2, <1>3, <1>4, <1>5, WaitingCases

(* Maps that agree on a guild still agree on it once mirrored.             *)
LEMMA MirroredIsCongruent ==
  ASSUME TypeOK, NEW p \in Proc, NEW g \in Guild, Touches(pending[p], g),
         NEW t \in Table, NEW u \in Table, SameFor(g, t, u)
  PROVE  SameFor(g, Mirrored(pending[p], t), Mirrored(pending[p], u))
<1> SUFFICES ASSUME NEW d \in Channel, Owner[d] = g
             PROVE  Mirrored(pending[p], t)[d] = Mirrored(pending[p], u)[d]
  BY DEF SameFor
<1>0. t[d] = u[d]
  BY DEF SameFor
<1>1. ASSUME NEW c \in Channel, pending[p] = Swap(Owner[c], c)
      PROVE  Mirrored(pending[p], t)[d] = Mirrored(pending[p], u)[d]
  <2>1. /\ Mirrored(pending[p], t) = applyChannelSwap(t, Owner[c], c)
        /\ Mirrored(pending[p], u) = applyChannelSwap(u, Owner[c], c)
    BY <1>1, MirroredCases
  <2> QED
    BY <1>0, <2>1, MirroredAt
<1>2. ASSUME NEW c \in Channel, NEW v \in Msg \union {Nil}, pending[p] = MsgSet(c, v)
      PROVE  Mirrored(pending[p], t)[d] = Mirrored(pending[p], u)[d]
  <2>1. /\ Mirrored(pending[p], t) = MirrorMsg(t, c, v)
        /\ Mirrored(pending[p], u) = MirrorMsg(u, c, v)
    BY <1>2, MirroredCases
  <2> QED
    BY <1>0, <2>1, MirroredAt
<1>3. ASSUME NEW v \in Msg, pending[p] = Cleared(v)
      PROVE  Mirrored(pending[p], t)[d] = Mirrored(pending[p], u)[d]
  <2>1. /\ Mirrored(pending[p], t) = MirrorMsgToNil(t, v)
        /\ Mirrored(pending[p], u) = MirrorMsgToNil(u, v)
    BY <1>3, MirroredCases
  <2> QED
    BY <1>0, <2>1, MirroredAt
<1>4. ASSUME NEW c \in Channel, pending[p] = Removal(c)
      PROVE  Mirrored(pending[p], t)[d] = Mirrored(pending[p], u)[d]
  <2>1. /\ Mirrored(pending[p], t) = MirrorDelete(t, c)
        /\ Mirrored(pending[p], u) = MirrorDelete(u, c)
    BY <1>4, MirroredCases
  <2> QED
    BY <1>0, <2>1, MirroredAt
<1>5. ASSUME NEW x \in Guild, pending[p] = Purge(x)
      PROVE  Mirrored(pending[p], t)[d] = Mirrored(pending[p], u)[d]
  <2>1. /\ Mirrored(pending[p], t) = MirrorSweep(t, x)
        /\ Mirrored(pending[p], u) = MirrorSweep(u, x)
    BY <1>5, MirroredCases
  <2> QED
    BY <1>0, <2>1, MirroredAt
<1> QED
  BY <1>1, <1>2, <1>3, <1>4, <1>5, WaitingCases

-----------------------------------------------------------------------------
(* A commit on guild h of a goroutine that had no write waiting keeps      *)
(* MirrorTracksTable, provided it touches no other guild and the mirror    *)
(* update it leaves behind repeats on h what it did to the table.          *)
LEMMA CommitTracks ==
  ASSUME TypeOK, MirrorTracksTable,
         NEW p \in Proc, NEW h \in Guild, NEW o,
         \A g : ~Touches(pending[p], g),
         \A g \in Guild : Touches(o, g) <=> g = h,
         Commit(p, h, o),
         \A g \in Guild \ {h} : SameFor(g, rows', rows),
         SameFor(h, mirror, rows) => SameFor(h, Mirrored(o, mirror), rows')
  PROVE  MirrorTracksTable'
<1> SUFFICES ASSUME NEW g \in Guild, g \notin raced'
             PROVE  /\ Unapplied(g)' = {} => SameFor(g, mirror', rows')
                    /\ \A q \in Unapplied(g)' : SameFor(g, Mirrored(pending'[q], mirror'), rows')
                    /\ \A q, r \in Unapplied(g)' : q = r
  BY DEF MirrorTracksTable
<1>1. mirror' = mirror /\ pending' = [pending EXCEPT ![p] = o] /\ g \notin raced
  BY DEF Commit
<1>2. \A q \in Proc : Touches(pending[q], g)' = Touches(pending'[q], g)
  BY DEF Touches
<1>3. \A q \in Proc \ {p} : pending'[q] = pending[q]
  BY <1>1 DEF TypeOK
<1>4. pending'[p] = o
  BY <1>1 DEF TypeOK
<1>5. CASE g = h
  <2>1. Unapplied(g) = {}
    BY <1>5 DEF Commit
  <2>2. Unapplied(g)' = {p}
    BY <1>2, <1>3, <1>4, <1>5, <2>1 DEF Unapplied
  <2>3. SameFor(g, mirror, rows)
    BY <1>1, <2>1 DEF MirrorTracksTable
  <2> QED
    BY <1>1, <1>4, <1>5, <2>2, <2>3
<1>6. CASE g # h
  <2>1. Unapplied(g)' = Unapplied(g)
    BY <1>2, <1>3, <1>4, <1>6 DEF Unapplied
  <2>2. p \notin Unapplied(g) /\ Unapplied(g) \subseteq Proc
    BY DEF Unapplied
  <2>3. SameFor(g, rows', rows)
    BY <1>6
  <2> QED
    BY <1>1, <1>3, <2>1, <2>2, <2>3 DEF MirrorTracksTable, SameFor
<1> QED
  BY <1>5, <1>6

(* Mirroring the one write that waits on guild h brings the mirror of h    *)
(* level with the table and leaves the other guilds alone.                 *)
LEMMA UpdateMirrorTracks ==
  ASSUME TypeOK, TypeOK', MirrorTracksTable, NEW p \in Proc, UpdateMirror(p)
  PROVE  MirrorTracksTable'
<1> SUFFICES ASSUME NEW g \in Guild, g \notin raced'
             PROVE  /\ Unapplied(g)' = {} => SameFor(g, mirror', rows')
                    /\ \A q \in Unapplied(g)' : SameFor(g, Mirrored(pending'[q], mirror'), rows')
                    /\ \A q, r \in Unapplied(g)' : q = r
  BY DEF MirrorTracksTable
<1>1. /\ rows' = rows /\ g \notin raced /\ mirror' = Mirrored(pending[p], mirror)
      /\ pending' = [pending EXCEPT ![p] = Idle]
  BY DEF UpdateMirror, tables
<1>2. PICK h \in Guild : Touches(pending[p], h)
  BY DEF UpdateMirror, Unapplied
<1>3. \A q \in Proc : Touches(pending[q], g)' = Touches(pending'[q], g)
  BY DEF Touches
<1>4. pending'[p] = Idle /\ \A q \in Proc \ {p} : pending'[q] = pending[q]
  BY <1>1 DEF TypeOK
<1>5. Unapplied(g)' = Unapplied(g) \ {p}
  BY <1>3, <1>4, TouchCases DEF Unapplied
<1>6. CASE p \in Unapplied(g)
  <2>1. Unapplied(g)' = {}
    BY <1>1, <1>5, <1>6 DEF MirrorTracksTable
  <2>2. SameFor(g, Mirrored(pending[p], mirror), rows)
    BY <1>1, <1>6 DEF MirrorTracksTable
  <2> QED
    BY <1>1, <2>1, <2>2
<1>7. CASE p \notin Unapplied(g)
  <2>1. g # h
    BY <1>2, <1>7 DEF Unapplied
  <2>2. mirror \in Table /\ mirror' \in Table /\ AtHome(mirror)
    BY DEF TypeOK
  <2>3. SameFor(g, mirror', mirror)
    BY <1>1, <1>2, <2>1, <2>2, MirroredIsLocal
  <2>4. Unapplied(g)' = Unapplied(g)
    BY <1>5, <1>7
  <2>5. ASSUME NEW q \in Unapplied(g)
        PROVE  SameFor(g, Mirrored(pending'[q], mirror'), rows)
    <3>1. q \in Proc /\ q # p /\ Touches(pending[q], g)
      BY <1>7 DEF Unapplied
    <3>2. pending'[q] = pending[q]
      BY <1>4, <3>1
    <3>3. SameFor(g, Mirrored(pending[q], mirror), rows)
      BY <1>1 DEF MirrorTracksTable
    <3>4. SameFor(g, Mirrored(pending[q], mirror'), Mirrored(pending[q], mirror))
      BY <2>2, <2>3, <3>1, MirroredIsCongruent
    <3> QED
      BY <3>2, <3>3, <3>4 DEF SameFor
  <2> QED
    BY <1>1, <2>3, <2>4, <2>5 DEF MirrorTracksTable, SameFor
<1> QED
  BY <1>6, <1>7

(* Every step keeps the mirror level with the table where writes do not    *)
(* overlap: the six commits leave an update behind that repeats them, the  *)
(* mirror update pays it, Reopen starts afresh, the rest touches neither.  *)
LEMMA TracksStep ==
  TypeOK /\ TypeOK' /\ MirrorTracksTable /\ [Next]_vars => MirrorTracksTable'
<1> SUFFICES ASSUME TypeOK, TypeOK', MirrorTracksTable, [Next]_vars
             PROVE  MirrorTracksTable'
  OBVIOUS
<1> DEFINE Quiet(p) == \A g : ~Touches(pending[p], g)
<1>t. rows \in Table /\ rows' \in Table /\ mirror \in Table /\ AtHome(rows)
  BY DEF TypeOK
<1>q. ASSUME NEW p \in Proc, pending[p] = Idle PROVE Quiet(p)
  BY <1>q, TouchCases
<1>s. ASSUME NEW p \in Proc, NEW c \in Channel, pending[p] = Idle,
             rows' = setChannelTx(Owner[c], c), Commit(p, Owner[c], Swap(Owner[c], c))
      PROVE  MirrorTracksTable'
  <2>1. \A g \in Guild : Touches(Swap(Owner[c], c), g) <=> g = Owner[c]
    BY TouchCases
  <2>2. \A g \in Guild \ {Owner[c]} : SameFor(g, rows', rows)
    BY <1>s, <1>t DEF setChannelTx, SameFor, Table
  <2>3. Mirrored(Swap(Owner[c], c), mirror) = applyChannelSwap(mirror, Owner[c], c)
    BY MirroredCases
  <2>4. SameFor(Owner[c], mirror, rows)
            => SameFor(Owner[c], Mirrored(Swap(Owner[c], c), mirror), rows')
    BY <1>s, <1>t, <2>3, MirroredAt DEF setChannelTx, SameFor
  <2>5. Owner[c] \in Guild
    OBVIOUS
  <2> QED
    BY <1>q, <1>s, <2>1, <2>2, <2>4, <2>5, CommitTracks
<1>1. ASSUME NEW p \in Proc, NEW c \in Channel, SetChannel(p, c)
      PROVE  MirrorTracksTable'
  BY <1>1, <1>s DEF SetChannel
<1>2. ASSUME NEW p \in Proc, NEW c \in Channel, NEW s \in Settings,
             SaveGuildSetup(p, c, s)
      PROVE  MirrorTracksTable'
  BY <1>2, <1>s DEF SaveGuildSetup
<1>3. ASSUME NEW p \in Proc, NEW c \in Channel, RemoveChannel(p, c)
      PROVE  MirrorTracksTable'
  <2>1. \A g \in Guild : Touches(Removal(c), g) <=> g = Owner[c]
    BY TouchCases
  <2>2. \A g \in Guild \ {Owner[c]} : SameFor(g, rows', rows)
    BY <1>3, <1>t DEF RemoveChannel, DeleteRow, SameFor, Table
  <2>3. Mirrored(Removal(c), mirror) = MirrorDelete(mirror, c)
    BY MirroredCases
  <2>4. SameFor(Owner[c], mirror, rows)
            => SameFor(Owner[c], Mirrored(Removal(c), mirror), rows')
    BY <1>3, <1>t, <2>3, MirroredAt DEF RemoveChannel, DeleteRow, SameFor, Table
  <2>5. Owner[c] \in Guild /\ pending[p] = Idle /\ Commit(p, Owner[c], Removal(c))
    BY <1>3 DEF RemoveChannel
  <2> QED
    BY <1>q, <2>1, <2>2, <2>4, <2>5, CommitTracks
<1>4. ASSUME NEW p \in Proc, NEW c \in Channel, NEW v \in Msg \union {Nil},
             SetWarningMsg(p, c, v)
      PROVE  MirrorTracksTable'
  <2>1. \A g \in Guild : Touches(MsgSet(c, v), g) <=> g = Owner[c]
    BY TouchCases
  <2>2. \A g \in Guild \ {Owner[c]} : SameFor(g, rows', rows)
    BY <1>4, <1>t DEF SetWarningMsg, UpdateMsg, SameFor, Table
  <2>3. Mirrored(MsgSet(c, v), mirror) = MirrorMsg(mirror, c, v)
    BY MirroredCases
  <2>4. SameFor(Owner[c], mirror, rows)
            => SameFor(Owner[c], Mirrored(MsgSet(c, v), mirror), rows')
    BY <1>4, <1>t, <2>3, MirroredAt DEF SetWarningMsg, UpdateMsg, SameFor, Table
  <2>5. Owner[c] \in Guild /\ pending[p] = Idle /\ Commit(p, Owner[c], MsgSet(c, v))
    BY <1>4 DEF SetWarningMsg
  <2> QED
    BY <1>q, <2>1, <2>2, <2>4, <2>5, CommitTracks
<1>5. ASSUME NEW p \in Proc, NEW v \in Msg, ClearWarningMsg(p, v)
      PROVE  MirrorTracksTable'
  <2>1. \A g \in Guild : Touches(Cleared(v), g) <=> g = Owner[Home[v]]
    BY TouchCases
  <2>2. \A g \in Guild \ {Owner[Home[v]]} : SameFor(g, rows', rows)
    BY <1>5, <1>t DEF ClearWarningMsg, UpdateMsgToNull, SameFor, Table, AtHome
  <2>3. Mirrored(Cleared(v), mirror) = MirrorMsgToNil(mirror, v)
    BY MirroredCases
  <2>4. SameFor(Owner[Home[v]], mirror, rows)
            => SameFor(Owner[Home[v]], Mirrored(Cleared(v), mirror), rows')
    <3>1. \A d \in Channel : rows'[d] = IF rows[d] = v THEN Nil ELSE rows[d]
      BY <1>5 DEF ClearWarningMsg, UpdateMsgToNull
    <3>2. \A d \in Channel : MirrorMsgToNil(mirror, v)[d]
                                = IF mirror[d] = v THEN Nil ELSE mirror[d]
      BY <1>t, MirroredAt
    <3> QED
      BY <2>3, <3>1, <3>2 DEF SameFor
  <2>5. Owner[Home[v]] \in Guild /\ Quiet(p) /\ Commit(p, Owner[Home[v]], Cleared(v))
    BY <1>5, TouchCases DEF ClearWarningMsg
  <2> QED
    BY <2>1, <2>2, <2>4, <2>5, CommitTracks
<1>6. ASSUME NEW p \in Proc, NEW g \in Guild, DeleteGuild(p, g)
      PROVE  MirrorTracksTable'
  <2>1. \A h \in Guild : Touches(Purge(g), h) <=> h = g
    BY TouchCases
  <2>2. \A h \in Guild \ {g} : SameFor(h, rows', rows)
    BY <1>6, <1>t DEF DeleteGuild, CascadeGuild, SameFor, Table
  <2>3. Mirrored(Purge(g), mirror) = MirrorSweep(mirror, g)
    BY MirroredCases
  <2>4. SameFor(g, mirror, rows) => SameFor(g, Mirrored(Purge(g), mirror), rows')
    <3>1. \A d \in Channel : rows'[d] = IF Owner[d] = g THEN NoRow ELSE rows[d]
      BY <1>6 DEF DeleteGuild, CascadeGuild
    <3>2. \A d \in Channel : MirrorSweep(mirror, g)[d]
                                = IF Owner[d] = g THEN NoRow ELSE mirror[d]
      BY <1>t, MirroredAt
    <3> QED
      BY <2>3, <3>1, <3>2 DEF SameFor
  <2>5. pending[p] = Idle /\ Commit(p, g, Purge(g))
    BY <1>6 DEF DeleteGuild
  <2> QED
    BY <1>q, <2>1, <2>2, <2>4, <2>5, CommitTracks
<1>7. ASSUME NEW p \in Proc, UpdateMirror(p)
      PROVE  MirrorTracksTable'
  BY <1>7, UpdateMirrorTracks
<1>8. CASE Reopen
  <2>1. \A g \in Guild : Unapplied(g)' = {}
    BY <1>8, TouchCases DEF Reopen, loadChannels, Unapplied, Touches
  <2> QED
    BY <1>8, <2>1 DEF Reopen, loadChannels, tables, MirrorTracksTable, SameFor
<1>9. ASSUME NEW p \in Proc, NEW v \in Msg, CheckKnown(p, v) \/ ClearFails(p, v)
      PROVE  MirrorTracksTable'
  <2>1. rows' = rows /\ mirror' = mirror /\ raced' = raced
    BY <1>9 DEF CheckKnown, ClearFails, tables
  <2>2. /\ \A q \in Proc \ {p} : pending'[q] = pending[q]
        /\ pending[p] \in {Idle, Clearing(v)} /\ pending'[p] \in {Idle, Clearing(v)}
    BY <1>9 DEF CheckKnown, ClearFails, TypeOK
  <2>3. \A g \in Guild : Unapplied(g)' = Unapplied(g) /\ p \notin Unapplied(g)
    BY <2>2, TouchCases DEF Unapplied, Touches
  <2>4. \A g \in Guild : \A q \in Unapplied(g) : pending'[q] = pending[q]
    BY <2>2, <2>3 DEF Unapplied
  <2> QED
    BY <2>1, <2>3, <2>4 DEF MirrorTracksTable
<1>10. CASE UNCHANGED <<rows, mirror, pending, raced>>
  <2>1. \A g \in Guild : Unapplied(g)' = Unapplied(g)
    BY <1>10 DEF Unapplied, Touches
  <2> QED
    BY <1>10, <2>1 DEF MirrorTracksTable
<1>11. ASSUME NEW g \in Guild, \/ UnsetLogChannel(g)
                               \/ \E s \in Settings : UpsertConfig(g, s)
                               \/ \E c \in Channel \union {Nil} : RecordEvent(g, c)
       PROVE  UNCHANGED <<rows, mirror, pending, raced>>
  BY <1>11 DEF UnsetLogChannel, UpsertConfig, RecordEvent
<1>12. UNCHANGED vars => UNCHANGED <<rows, mirror, pending, raced>>
  BY DEF vars
<1> QED
  BY <1>1, <1>2, <1>3, <1>4, <1>5, <1>6, <1>7, <1>8, <1>9, <1>10, <1>11, <1>12
     DEF Next, Writes

(* The mirror serves every channel read: for a guild whose writes have not *)
(* overlapped since Open it is the table, or will be once the one write    *)
(* that waits has been mirrored.                                           *)
THEOREM MirrorFollows == Spec => []MirrorTracksTable
<1>1. Init => MirrorTracksTable
  <2> SUFFICES ASSUME Init PROVE MirrorTracksTable
    OBVIOUS
  <2>1. \A g \in Guild : Unapplied(g) = {}
    BY TouchCases DEF Init, Unapplied
  <2> QED
    BY <2>1 DEF Init, MirrorTracksTable, SameFor
<1> QED
  BY <1>1, TypeCorrect, TracksStep, PTL DEF Spec

-----------------------------------------------------------------------------
(* A swap leaves its guild one row, the other writes add none.             *)
LEMMA SingleStep == TypeOK /\ SingleHoneypot /\ [Next]_vars => SingleHoneypot'
<1> SUFFICES ASSUME TypeOK, SingleHoneypot, [Next]_vars PROVE SingleHoneypot'
  OBVIOUS
<1> USE DEF SingleHoneypot, OnePerGuild
<1>t. rows \in Table /\ mirror \in Table
  BY DEF TypeOK
<1>1. ASSUME NEW p \in Proc, NEW c \in Channel,
             \/ SetChannel(p, c)
             \/ \E s \in Settings : SaveGuildSetup(p, c, s)
      PROVE  SingleHoneypot'
  BY <1>1 DEF SetChannel, SaveGuildSetup, Commit, setChannelTx
<1>2. ASSUME NEW p \in Proc, NEW c \in Channel, RemoveChannel(p, c)
      PROVE  SingleHoneypot'
  BY <1>2, <1>t DEF RemoveChannel, Commit, DeleteRow, Table
<1>3. ASSUME NEW p \in Proc, NEW c \in Channel, NEW v \in Msg \union {Nil},
             SetWarningMsg(p, c, v)
      PROVE  SingleHoneypot'
  BY <1>3, <1>t DEF SetWarningMsg, Commit, UpdateMsg, Table
<1>4. ASSUME NEW p \in Proc, NEW v \in Msg, ClearWarningMsg(p, v)
      PROVE  SingleHoneypot'
  BY <1>4, <1>t DEF ClearWarningMsg, Commit, UpdateMsgToNull, Table
<1>5. ASSUME NEW p \in Proc, NEW g \in Guild, DeleteGuild(p, g)
      PROVE  SingleHoneypot'
  BY <1>5, <1>t DEF DeleteGuild, Commit, CascadeGuild, Table
<1>6. ASSUME NEW p \in Proc, UpdateMirror(p)
      PROVE  SingleHoneypot'
  <2>1. rows' = rows /\ mirror' = Mirrored(pending[p], mirror)
    BY <1>6 DEF UpdateMirror, tables
  <2>2. PICK g \in Guild : Touches(pending[p], g)
    BY <1>6 DEF UpdateMirror, Unapplied
  <2> SUFFICES OnePerGuild(Mirrored(pending[p], mirror))
    BY <2>1
  <2>3. ASSUME NEW c \in Channel, pending[p] = Swap(Owner[c], c)
        PROVE  OnePerGuild(Mirrored(pending[p], mirror))
    <3>1. Mirrored(pending[p], mirror) = applyChannelSwap(mirror, Owner[c], c)
      BY <2>3, MirroredCases
    <3> QED
      BY <1>t, <3>1, MirroredAt
  <2>4. ASSUME NEW c \in Channel, NEW v \in Msg \union {Nil}, pending[p] = MsgSet(c, v)
        PROVE  OnePerGuild(Mirrored(pending[p], mirror))
    <3>1. Mirrored(pending[p], mirror) = MirrorMsg(mirror, c, v)
      BY <2>4, MirroredCases
    <3> QED
      BY <1>t, <3>1, MirroredAt
  <2>5. ASSUME NEW v \in Msg, pending[p] = Cleared(v)
        PROVE  OnePerGuild(Mirrored(pending[p], mirror))
    <3>1. Mirrored(pending[p], mirror) = MirrorMsgToNil(mirror, v)
      BY <2>5, MirroredCases
    <3> QED
      BY <1>t, <3>1, MirroredAt
  <2>6. ASSUME NEW c \in Channel, pending[p] = Removal(c)
        PROVE  OnePerGuild(Mirrored(pending[p], mirror))
    <3>1. Mirrored(pending[p], mirror) = MirrorDelete(mirror, c)
      BY <2>6, MirroredCases
    <3> QED
      BY <1>t, <3>1, MirroredAt
  <2>7. ASSUME NEW h \in Guild, pending[p] = Purge(h)
        PROVE  OnePerGuild(Mirrored(pending[p], mirror))
    <3>1. Mirrored(pending[p], mirror) = MirrorSweep(mirror, h)
      BY <2>7, MirroredCases
    <3> QED
      BY <1>t, <3>1, MirroredAt
  <2> QED
    BY <2>2, <2>3, <2>4, <2>5, <2>6, <2>7, WaitingCases
<1>7. CASE Reopen
  BY <1>7 DEF Reopen, loadChannels, tables
<1>8. ASSUME NEW p \in Proc, NEW v \in Msg, CheckKnown(p, v) \/ ClearFails(p, v)
      PROVE  UNCHANGED <<rows, mirror>>
  BY <1>8 DEF CheckKnown, ClearFails, tables
<1>9. ASSUME NEW g \in Guild, \/ UnsetLogChannel(g)
                              \/ \E s \in Settings : UpsertConfig(g, s)
                              \/ \E c \in Channel \union {Nil} : RecordEvent(g, c)
      PROVE  UNCHANGED <<rows, mirror>>
  BY <1>9 DEF UnsetLogChannel, UpsertConfig, RecordEvent
<1>10. UNCHANGED vars => UNCHANGED <<rows, mirror>>
  BY DEF vars
<1>11. UNCHANGED <<rows, mirror>> => SingleHoneypot'
  OBVIOUS
<1> QED
  BY <1>1, <1>2, <1>3, <1>4, <1>5, <1>6, <1>7, <1>8, <1>9, <1>10, <1>11
     DEF Next, Writes

(* A guild never owns two honeypots, in the table or in the mirror, even   *)
(* where overlapping writes have made the two disagree.                    *)
THEOREM OneHoneypot == Spec => []SingleHoneypot
<1>1. Init => SingleHoneypot
  BY DEF Init, SingleHoneypot, OnePerGuild
<1> QED
  BY <1>1, TypeCorrect, SingleStep, PTL DEF Spec

-----------------------------------------------------------------------------
(* The configuration row is written first and deleted last.                *)
LEMMA ReferentialStep ==
  TypeOK /\ ReferentialIntegrity /\ [Next]_vars => ReferentialIntegrity'
<1> SUFFICES ASSUME TypeOK, ReferentialIntegrity, [Next]_vars
             PROVE  ReferentialIntegrity'
  OBVIOUS
<1> USE DEF ReferentialIntegrity
<1>t. /\ rows \in Table /\ config \in [Guild -> Settings \union {NoRow}]
      /\ events \in [Guild -> Nat] /\ NoRow \notin Settings
  BY DEF TypeOK, Settings
<1>1. ASSUME NEW p \in Proc, NEW c \in Channel, SetChannel(p, c)
      PROVE  ReferentialIntegrity'
  BY <1>1 DEF SetChannel, setChannelTx
<1>2. ASSUME NEW p \in Proc, NEW c \in Channel, NEW s \in Settings,
             SaveGuildSetup(p, c, s)
      PROVE  ReferentialIntegrity'
  BY <1>2, <1>t DEF SaveGuildSetup, setChannelTx
<1>3. ASSUME NEW p \in Proc, NEW c \in Channel, RemoveChannel(p, c)
      PROVE  ReferentialIntegrity'
  BY <1>3, <1>t DEF RemoveChannel, DeleteRow, Table
<1>4. ASSUME NEW p \in Proc, NEW c \in Channel, NEW v \in Msg \union {Nil},
             SetWarningMsg(p, c, v)
      PROVE  ReferentialIntegrity'
  BY <1>4, <1>t DEF SetWarningMsg, UpdateMsg, Table
<1>5. ASSUME NEW p \in Proc, NEW v \in Msg,
             CheckKnown(p, v) \/ ClearWarningMsg(p, v) \/ ClearFails(p, v)
      PROVE  ReferentialIntegrity'
  BY <1>5 DEF CheckKnown, ClearWarningMsg, ClearFails, UpdateMsgToNull, tables
<1>6. ASSUME NEW p \in Proc, NEW g \in Guild, DeleteGuild(p, g)
      PROVE  ReferentialIntegrity'
  BY <1>6, <1>t DEF DeleteGuild, CascadeGuild
<1>7. ASSUME NEW p \in Proc, UpdateMirror(p)
      PROVE  ReferentialIntegrity'
  BY <1>7 DEF UpdateMirror, tables
<1>8. ASSUME NEW g \in Guild, UnsetLogChannel(g)
      PROVE  ReferentialIntegrity'
  <2>1. [config[g] EXCEPT !.log = Nil] \in Settings
    BY <1>8, <1>t DEF UnsetLogChannel, Settings
  <2> QED
    BY <1>8, <1>t, <2>1 DEF UnsetLogChannel
<1>9. ASSUME NEW g \in Guild, NEW s \in Settings, UpsertConfig(g, s)
      PROVE  ReferentialIntegrity'
  BY <1>9, <1>t DEF UpsertConfig
<1>10. ASSUME NEW g \in Guild, NEW c \in Channel \union {Nil}, RecordEvent(g, c)
       PROVE  ReferentialIntegrity'
  BY <1>10, <1>t DEF RecordEvent
<1>11. CASE Reopen
  BY <1>11 DEF Reopen, loadChannels, tables
<1>12. CASE UNCHANGED vars
  BY <1>12 DEF vars
<1> QED
  BY <1>1, <1>2, <1>3, <1>4, <1>5, <1>6, <1>7, <1>8, <1>9, <1>10, <1>11, <1>12
     DEF Next, Writes

(* No honeypot and no event outlives, or precedes, its guild's settings.   *)
THEOREM KeysHold == Spec => []ReferentialIntegrity
<1>1. Init => ReferentialIntegrity
  BY DEF Init, ReferentialIntegrity
<1> QED
  BY <1>1, TypeCorrect, ReferentialStep, PTL DEF Spec

-----------------------------------------------------------------------------
(* A step that changes a guild's configuration, and leaves it one, keeps   *)
(* the recorded message of a channel that stays; none loses events.        *)
LEMMA HistoryStep == TypeOK /\ [Next]_vars => [SparesHistory]_vars
<1> SUFFICES ASSUME TypeOK, Next PROVE SparesHistory
  OBVIOUS
<1>t. /\ rows \in Table /\ config \in [Guild -> Settings \union {NoRow}]
      /\ events \in [Guild -> Nat] /\ NoRow \notin Msg
  BY StoreAssumption DEF TypeOK
<1>e. \A g \in Guild : events[g] \in Nat
  BY <1>t
<1>1. ASSUME NEW p \in Proc, NEW c \in Channel, NEW s \in Settings,
             SaveGuildSetup(p, c, s)
      PROVE  SparesHistory
  <2>1. events' = events /\ rows' = setChannelTx(Owner[c], c)
    BY <1>1 DEF SaveGuildSetup
  <2>2. ASSUME NEW g \in Guild, config'[g] # config[g]
        PROVE  g = Owner[c]
    BY <1>1, <1>t, <2>2 DEF SaveGuildSetup
  <2>3. ASSUME NEW d \in Channel, Owner[d] = Owner[c], rows[d] \in Msg, rows'[d] # NoRow
        PROVE  rows'[d] = rows[d]
    BY <1>t, <2>1, <2>3 DEF setChannelTx
  <2> QED
    BY <1>e, <2>1, <2>2, <2>3 DEF SparesHistory
<1>2. ASSUME NEW p \in Proc, NEW h \in Guild, DeleteGuild(p, h)
      PROVE  SparesHistory
  <2>1. \A g \in Guild : g # h => config'[g] = config[g] /\ events'[g] = events[g]
    BY <1>2, <1>t DEF DeleteGuild
  <2>2. config'[h] = NoRow
    BY <1>2, <1>t DEF DeleteGuild
  <2> QED
    BY <1>e, <2>1, <2>2 DEF SparesHistory
<1>3. ASSUME NEW g \in Guild, NEW c \in Channel \union {Nil}, RecordEvent(g, c)
      PROVE  SparesHistory
  <2>1. config' = config /\ \A h \in Guild : events'[h] \in {events[h], events[h] + 1}
    BY <1>3, <1>t DEF RecordEvent
  <2> QED
    BY <1>e, <2>1 DEF SparesHistory
<1>4. ASSUME UNCHANGED <<rows, events>> PROVE SparesHistory
  BY <1>4, <1>e DEF SparesHistory
<1>5. ASSUME UNCHANGED <<config, events>> PROVE SparesHistory
  BY <1>5, <1>e DEF SparesHistory
<1>6. ASSUME NEW p \in Proc, NEW c \in Channel,
             \/ SetChannel(p, c) \/ RemoveChannel(p, c)
             \/ \E v \in Msg \union {Nil} : SetWarningMsg(p, c, v)
      PROVE  UNCHANGED <<config, events>>
  BY <1>6 DEF SetChannel, RemoveChannel, SetWarningMsg
<1>7. ASSUME NEW p \in Proc, NEW v \in Msg,
             CheckKnown(p, v) \/ ClearWarningMsg(p, v) \/ ClearFails(p, v)
      PROVE  UNCHANGED <<config, events>>
  BY <1>7 DEF CheckKnown, ClearWarningMsg, ClearFails, tables
<1>8. ASSUME NEW p \in Proc, UpdateMirror(p) PROVE UNCHANGED <<config, events>>
  BY <1>8 DEF UpdateMirror, tables
<1>9. ASSUME NEW g \in Guild,
             UnsetLogChannel(g) \/ \E s \in Settings : UpsertConfig(g, s)
      PROVE  UNCHANGED <<rows, events>>
  BY <1>9 DEF UnsetLogChannel, UpsertConfig
<1>10. ASSUME Reopen PROVE UNCHANGED <<config, events>>
  BY <1>10 DEF Reopen, tables
<1> QED
  BY <1>1, <1>2, <1>3, <1>4, <1>5, <1>6, <1>7, <1>8, <1>9, <1>10 DEF Next, Writes

(* Reconfiguring a guild costs it neither its count nor its recorded       *)
(* warning message.                                                        *)
THEOREM HistoryKept == Spec => HistorySurvives
BY TypeCorrect, HistoryStep, PTL DEF Spec, HistorySurvives
=============================================================================
