---------------------------- MODULE WarningProofs ----------------------------
(***************************************************************************)
(* Theorems about Warning, for any number of goroutines, channels,         *)
(* messages and faults.                                                    *)
(***************************************************************************)
EXTENDS Warning, FiniteSetTheorems, TLAPS

USE WarningAssumption

LEMMA MinIs ==
  ASSUME NEW S \in SUBSET Nat, S # {}
  PROVE  Min(S) \in S /\ \A x \in S : Min(S) <= x
<1>1. PICK x \in S : \A y \in S : ~(<<y, x>> \in OpToRel(<, Nat))
  BY NatLessThanWellFounded, WFMin
<1>2. \A y \in S : ~(y < x)
  BY <1>1 DEF OpToRel
<1>3. \E z \in S : \A y \in S : z <= y
  BY <1>2
<1> QED
  BY <1>3, Zenon DEF Min

-----------------------------------------------------------------------------
(* The jobs a step makes are jobs. *)

LEMMA RestingIsJob == Resting \in Job /\ Resting.at = "idle" /\ Resting.extras = {} /\ ~Resting.solo
BY DEF Resting, Job, Stage, MaybeId

(* A goroutine, when others act: at rest it is reset, otherwise only the   *)
(* history changes.                                                        *)
LEMMA AccompaniedIs ==
  ASSUME NEW j \in Job
  PROVE  /\ Accompanied(j) \in Job
         /\ ~Accompanied(j).solo
         /\ \/ Accompanied(j) = Resting
            \/ /\ Accompanied(j).at = j.at /\ Accompanied(j).ch = j.ch
               /\ Accompanied(j).known = j.known /\ Accompanied(j).prev = j.prev
               /\ Accompanied(j).msg = j.msg /\ Accompanied(j).extras = j.extras
               /\ Accompanied(j).count = j.count
<1>1. CASE j.at \in Over
  BY <1>1, RestingIsJob DEF Accompanied
<1>2. CASE j.at \notin Over
  <2> DEFINE k == [j EXCEPT !.solo = FALSE]
  <2>1. k \in Job /\ ~k.solo /\ k.at = j.at /\ k.ch = j.ch
    BY DEF Job
  <2>2. k.known = j.known /\ k.prev = j.prev /\ k.msg = j.msg /\ k.extras = j.extras /\ k.count = j.count
    BY DEF Job
  <2>3. Accompanied(j) = k
    BY <1>2 DEF Accompanied
  <2> HIDE DEF k
  <2> QED
    BY <2>1, <2>2, <2>3
<1> QED
  BY <1>1, <1>2

Alone(stage, c) == [Resting EXCEPT !.at = stage, !.ch = c, !.solo = TRUE]

LEMMA AloneIs ==
  ASSUME NEW stage \in Stage, NEW c \in Channel
  PROVE  /\ Alone(stage, c) \in Job
         /\ Alone(stage, c).at = stage /\ Alone(stage, c).ch = c /\ Alone(stage, c).solo
         /\ Alone(stage, c).known = Nil /\ Alone(stage, c).prev = Nil
         /\ Alone(stage, c).extras = {}
<1> DEFINE k == [Resting EXCEPT !.at = stage, !.ch = c, !.solo = TRUE]
<1>1. Resting \in Job
  BY RestingIsJob
<1>2. k \in Job
  BY <1>1 DEF Job
<1>3. k.at = stage /\ k.ch = c /\ k.solo
  BY <1>1 DEF Job
<1>4. k.known = Resting.known /\ k.prev = Resting.prev /\ k.extras = Resting.extras
  BY <1>1 DEF Job
<1>5. Resting.known = Nil /\ Resting.prev = Nil /\ Resting.extras = {}
  BY DEF Resting
<1>6. Alone(stage, c) = k
  BY DEF Alone
<1> HIDE DEF k
<1> QED
  BY <1>2, <1>3, <1>4, <1>5, <1>6

LEMMA CallIsAlone ==
  ASSUME NEW p, NEW c, NEW stage
  PROVE  Call(p, c, stage) = Alone(stage, c)
BY DEF Call, Alone

LEMMA StageHas ==
  {"idle", "ok", "err", "honeypot", "save", "old", "lookup", "count", "update", "list",
   "adopt", "record", "clean", "create", "store"} = Stage
BY DEF Stage

LEMMA ReturnIs ==
  ASSUME job \in [Proc -> Job], NEW p \in Proc, NEW result \in {"ok", "err"}
  PROVE  /\ Return(p, result) \in Job
         /\ Return(p, result).at \in Over
         /\ Return(p, result).extras = {}
         /\ Return(p, result).solo =>
                job[p].solo /\ Return(p, result).at = result /\ Return(p, result).ch = job[p].ch
<1>1. CASE job[p].solo
  <2>1. Return(p, result) = Alone(result, job[p].ch)
    BY <1>1 DEF Return, Alone
  <2>2. job[p].ch \in Channel /\ result \in Stage /\ result \in Over
    BY DEF Job, Stage, Over
  <2> QED
    BY <1>1, <2>1, <2>2, AloneIs
<1>2. CASE ~job[p].solo
  BY <1>2, RestingIsJob DEF Return, Over
<1> QED
  BY <1>1, <1>2

-----------------------------------------------------------------------------
(* What a step of p does to the goroutines: it moves p's, and the others   *)
(* are told at most that they were not alone.                              *)
Moves(p) ==
    /\ job' \in [Proc -> Job]
    /\ \A q \in Proc : q # p => job'[q] = job[q] \/ job'[q] = Accompanied(job[q])

LEMMA Thinks ==
  ASSUME job \in [Proc -> Job], NEW p \in Proc, NEW j \in Job, Think(p, j)
  PROVE  Moves(p) /\ job'[p] = j /\ \A q \in Proc : q # p => job'[q] = job[q]
BY DEF Think, Moves

LEMMA Acts ==
  ASSUME job \in [Proc -> Job], NEW p \in Proc, NEW j \in Job, Act(p, j)
  PROVE  Moves(p) /\ job'[p] = j /\ \A q \in Proc : q # p => job'[q] = Accompanied(job[q])
<1>1. \A q \in Proc : Accompanied(job[q]) \in Job
  BY AccompaniedIs
<1> QED
  BY <1>1 DEF Act, Moves

Staged(j, stage) == [j EXCEPT !.at = stage]

LEMMA AtStage ==
  ASSUME NEW j \in Job, NEW stage \in Stage
  PROVE  /\ Staged(j, stage) \in Job
         /\ Staged(j, stage).at = stage /\ Staged(j, stage).ch = j.ch
         /\ Staged(j, stage).known = j.known /\ Staged(j, stage).prev = j.prev
         /\ Staged(j, stage).msg = j.msg /\ Staged(j, stage).extras = j.extras
         /\ Staged(j, stage).count = j.count /\ (Staged(j, stage).solo <=> j.solo)
<1> DEFINE k == [j EXCEPT !.at = stage]
<1>1. k \in Job /\ k.at = stage /\ k.ch = j.ch /\ (k.solo <=> j.solo)
  BY DEF Job
<1>2. k.known = j.known /\ k.prev = j.prev /\ k.msg = j.msg /\ k.extras = j.extras /\ k.count = j.count
  BY DEF Job
<1>3. Staged(j, stage) = k
  BY DEF Staged
<1> HIDE DEF k
<1> QED
  BY <1>1, <1>2, <1>3

-----------------------------------------------------------------------------
(* The steps of a goroutine, by what becomes of its job.  Whatever others  *)
(* can see disturbs them.                                                  *)
Shown == <<rows, posts, bans, made>>
Fair(p) ==
    UNCHANGED Shown \/ \A q \in Proc : q # p => job'[q] = Accompanied(job[q])

LEMMA RecordEventIs ==
  ASSUME TypeOK, NEW p \in Proc, RecordEvent(p)
  PROVE  Moves(p) /\ Fair(p) /\ job'[p].at = "honeypot"
<1> DEFINE k == Alone("honeypot", Home)
<1>0. Home \in Channel /\ "honeypot" \in Stage
  BY StageHas
<1>1. k \in Job /\ k.at = "honeypot"
  BY <1>0, AloneIs
<1>2. Act(p, k) /\ job \in [Proc -> Job]
  BY CallIsAlone DEF RecordEvent, TypeOK
<1> HIDE DEF k
<1> QED
  BY <1>1, <1>2, Acts DEF Fair

LEMMA RefreshIs ==
  ASSUME TypeOK, NEW p \in Proc, NEW c \in Channel, Refresh(p, c)
  PROVE  Moves(p) /\ Fair(p) /\ job'[p].at = "lookup"
<1> DEFINE k == Alone("lookup", c)
<1>0. "lookup" \in Stage
  BY StageHas
<1>1. k \in Job /\ k.at = "lookup"
  BY <1>0, AloneIs
<1>2. Think(p, k) /\ job \in [Proc -> Job] /\ UNCHANGED Shown
  BY CallIsAlone DEF Refresh, TypeOK, Shown
<1> HIDE DEF k
<1> QED
  BY <1>1, <1>2, Thinks DEF Fair

LEMMA SubmitIs ==
  ASSUME TypeOK, NEW p \in Proc, NEW c \in Channel, Submit(p, c)
  PROVE  /\ Moves(p) /\ Fair(p) /\ job'[p].at = "save"
         /\ \/ job'[p].known = Nil
            \/ \E d \in Channel : job'[p].prev = d /\ job'[p].known = rows[d]
<1> DEFINE k == Alone("save", c)
<1>1. k \in Job /\ k.at = "save" /\ k.known = Nil
  BY AloneIs, StageHas
<1>2. job \in [Proc -> Job] /\ UNCHANGED Shown
  BY DEF Submit, TypeOK, Shown
<1>3. ASSUME NEW d \in Channel, rows[d] # NoRow, Think(p, [k EXCEPT !.prev = d, !.known = rows[d]])
      PROVE  /\ Moves(p) /\ job'[p].at = "save"
             /\ job'[p].prev = d /\ job'[p].known = rows[d]
  <2> DEFINE j == [k EXCEPT !.prev = d, !.known = rows[d]]
  <2> HIDE DEF k
  <2>1. rows[d] \in MaybeId
    BY <1>3 DEF TypeOK
  <2>2. j \in Job
    BY <1>1, <2>1 DEF Job
  <2>3. j.at = "save" /\ j.prev = d /\ j.known = rows[d]
    BY <1>1 DEF Job
  <2>4. Think(p, j)
    BY <1>3
  <2> HIDE DEF j
  <2> QED
    BY <1>2, <2>2, <2>3, <2>4, Thinks
<1>4. CASE Think(p, k)
  <2> HIDE DEF k
  <2> QED
    BY <1>1, <1>2, <1>4, Thinks DEF Fair
<1> HIDE DEF k
<1>5. \/ Think(p, k)
      \/ \E d \in Channel : rows[d] # NoRow /\ Think(p, [k EXCEPT !.prev = d, !.known = rows[d]])
  BY CallIsAlone DEF Submit, k
<1> QED
  BY <1>2, <1>3, <1>4, <1>5 DEF Fair

LEMMA GetChannelIs ==
  ASSUME TypeOK, NEW p \in Proc, GetChannel(p)
  PROVE  Moves(p) /\ Fair(p) /\ job'[p].at \in {"lookup", "idle"}
<1>1. job \in [Proc -> Job] /\ UNCHANGED Shown
  BY DEF GetChannel, TypeOK, Shown
<1>2. ASSUME NEW c \in Channel, Think(p, [job[p] EXCEPT !.at = "lookup", !.ch = c])
      PROVE  Moves(p) /\ job'[p].at = "lookup"
  <2> DEFINE k == [job[p] EXCEPT !.at = "lookup", !.ch = c]
  <2>1. k \in Job /\ k.at = "lookup"
    <3>1. "lookup" \in Stage
      BY StageHas
    <3> QED
      BY <1>1, <3>1 DEF Job
  <2>2. Think(p, k)
    BY <1>2
  <2> HIDE DEF k
  <2> QED
    BY <1>1, <2>1, <2>2, Thinks
<1>3. ASSUME Think(p, Resting)
      PROVE  Moves(p) /\ job'[p].at = "idle"
  BY <1>1, <1>3, Thinks, RestingIsJob
<1>4. \/ Think(p, Resting)
      \/ \E c \in Channel : Think(p, [job[p] EXCEPT !.at = "lookup", !.ch = c])
  BY DEF GetChannel
<1> QED
  BY <1>1, <1>2, <1>3, <1>4 DEF Fair

LEMMA SaveGuildSetupIs ==
  ASSUME TypeOK, NEW p \in Proc, SaveGuildSetup(p)
  PROVE  /\ Moves(p) /\ Fair(p)
         /\ job[p].at = "save" /\ job'[p].at \in {"old", "lookup"}
         /\ job'[p].known = job[p].known /\ job'[p].prev = job[p].prev
         /\ job'[p].at = "old" => job[p].known # Nil
<1>1. job \in [Proc -> Job] /\ job[p].at = "save"
  BY DEF SaveGuildSetup, TypeOK
<1>2. PICK stage \in {"old", "lookup"} :
        /\ Act(p, Staged(job[p], stage))
        /\ stage = "old" => job[p].known # Nil
  BY DEF SaveGuildSetup, Staged
<1> DEFINE k == Staged(job[p], stage)
<1>3. k \in Job /\ k.at = stage /\ k.known = job[p].known /\ k.prev = job[p].prev
  BY <1>1, AtStage, StageHas
<1>4. Act(p, k)
  BY <1>2
<1> HIDE DEF k
<1> QED
  BY <1>1, <1>2, <1>3, <1>4, Acts DEF Fair

LEMMA DeleteOldIs ==
  ASSUME TypeOK, NEW p \in Proc, DeleteOld(p)
  PROVE  Moves(p) /\ Fair(p) /\ job[p].at = "old" /\ job'[p].at = "lookup"
<1> DEFINE on == [job[p] EXCEPT !.at = "lookup", !.known = Nil, !.prev = Nil]
<1>1. job \in [Proc -> Job]
  BY DEF TypeOK
<1>2. on \in Job /\ on.at = "lookup"
  <2>1. "lookup" \in Stage /\ Nil \in MaybeId
    BY StageHas DEF MaybeId
  <2> QED
    BY <1>1, <2>1 DEF Job
<1>3. job[p].at = "old" /\ (Act(p, on) \/ (Think(p, Accompanied(on)) /\ UNCHANGED Shown))
  BY DEF DeleteOld, Shown
<1> HIDE DEF on
<1>4. Accompanied(on) \in Job /\ Accompanied(on).at = "lookup"
  <2>1. Accompanied(on) = [on EXCEPT !.solo = FALSE]
    BY <1>2 DEF Accompanied, Over
  <2> QED
    BY <1>2, <2>1, AccompaniedIs DEF Job
<1>5. CASE Act(p, on)
  BY <1>1, <1>2, <1>3, <1>5, Acts DEF Fair
<1>6. CASE Think(p, Accompanied(on)) /\ UNCHANGED Shown
  BY <1>1, <1>3, <1>4, <1>6, Thinks DEF Fair
<1> QED
  BY <1>3, <1>5, <1>6

-----------------------------------------------------------------------------
(* ensureWarningMessage, call by call. *)

LEMMA GetChannelByIDIs ==
  ASSUME TypeOK, NEW p \in Proc, GetChannelByID(p)
  PROVE  /\ Moves(p) /\ UNCHANGED Shown
         /\ \/ /\ rows[job[p].ch] = NoRow
               /\ job'[p].at \in Over
               /\ job'[p].solo => job'[p].at = "err" /\ job'[p].ch = job[p].ch
            \/ /\ rows[job[p].ch] # NoRow
               /\ job'[p].at = "count" /\ job'[p].ch = job[p].ch
               /\ job'[p].known = rows[job[p].ch]
<1>1. job \in [Proc -> Job] /\ UNCHANGED Shown /\ job[p].ch \in Channel
  BY DEF GetChannelByID, TypeOK, Shown, Job
<1>2. CASE rows[job[p].ch] = NoRow /\ Think(p, Return(p, "err"))
  <2> DEFINE k == Return(p, "err")
  <2>1. k \in Job /\ k.at \in Over /\ (k.solo => k.at = "err" /\ k.ch = job[p].ch)
    BY <1>1, ReturnIs
  <2>2. Think(p, k)
    BY <1>2
  <2> HIDE DEF k
  <2> QED
    BY <1>1, <1>2, <2>1, <2>2, Thinks
<1>3. CASE rows[job[p].ch] # NoRow
           /\ Think(p, [job[p] EXCEPT !.at = "count", !.known = rows[job[p].ch]])
  <2> DEFINE k == [job[p] EXCEPT !.at = "count", !.known = rows[job[p].ch]]
  <2>1. rows[job[p].ch] \in MaybeId
    BY <1>1, <1>3 DEF TypeOK
  <2>2. k \in Job
    <3>1. "count" \in Stage
      BY StageHas
    <3> QED
      BY <1>1, <2>1, <3>1 DEF Job
  <2>3. k.at = "count" /\ k.ch = job[p].ch /\ k.known = rows[job[p].ch]
    BY <1>1 DEF Job
  <2>4. Think(p, k)
    BY <1>3
  <2> HIDE DEF k
  <2> QED
    BY <1>1, <1>3, <2>2, <2>3, <2>4, Thinks
<1> QED
  BY <1>2, <1>3 DEF GetChannelByID

LEMMA CountEventsIs ==
  ASSUME TypeOK, NEW p \in Proc, CountEvents(p)
  PROVE  /\ Moves(p) /\ UNCHANGED Shown
         /\ job[p].at = "count"
         /\ job'[p].at = (IF job[p].known = Nil THEN "list" ELSE "update")
         /\ job'[p].ch = job[p].ch /\ job'[p].known = job[p].known
         /\ job'[p].count = bans
         /\ job'[p].solo <=> job[p].solo
<1>1. job \in [Proc -> Job] /\ UNCHANGED Shown /\ bans \in 0 .. MaxBans /\ job[p].at = "count"
  BY DEF CountEvents, TypeOK, Shown
<1> DEFINE stage == IF job[p].known = Nil THEN "list" ELSE "update"
           k == [job[p] EXCEPT !.count = bans, !.at = stage]
<1>2. stage \in Stage
  BY DEF Stage
<1>3. Think(p, k)
  BY DEF CountEvents
<1> HIDE DEF stage
<1>4. k \in Job
  BY <1>1, <1>2 DEF Job
<1>5. /\ k.at = stage /\ k.ch = job[p].ch /\ k.known = job[p].known /\ k.count = bans
      /\ k.solo <=> job[p].solo
  BY <1>1 DEF Job
<1> HIDE DEF k
<1>6. Moves(p) /\ job'[p] = k
  BY <1>1, <1>3, <1>4, Thinks
<1> QED
  BY <1>1, <1>5, <1>6 DEF stage

(* updateWarningMessage: whoever is told of success has edited a message   *)
(* that is there; who is not and was alone knows that it is not.           *)
Edits(i, label) == Exists(i) /\ posts' = [posts EXCEPT ![i].label = label]

LEMMA EditIs ==
  ASSUME TypeOK, NEW p \in Proc, NEW i, NEW success \in Job, NEW failure \in Job,
         Edit(p, i, success, failure), UNCHANGED <<rows, bans, made>>
  PROVE  /\ Moves(p) /\ Fair(p)
         /\ posts' = posts \/ Edits(i, job[p].count)
         /\ \/ job'[p] = success /\ Edits(i, job[p].count)
            \/ job'[p] = failure /\ ~Exists(i)
            \/ job'[p] = Accompanied(failure)
<1>1. job \in [Proc -> Job] /\ Accompanied(failure) \in Job
  BY AccompaniedIs DEF TypeOK
<1>2. CASE Edits(i, job[p].count) /\ Act(p, success)
  BY <1>1, <1>2, Acts DEF Fair
<1>3. CASE Edits(i, job[p].count) /\ Act(p, Accompanied(failure))
  BY <1>1, <1>3, Acts DEF Fair
<1>4. CASE ~Exists(i) /\ Think(p, failure) /\ UNCHANGED posts
  BY <1>1, <1>4, Thinks DEF Fair, Shown
<1>5. CASE Think(p, Accompanied(failure)) /\ UNCHANGED posts
  BY <1>1, <1>5, Thinks DEF Fair, Shown
<1> QED
  BY <1>2, <1>3, <1>4, <1>5 DEF Edit, Edits

(* p is at rest and has nothing to tell of. *)
Dropped(p) == job'[p].at \in Over /\ ~job'[p].solo
Succeeded(p) ==
    /\ job'[p].at \in Over
    /\ job'[p].solo => job[p].solo /\ job'[p].at = "ok" /\ job'[p].ch = job[p].ch
Onward(p, stage) ==
    /\ job'[p].at = stage
    /\ job'[p].ch = job[p].ch /\ job'[p].count = job[p].count
    /\ job'[p].solo => job[p].solo
Keeping(p) == job'[p].msg = job[p].msg /\ job'[p].extras = job[p].extras

LEMMA UpdateRecordedIs ==
  ASSUME TypeOK, NEW p \in Proc, UpdateRecorded(p)
  PROVE  /\ Moves(p) /\ Fair(p) /\ UNCHANGED <<rows, bans, made>>
         /\ job[p].at = "update"
         /\ posts' = posts \/ Edits(job[p].known, job[p].count)
         /\ \/ Succeeded(p) /\ Edits(job[p].known, job[p].count)
            \/ Onward(p, "list")
            \/ Dropped(p)
<1> DEFINE success == Return(p, "ok")
           failure == Staged(job[p], "list")
<1>1. /\ job \in [Proc -> Job] /\ UNCHANGED <<rows, bans, made>> /\ job[p].at = "update"
      /\ Edit(p, job[p].known, success, failure)
  BY DEF UpdateRecorded, TypeOK, Staged
<1>2. /\ success \in Job /\ success.at \in Over
      /\ success.solo => job[p].solo /\ success.at = "ok" /\ success.ch = job[p].ch
  BY <1>1, ReturnIs
<1>3. /\ failure \in Job /\ failure.at = "list" /\ failure.ch = job[p].ch
      /\ failure.count = job[p].count /\ (failure.solo <=> job[p].solo)
  BY <1>1, AtStage, StageHas
<1> HIDE DEF success, failure
<1>4. /\ Moves(p) /\ Fair(p) /\ (posts' = posts \/ Edits(job[p].known, job[p].count))
      /\ \/ job'[p] = success /\ Edits(job[p].known, job[p].count)
         \/ job'[p] = failure
         \/ job'[p] = Accompanied(failure)
  <2>1. /\ success \in Job /\ failure \in Job /\ Edit(p, job[p].known, success, failure)
        /\ UNCHANGED <<rows, bans, made>>
    BY <1>1, <1>2, <1>3
  <2>2. /\ Moves(p) /\ Fair(p) /\ (posts' = posts \/ Edits(job[p].known, job[p].count))
        /\ \/ job'[p] = success /\ Edits(job[p].known, job[p].count)
           \/ job'[p] = failure /\ ~Exists(job[p].known)
           \/ job'[p] = Accompanied(failure)
    BY <2>1, EditIs
  <2> QED
    BY <2>2
<1>5. CASE job'[p] = success /\ Edits(job[p].known, job[p].count)
  BY <1>1, <1>2, <1>4, <1>5 DEF Succeeded
<1>6. CASE job'[p] = failure
  BY <1>1, <1>3, <1>4, <1>6 DEF Onward
<1>7. CASE job'[p] = Accompanied(failure)
  <2>1. Onward(p, "list") \/ Dropped(p)
    BY <1>3, <1>7, AccompaniedIs, RestingIsJob DEF Onward, Dropped, Over
  <2> QED
    BY <1>1, <1>4, <2>1
<1> QED
  BY <1>4, <1>5, <1>6, <1>7

Found(c) == {i \in Recent(c) : Matches(i)}

LEMMA GetMessagesIs ==
  ASSUME TypeOK, NEW p \in Proc, GetMessages(p)
  PROVE  /\ Moves(p) /\ UNCHANGED Shown
         /\ job[p].at = "list"
         /\ \/ /\ Onward(p, "adopt") /\ Found(job[p].ch) # {}
               /\ job'[p].msg = Min(Found(job[p].ch))
               /\ job'[p].extras = Found(job[p].ch) \ {Min(Found(job[p].ch))}
            \/ Onward(p, "create")
<1> DEFINE found == Found(job[p].ch)
<1>1. job \in [Proc -> Job] /\ UNCHANGED Shown /\ job[p].at = "list" /\ made \in 0 .. MaxPosts
  BY DEF GetMessages, TypeOK, Shown
<1>2. found \subseteq Id /\ found \subseteq Nat
  BY <1>1 DEF Found, Recent, Messages, Id
<1>3. CASE found # {} /\ Think(p, [job[p] EXCEPT !.at = "adopt", !.msg = Min(found),
                                               !.extras = found \ {Min(found)}])
  <2> HIDE DEF found
  <2> DEFINE least == Min(found)
             rest == found \ {least}
             k == [job[p] EXCEPT !.at = "adopt", !.msg = least, !.extras = rest]
  <2>1. least \in MaybeId
    BY <1>2, <1>3, MinIs DEF MaybeId
  <2>2. rest \subseteq Id
    BY <1>2
  <2>3. Think(p, k)
    BY <1>3
  <2> HIDE DEF least, rest
  <2>4. k \in Job
    <3>1. "adopt" \in Stage
      BY StageHas
    <3> QED
      BY <1>1, <2>1, <2>2, <3>1 DEF Job
  <2>5. /\ k.at = "adopt" /\ k.ch = job[p].ch /\ k.count = job[p].count
        /\ k.msg = least /\ k.extras = rest /\ (k.solo <=> job[p].solo)
    BY <1>1 DEF Job
  <2> HIDE DEF k
  <2>6. Moves(p) /\ job'[p] = k
    BY <1>1, <2>3, <2>4, Thinks
  <2> QED
    BY <1>1, <1>3, <2>5, <2>6 DEF Onward, found, least, rest
<1>4. CASE Think(p, [job[p] EXCEPT !.at = "create"])
  <2> DEFINE k == Staged(job[p], "create")
  <2>1. /\ k \in Job /\ k.at = "create" /\ k.ch = job[p].ch
        /\ k.count = job[p].count /\ (k.solo <=> job[p].solo)
    BY <1>1, AtStage, StageHas
  <2>2. Think(p, k)
    BY <1>4 DEF Staged
  <2> HIDE DEF k
  <2> QED
    BY <1>1, <2>1, <2>2, Thinks DEF Onward
<1>5. CASE Think(p, [job[p] EXCEPT !.at = "create", !.solo = FALSE])
  <2> DEFINE k == [job[p] EXCEPT !.at = "create", !.solo = FALSE]
  <2>1. k \in Job
    <3>1. "create" \in Stage
      BY StageHas
    <3> QED
      BY <1>1, <3>1 DEF Job
  <2>2. /\ k.at = "create" /\ k.ch = job[p].ch /\ k.count = job[p].count /\ ~k.solo
    BY <1>1 DEF Job
  <2>3. Think(p, k)
    BY <1>5
  <2> HIDE DEF k
  <2> QED
    BY <1>1, <2>1, <2>2, <2>3, Thinks DEF Onward
<1> QED
  BY <1>3, <1>4, <1>5 DEF GetMessages, Extras, Found

LEMMA AdoptIs ==
  ASSUME TypeOK, NEW p \in Proc, Adopt(p)
  PROVE  /\ Moves(p) /\ Fair(p) /\ UNCHANGED <<rows, bans, made>>
         /\ job[p].at = "adopt"
         /\ posts' = posts \/ Edits(job[p].msg, job[p].count)
         /\ \/ /\ Onward(p, "record") /\ Keeping(p)
               /\ job'[p].solo => Edits(job[p].msg, job[p].count) \/ ~Exists(job[p].msg)
            \/ Dropped(p)
<1> DEFINE on == Staged(job[p], "record")
<1>1. /\ job \in [Proc -> Job] /\ UNCHANGED <<rows, bans, made>> /\ job[p].at = "adopt"
      /\ Edit(p, job[p].msg, on, on)
  BY DEF Adopt, TypeOK, Staged
<1>2. /\ on \in Job /\ on.at = "record" /\ on.ch = job[p].ch /\ on.msg = job[p].msg
      /\ on.extras = job[p].extras /\ on.count = job[p].count /\ (on.solo <=> job[p].solo)
  BY <1>1, AtStage, StageHas
<1> HIDE DEF on
<1>3. /\ Moves(p) /\ Fair(p)
      /\ posts' = posts \/ Edits(job[p].msg, job[p].count)
      /\ \/ job'[p] = on /\ Edits(job[p].msg, job[p].count)
         \/ job'[p] = on /\ ~Exists(job[p].msg)
         \/ job'[p] = Accompanied(on)
  <2>1. on \in Job /\ Edit(p, job[p].msg, on, on) /\ UNCHANGED <<rows, bans, made>>
    BY <1>1, <1>2
  <2> QED
    BY <2>1, EditIs
<1>4. CASE job'[p] = on /\ (Edits(job[p].msg, job[p].count) \/ ~Exists(job[p].msg))
  BY <1>1, <1>2, <1>3, <1>4 DEF Onward, Keeping
<1>5. CASE job'[p] = Accompanied(on)
  <2>1. (Onward(p, "record") /\ Keeping(p) /\ ~job'[p].solo) \/ Dropped(p)
    BY <1>2, <1>5, AccompaniedIs, RestingIsJob DEF Onward, Keeping, Dropped, Over
  <2> QED
    BY <1>1, <1>3, <2>1
<1> QED
  BY <1>3, <1>4, <1>5

Records(p) == rows' = [rows EXCEPT ![job[p].ch] = IF @ = NoRow THEN @ ELSE job[p].msg]

LEMMA SetWarningMsgIs ==
  ASSUME TypeOK, NEW p \in Proc, NEW stage, NEW next \in Job, SetWarningMsg(p, stage, next)
  PROVE  /\ Moves(p) /\ Fair(p) /\ UNCHANGED <<posts, bans, made>>
         /\ job[p].at = stage
         /\ \/ Records(p) /\ job'[p] = next
            \/ rows' = rows /\ Dropped(p)
<1>1. job \in [Proc -> Job] /\ UNCHANGED <<posts, bans, made>> /\ job[p].at = stage
  BY DEF SetWarningMsg, TypeOK
<1>2. CASE Records(p) /\ Act(p, next)
  BY <1>1, <1>2, Acts DEF Fair
<1>3. CASE Think(p, Resting) /\ UNCHANGED rows
  <2>1. Moves(p) /\ job'[p] = Resting
    BY <1>1, <1>3, Thinks, RestingIsJob
  <2> QED
    BY <1>1, <1>3, <2>1, RestingIsJob DEF Fair, Shown, Dropped, Over
<1> QED
  BY <1>2, <1>3 DEF SetWarningMsg, Records

LEMMA StoreAdoptedIs ==
  ASSUME TypeOK, NEW p \in Proc, StoreAdopted(p)
  PROVE  /\ Moves(p) /\ Fair(p) /\ UNCHANGED <<posts, bans, made>>
         /\ job[p].at = "record"
         /\ \/ Records(p) /\ (Succeeded(p) \/ (Onward(p, "clean") /\ Keeping(p)))
            \/ rows' = rows /\ Dropped(p)
<1>1. job \in [Proc -> Job]
  BY DEF TypeOK
<1>2. CASE SetWarningMsg(p, "record", Return(p, "ok"))
  <2> DEFINE k == Return(p, "ok")
  <2>1. k \in Job /\ k.at \in Over /\ (k.solo => job[p].solo /\ k.at = "ok" /\ k.ch = job[p].ch)
    BY <1>1, ReturnIs
  <2>2. SetWarningMsg(p, "record", k)
    BY <1>2
  <2> HIDE DEF k
  <2>3. /\ Moves(p) /\ Fair(p) /\ UNCHANGED <<posts, bans, made>>
        /\ job[p].at = "record"
        /\ \/ Records(p) /\ job'[p] = k
           \/ rows' = rows /\ Dropped(p)
    BY <2>1, <2>2, SetWarningMsgIs
  <2> QED
    BY <2>1, <2>3 DEF Succeeded
<1>3. CASE SetWarningMsg(p, "record", [job[p] EXCEPT !.at = "clean"])
  <2> DEFINE k == Staged(job[p], "clean")
  <2>1. /\ k \in Job /\ k.at = "clean" /\ k.ch = job[p].ch /\ k.count = job[p].count
        /\ k.msg = job[p].msg /\ k.extras = job[p].extras /\ (k.solo <=> job[p].solo)
    BY <1>1, AtStage, StageHas
  <2>2. SetWarningMsg(p, "record", k)
    BY <1>3 DEF Staged
  <2> HIDE DEF k
  <2>3. /\ Moves(p) /\ Fair(p) /\ UNCHANGED <<posts, bans, made>>
        /\ job[p].at = "record"
        /\ \/ Records(p) /\ job'[p] = k
           \/ rows' = rows /\ Dropped(p)
    BY <2>1, <2>2, SetWarningMsgIs
  <2> QED
    BY <2>1, <2>3 DEF Onward, Keeping
<1> QED
  BY <1>2, <1>3 DEF StoreAdopted

LEMMA StorePostedIs ==
  ASSUME TypeOK, NEW p \in Proc, StorePosted(p)
  PROVE  /\ Moves(p) /\ Fair(p) /\ UNCHANGED <<posts, bans, made>>
         /\ job[p].at = "store"
         /\ \/ Records(p) /\ Succeeded(p)
            \/ rows' = rows /\ Dropped(p)
<1> DEFINE k == Return(p, "ok")
<1>1. k \in Job /\ k.at \in Over /\ (k.solo => job[p].solo /\ k.at = "ok" /\ k.ch = job[p].ch)
  BY ReturnIs DEF TypeOK
<1>2. SetWarningMsg(p, "store", k)
  BY DEF StorePosted
<1> HIDE DEF k
<1>3. /\ Moves(p) /\ Fair(p) /\ UNCHANGED <<posts, bans, made>>
      /\ job[p].at = "store"
      /\ \/ Records(p) /\ job'[p] = k
         \/ rows' = rows /\ Dropped(p)
  BY <1>1, <1>2, SetWarningMsgIs
<1> QED
  BY <1>1, <1>3 DEF Succeeded

Deletes(i, who) == posts' = [posts EXCEPT ![i].gone = IF Exists(i) THEN who ELSE @]

LEMMA CleanIs ==
  ASSUME TypeOK, NEW p \in Proc, NEW i \in Id, Clean(p, i)
  PROVE  /\ Moves(p) /\ Fair(p) /\ UNCHANGED <<rows, bans, made>>
         /\ job[p].at = "clean" /\ i \in job[p].extras
         /\ posts' = posts \/ Deletes(i, "bot")
         /\ \/ Succeeded(p)
            \/ /\ Onward(p, "clean") /\ job'[p].msg = job[p].msg
               /\ job'[p].extras = job[p].extras \ {i}
            \/ Dropped(p)
<1>1. /\ job \in [Proc -> Job] /\ UNCHANGED <<rows, bans, made>>
      /\ job[p].at = "clean" /\ i \in job[p].extras
  BY DEF Clean, TypeOK
<1> DEFINE over == CleanOver(p, i)
<1>2. /\ over \in Job
      /\ \/ over.at \in Over /\ (over.solo => job[p].solo /\ over.at = "ok" /\ over.ch = job[p].ch)
         \/ /\ over.at = "clean" /\ over.ch = job[p].ch /\ over.count = job[p].count
            /\ over.msg = job[p].msg /\ over.extras = job[p].extras \ {i}
            /\ over.solo <=> job[p].solo
  <2>1. CASE job[p].extras = {i}
    <3>1. over = Return(p, "ok")
      BY <2>1 DEF CleanOver
    <3> QED
      BY <1>1, <3>1, ReturnIs
  <2>2. CASE job[p].extras # {i}
    <3> DEFINE k == [job[p] EXCEPT !.extras = job[p].extras \ {i}]
    <3>1. over = k
      BY <2>2 DEF CleanOver
    <3>2. k \in Job
      BY <1>1 DEF Job
    <3>3. /\ k.at = "clean" /\ k.ch = job[p].ch /\ k.count = job[p].count
          /\ k.msg = job[p].msg /\ k.extras = job[p].extras \ {i}
          /\ k.solo <=> job[p].solo
      BY <1>1 DEF Job
    <3> HIDE DEF k, over
    <3> QED
      BY <3>1, <3>2, <3>3
  <2> QED
    BY <2>1, <2>2
<1>3. \/ Act(p, over) /\ Deletes(i, "bot")
      \/ Think(p, Accompanied(over)) /\ posts' = posts
  BY DEF Clean, Delete, Deletes
<1> HIDE DEF over
<1>4. CASE Act(p, over) /\ Deletes(i, "bot")
  <2>1. Moves(p) /\ Fair(p) /\ job'[p] = over
    BY <1>1, <1>2, <1>4, Acts DEF Fair
  <2> QED
    BY <1>1, <1>2, <1>4, <2>1 DEF Succeeded, Onward
<1>5. CASE Think(p, Accompanied(over)) /\ posts' = posts
  <2>1. Accompanied(over) \in Job
    BY <1>2, AccompaniedIs
  <2>2. Moves(p) /\ Fair(p) /\ job'[p] = Accompanied(over)
    BY <1>1, <1>5, <2>1, Thinks DEF Fair, Shown
  <2>3. ~job'[p].solo
    BY <1>2, <2>2, AccompaniedIs
  <2>4. \/ job'[p].at \in Over
        \/ /\ job'[p].at = "clean" /\ job'[p].ch = job[p].ch /\ job'[p].count = job[p].count
           /\ job'[p].msg = job[p].msg /\ job'[p].extras = job[p].extras \ {i}
    BY <1>2, <2>2, AccompaniedIs, RestingIsJob DEF Over
  <2> QED
    BY <1>1, <1>5, <2>2, <2>3, <2>4 DEF Dropped, Onward
<1> QED
  BY <1>3, <1>4, <1>5

LEMMA CreateMessageIs ==
  ASSUME TypeOK, NEW p \in Proc, CreateMessage(p)
  PROVE  /\ Moves(p) /\ Fair(p) /\ UNCHANGED <<rows, bans>>
         /\ job[p].at = "create"
         /\ \/ /\ NewPost(job[p].ch, TRUE, TRUE, job[p].count)
               /\ Onward(p, "store") /\ job'[p].msg = made'
            \/ NewPost(job[p].ch, TRUE, TRUE, job[p].count) /\ Dropped(p)
            \/ UNCHANGED <<made, posts>> /\ Dropped(p)
<1>1. job \in [Proc -> Job] /\ UNCHANGED <<rows, bans>> /\ job[p].at = "create" /\ made \in 0 .. MaxPosts
  BY DEF CreateMessage, TypeOK
<1>2. CASE NewPost(job[p].ch, TRUE, TRUE, job[p].count)
           /\ Act(p, [job[p] EXCEPT !.at = "store", !.msg = made'])
  <2>1. made' \in MaybeId
    BY <1>1, <1>2 DEF NewPost, MaybeId, Id
  <2>2. PICK m \in MaybeId : m = made'
    BY <2>1
  <2> DEFINE k == [job[p] EXCEPT !.at = "store", !.msg = m]
  <2>3. k \in Job
    <3>1. "store" \in Stage
      BY StageHas
    <3> QED
      BY <1>1, <3>1 DEF Job
  <2>4. /\ k.at = "store" /\ k.ch = job[p].ch /\ k.count = job[p].count
        /\ k.msg = m /\ (k.solo <=> job[p].solo)
    BY <1>1 DEF Job
  <2>5. Act(p, k)
    BY <1>2, <2>2
  <2> HIDE DEF k
  <2>6. Moves(p) /\ Fair(p) /\ job'[p] = k
    BY <1>1, <2>3, <2>5, Acts DEF Fair
  <2> QED
    BY <1>1, <1>2, <2>2, <2>4, <2>6 DEF Onward
<1>3. CASE NewPost(job[p].ch, TRUE, TRUE, job[p].count) /\ Act(p, Resting)
  <2>1. Moves(p) /\ Fair(p) /\ Dropped(p)
    BY <1>1, <1>3, Acts, RestingIsJob DEF Fair, Dropped, Over
  <2> QED
    BY <1>1, <1>3, <2>1
<1>4. CASE Think(p, Resting) /\ UNCHANGED <<made, posts>>
  <2>1. Moves(p) /\ Fair(p) /\ Dropped(p)
    BY <1>1, <1>4, Thinks, RestingIsJob DEF Fair, Shown, Dropped, Over
  <2> QED
    BY <1>1, <1>4, <2>1
<1> QED
  BY <1>2, <1>3, <1>4 DEF CreateMessage

-----------------------------------------------------------------------------
(* What a step does to the posts and who is at work on them. *)

EditsOne == \E i \in Id, label \in 0 .. MaxBans : Edits(i, label)
MakesOne ==
    \E c \in Channel, bot, prefixed \in BOOLEAN, label \in 0 .. MaxBans :
        NewPost(c, bot, prefixed, label)
PeopleDeleteOne ==
    \E i \in Id : Deletes(i, "people") /\ posts[i].channel \in meddled'
DeletesOld ==
    \E p \in Proc, i \in Id :
        /\ Deletes(i, "bot")
        /\ job[p].at = "old" /\ i = job[p].known
        /\ posts[i].channel \in meddled'
CleansOne ==
    \E p \in Proc, i \in Id :
        Deletes(i, "bot") /\ job[p].at = "clean" /\ i \in job[p].extras

PostsChange ==
    /\ meddled \subseteq meddled'
    /\ \/ MakesOne
       \/ /\ made' = made
          /\ posts' = posts \/ EditsOne \/ PeopleDeleteOne \/ DeletesOld \/ CleansOne

(* Only a call that moves the honeypot deletes a recorded message, and it  *)
(* has one to delete.                                                      *)
OldKnown == \A p \in Proc : job[p].at = "old" => job[p].known # Nil
TypeInv == TypeOK /\ OldKnown

LEMMA JobTyped ==
  ASSUME TypeOK, NEW p \in Proc
  PROVE  /\ job[p] \in Job /\ job[p].ch \in Channel /\ job[p].count \in 0 .. MaxBans
         /\ job[p].known \in MaybeId /\ job[p].msg \in MaybeId /\ job[p].extras \subseteq Id
BY DEF TypeOK, Job

LEMMA SomebodyEdits ==
  ASSUME TypeOK, NEW p \in Proc, NEW i, Edits(i, job[p].count)
  PROVE  EditsOne
<1>1. i \in Id
  BY DEF Edits, Exists, TypeOK, Id
<1>2. job[p].count \in 0 .. MaxBans
  BY JobTyped
<1> QED
  BY <1>1, <1>2 DEF EditsOne

LEMMA StepPosts ==
  ASSUME TypeInv, NEW p \in Proc, Step(p)
  PROVE  PostsChange
<1> USE DEF TypeInv
<1>1. CASE GetChannel(p)
  BY <1>1 DEF GetChannel, PostsChange
<1>2. CASE SaveGuildSetup(p)
  BY <1>2 DEF SaveGuildSetup, PostsChange
<1>3. CASE DeleteOld(p)
  <2> DEFINE i == job[p].known
  <2>1. i \in Id
    BY <1>3, JobTyped DEF DeleteOld, OldKnown, MaybeId
  <2>2. \/ Deletes(i, "bot") /\ meddled' = meddled \union {posts[i].channel}
        \/ posts' = posts /\ meddled' = meddled
    BY <1>3 DEF DeleteOld, Delete, Deletes
  <2>3. job[p].at = "old" /\ made' = made
    BY <1>3 DEF DeleteOld
  <2>4. i = job[p].known
    OBVIOUS
  <2> HIDE DEF i
  <2>5. CASE Deletes(i, "bot") /\ meddled' = meddled \union {posts[i].channel}
    <3>1. DeletesOld
      BY <2>1, <2>3, <2>4, <2>5 DEF DeletesOld
    <3> QED
      BY <2>3, <2>5, <3>1 DEF PostsChange
  <2>6. CASE posts' = posts /\ meddled' = meddled
    BY <2>3, <2>6 DEF PostsChange
  <2> QED
    BY <2>2, <2>5, <2>6
<1>4. CASE GetChannelByID(p)
  BY <1>4 DEF GetChannelByID, PostsChange
<1>5. CASE CountEvents(p)
  BY <1>5 DEF CountEvents, PostsChange
<1>6. CASE UpdateRecorded(p)
  <2>1. UNCHANGED <<made, meddled>>
    BY <1>6 DEF UpdateRecorded
  <2>2. posts' = posts \/ Edits(job[p].known, job[p].count)
    BY <1>6, UpdateRecordedIs
  <2> QED
    BY <2>1, <2>2, SomebodyEdits DEF PostsChange
<1>7. CASE GetMessages(p)
  BY <1>7 DEF GetMessages, PostsChange
<1>8. CASE Adopt(p)
  <2>1. UNCHANGED <<made, meddled>>
    BY <1>8 DEF Adopt
  <2>2. posts' = posts \/ Edits(job[p].msg, job[p].count)
    BY <1>8, AdoptIs
  <2> QED
    BY <2>1, <2>2, SomebodyEdits DEF PostsChange
<1>9. CASE StoreAdopted(p)
  BY <1>9 DEF StoreAdopted, SetWarningMsg, PostsChange
<1>10. ASSUME NEW i \in Id, Clean(p, i)
       PROVE  PostsChange
  <2>1. UNCHANGED <<made, meddled>>
    BY <1>10 DEF Clean
  <2>2. job[p].at = "clean" /\ i \in job[p].extras /\ (posts' = posts \/ Deletes(i, "bot"))
    BY <1>10, CleanIs
  <2> QED
    BY <2>1, <2>2 DEF PostsChange, CleansOne
<1>11. CASE CreateMessage(p)
  <2>1. UNCHANGED meddled
    BY <1>11 DEF CreateMessage
  <2>2. NewPost(job[p].ch, TRUE, TRUE, job[p].count) \/ UNCHANGED <<made, posts>>
    BY <1>11, CreateMessageIs
  <2>3. job[p].ch \in Channel /\ job[p].count \in 0 .. MaxBans
    BY JobTyped
  <2> QED
    BY <2>1, <2>2, <2>3 DEF PostsChange, MakesOne
<1>12. CASE StorePosted(p)
  BY <1>12 DEF StorePosted, SetWarningMsg, PostsChange
<1> QED
  BY <1>1, <1>2, <1>3, <1>4, <1>5, <1>6, <1>7, <1>8, <1>9, <1>10, <1>11, <1>12 DEF Step

LEMMA PostsDo ==
  ASSUME TypeInv, Next
  PROVE  PostsChange
<1> USE DEF TypeInv
<1>1. ASSUME NEW p \in Proc, Step(p)
      PROVE  PostsChange
  BY <1>1, StepPosts
<1>2. ASSUME NEW p \in Proc, RecordEvent(p)
      PROVE  PostsChange
  BY <1>2 DEF RecordEvent, PostsChange
<1>3. ASSUME NEW p \in Proc, NEW c \in Channel, Refresh(p, c) \/ Submit(p, c)
      PROVE  PostsChange
  BY <1>3 DEF Refresh, Submit, PostsChange
<1>4. ASSUME NEW c \in Channel, OthersPost(c)
      PROVE  PostsChange
  <2>1. PICK bot \in BOOLEAN : NewPost(c, bot, ~bot, 0)
    BY <1>4 DEF OthersPost
  <2>2. (~bot) \in BOOLEAN /\ 0 \in 0 .. MaxBans
    OBVIOUS
  <2> QED
    BY <1>4, <2>1, <2>2 DEF OthersPost, PostsChange, MakesOne
<1>5. ASSUME NEW i \in Id, PeopleDelete(i)
      PROVE  PostsChange
  <2>1. Deletes(i, "people") /\ posts[i].channel \in meddled'
    BY <1>5 DEF PeopleDelete, Delete, Deletes
  <2> QED
    BY <1>5, <2>1 DEF PeopleDelete, PostsChange, PeopleDeleteOne
<1>6. ASSUME NEW i \in Id, onMessageDelete(i)
      PROVE  PostsChange
  BY <1>6 DEF onMessageDelete, PostsChange
<1>7. CASE DeleteGuild
  BY <1>7 DEF DeleteGuild, PostsChange
<1>8. CASE Restart
  BY <1>8 DEF Restart, PostsChange
<1>9. CASE Full
  BY <1>9 DEF Full, vars, PostsChange
<1> QED
  BY <1>1, <1>2, <1>3, <1>4, <1>5, <1>6, <1>7, <1>8, <1>9 DEF Next

LEMMA EditsAre ==
  ASSUME TypeOK, NEW i \in Id, NEW label \in 0 .. MaxBans, Edits(i, label)
  PROVE  /\ posts' \in [Id -> Post]
         /\ \A k \in Id :
                /\ posts'[k].channel = posts[k].channel /\ posts'[k].gone = posts[k].gone
                /\ posts'[k].bot <=> posts[k].bot
                /\ posts'[k].prefixed <=> posts[k].prefixed
                /\ posts'[k].label = IF k = i THEN label ELSE posts[k].label
<1>1. posts \in [Id -> Post] /\ posts' = [posts EXCEPT ![i].label = label]
  BY DEF TypeOK, Edits
<1> DEFINE e == [posts[i] EXCEPT !.label = label]
<1>2. e \in Post /\ e.label = label /\ e.channel = posts[i].channel /\ e.gone = posts[i].gone
  BY <1>1 DEF Post
<1>3. (e.bot <=> posts[i].bot) /\ (e.prefixed <=> posts[i].prefixed)
  BY <1>1 DEF Post
<1>4. posts' = [posts EXCEPT ![i] = e]
  BY <1>1
<1> HIDE DEF e
<1> QED
  BY <1>1, <1>2, <1>3, <1>4

LEMMA DeletesAre ==
  ASSUME TypeOK, NEW i \in Id, NEW who \in {"bot", "people"}, Deletes(i, who)
  PROVE  /\ posts' \in [Id -> Post]
         /\ \A k \in Id :
                /\ posts'[k].channel = posts[k].channel /\ posts'[k].label = posts[k].label
                /\ posts'[k].bot <=> posts[k].bot
                /\ posts'[k].prefixed <=> posts[k].prefixed
                /\ k # i => posts'[k].gone = posts[k].gone
                /\ posts'[k].gone \in {posts[k].gone, who}
<1>1. posts \in [Id -> Post]
  BY DEF TypeOK
<1>2. PICK g \in {posts[i].gone, who} : posts' = [posts EXCEPT ![i].gone = g]
  BY <1>1 DEF Deletes
<1> DEFINE e == [posts[i] EXCEPT !.gone = g]
<1>3. e \in Post /\ e.gone = g /\ e.channel = posts[i].channel /\ e.label = posts[i].label
  BY <1>1, <1>2 DEF Post
<1>4. (e.bot <=> posts[i].bot) /\ (e.prefixed <=> posts[i].prefixed)
  BY <1>1 DEF Post
<1>5. posts' = [posts EXCEPT ![i] = e]
  BY <1>1, <1>2
<1> HIDE DEF e
<1> QED
  BY <1>1, <1>2, <1>3, <1>4, <1>5

LEMMA NewPostIs ==
  ASSUME TypeOK, NEW c \in Channel, NEW bot \in BOOLEAN, NEW prefixed \in BOOLEAN,
         NEW label \in 0 .. MaxBans, NewPost(c, bot, prefixed, label)
  PROVE  /\ made' = made + 1 /\ made' \in Id /\ made' \in 0 .. MaxPosts
         /\ posts' \in [Id -> Post]
         /\ \A k \in Id : k # made' => posts'[k] = posts[k]
         /\ posts'[made'].channel = c /\ posts'[made'].gone = "no"
         /\ posts'[made'].bot <=> bot
         /\ posts'[made'].prefixed <=> prefixed
         /\ posts'[made'].label = label
<1> DEFINE e == [channel |-> c, bot |-> bot, prefixed |-> prefixed, label |-> label, gone |-> "no"]
<1>1. posts \in [Id -> Post] /\ made \in 0 .. MaxPosts
  BY DEF TypeOK
<1>2. made' = made + 1 /\ made < MaxPosts /\ posts' = [posts EXCEPT ![made'] = e]
  BY DEF NewPost
<1>3. made' \in Id /\ made' \in 0 .. MaxPosts
  BY <1>1, <1>2 DEF Id
<1>4. e \in Post
  BY DEF Post
<1>5. /\ e.channel = c /\ e.gone = "no" /\ e.label = label
      /\ (e.bot <=> bot) /\ (e.prefixed <=> prefixed)
  OBVIOUS
<1> HIDE DEF e
<1>6. PICK m \in Id : m = made'
  BY <1>3
<1>7. posts' = [posts EXCEPT ![m] = e]
  BY <1>2, <1>6
<1>8. /\ posts' \in [Id -> Post]
      /\ \A k \in Id : k # m => posts'[k] = posts[k]
      /\ posts'[m] = e
  BY <1>1, <1>4, <1>7
<1> QED
  BY <1>2, <1>3, <1>5, <1>6, <1>8

(* No message changes its author, its prefix or its channel. *)
Grown ==
    /\ made' \in 0 .. MaxPosts /\ posts' \in [Id -> Post]
    /\ made' >= made
    /\ \A k \in Id : k <= made =>
        /\ posts'[k].channel = posts[k].channel
        /\ posts'[k].bot <=> posts[k].bot
        /\ posts'[k].prefixed <=> posts[k].prefixed

LEMMA PostsGrow ==
  ASSUME TypeOK, PostsChange
  PROVE  Grown
<1>1. made \in 0 .. MaxPosts /\ posts \in [Id -> Post]
  BY DEF TypeOK
<1>2. CASE MakesOne
  <2>1. PICK c \in Channel, bot \in BOOLEAN, prefixed \in BOOLEAN, label \in 0 .. MaxBans :
          NewPost(c, bot, prefixed, label)
    BY <1>2 DEF MakesOne
  <2>2. /\ made' = made + 1 /\ made' \in 0 .. MaxPosts /\ posts' \in [Id -> Post]
        /\ \A k \in Id : k # made' => posts'[k] = posts[k]
    BY <2>1, NewPostIs
  <2> QED
    BY <1>1, <2>2 DEF Grown
<1>3. CASE made' = made /\ posts' = posts
  BY <1>1, <1>3 DEF Grown
<1>4. CASE made' = made /\ EditsOne
  <2>1. PICK i \in Id, label \in 0 .. MaxBans : Edits(i, label)
    BY <1>4 DEF EditsOne
  <2> QED
    BY <1>1, <1>4, <2>1, EditsAre DEF Grown
<1>5. CASE made' = made /\ (PeopleDeleteOne \/ DeletesOld \/ CleansOne)
  <2>1. PICK i \in Id, who \in {"bot", "people"} : Deletes(i, who)
    BY <1>5 DEF PeopleDeleteOne, DeletesOld, CleansOne
  <2> QED
    BY <1>1, <1>5, <2>1, DeletesAre DEF Grown
<1> QED
  BY <1>2, <1>3, <1>4, <1>5 DEF PostsChange

-----------------------------------------------------------------------------
(* What a step does to the registered channels and their messages: a row   *)
(* is cleared, comes or goes, or a call records its message.               *)
Recorded(c) == \E p \in Proc :
    /\ job[p].at \in {"record", "store"}
    /\ c = job[p].ch /\ rows'[c] = job[p].msg
RowsChange ==
    /\ rows' \in [Channel -> MaybeId \union {NoRow}]
    /\ \A c \in Channel : rows'[c] \in {rows[c], Nil, NoRow} \/ Recorded(c)

LEMMA RowsKept ==
  ASSUME TypeOK, rows' = rows
  PROVE  RowsChange
BY DEF TypeOK, RowsChange

LEMMA RowsRecorded ==
  ASSUME TypeOK, NEW p \in Proc, job[p].at \in {"record", "store"}, Records(p)
  PROVE  RowsChange
<1> DEFINE c == job[p].ch
           m == job[p].msg
<1>1. rows \in [Channel -> MaybeId \union {NoRow}] /\ c \in Channel /\ m \in MaybeId
  BY JobTyped DEF TypeOK
<1>2. \/ rows' = rows
      \/ rows' = [rows EXCEPT ![c] = m]
  BY <1>1 DEF Records
<1>3. CASE rows' = [rows EXCEPT ![c] = m]
  <2>1. rows' \in [Channel -> MaybeId \union {NoRow}] /\ rows'[c] = m
        /\ \A d \in Channel : d # c => rows'[d] = rows[d]
    BY <1>1, <1>3
  <2>2. Recorded(c)
    BY <2>1 DEF Recorded
  <2> QED
    BY <2>1, <2>2 DEF RowsChange
<1> QED
  BY <1>2, <1>3, RowsKept

LEMMA StepRows ==
  ASSUME TypeOK, NEW p \in Proc, Step(p)
  PROVE  RowsChange
<1>1. CASE UNCHANGED rows
  BY <1>1, RowsKept
<1>2. CASE SaveGuildSetup(p)
  <2>1. rows' = Saved(p)
    BY <1>2 DEF SaveGuildSetup
  <2>2. \A c \in Channel : Saved(p)[c] \in {rows[c], Nil, NoRow}
    BY DEF Saved
  <2>3. Saved(p) \in [Channel -> MaybeId \union {NoRow}]
    BY DEF Saved, TypeOK, MaybeId
  <2> QED
    BY <2>1, <2>2, <2>3 DEF RowsChange
<1>3. CASE StoreAdopted(p)
  BY <1>3, StoreAdoptedIs, RowsRecorded, RowsKept
<1>4. CASE StorePosted(p)
  BY <1>4, StorePostedIs, RowsRecorded, RowsKept
<1>5. \/ UNCHANGED rows \/ SaveGuildSetup(p) \/ StoreAdopted(p) \/ StorePosted(p)
  BY DEF Step, GetChannel, DeleteOld, GetChannelByID, CountEvents, UpdateRecorded,
         GetMessages, Adopt, Clean, CreateMessage
<1> QED
  BY <1>1, <1>2, <1>3, <1>4, <1>5

LEMMA RowsDo ==
  ASSUME TypeOK, Next
  PROVE  RowsChange
<1>1. ASSUME NEW p \in Proc, Step(p)
      PROVE  RowsChange
  BY <1>1, StepRows
<1>2. ASSUME NEW i \in Id, onMessageDelete(i)
      PROVE  RowsChange
  <2>1. rows' = ClearMsg(i)
    BY <1>2 DEF onMessageDelete
  <2>2. \A c \in Channel : ClearMsg(i)[c] \in {rows[c], Nil, NoRow}
    BY DEF ClearMsg
  <2>3. ClearMsg(i) \in [Channel -> MaybeId \union {NoRow}]
    BY DEF ClearMsg, TypeOK, MaybeId
  <2> QED
    BY <2>1, <2>2, <2>3 DEF RowsChange
<1>3. CASE DeleteGuild
  BY <1>3 DEF DeleteGuild, RowsChange
<1>4. CASE UNCHANGED rows
  BY <1>4, RowsKept
<1>5. \/ \E p \in Proc : Step(p)
      \/ \E i \in Id : onMessageDelete(i)
      \/ DeleteGuild
      \/ UNCHANGED rows
  BY DEF Next, RecordEvent, Refresh, Submit, OthersPost, PeopleDelete, Restart, Full, vars
<1> QED
  BY <1>1, <1>2, <1>3, <1>4, <1>5

-----------------------------------------------------------------------------
(* What a step does to a call: a goroutine takes a step of its own, or     *)
(* stays where it is, or is at rest.                                       *)
Still(q) ==
    /\ job'[q].at = job[q].at /\ job'[q].ch = job[q].ch
    /\ job'[q].known = job[q].known /\ job'[q].prev = job[q].prev
    /\ job'[q].msg = job[q].msg /\ job'[q].extras = job[q].extras
AtRest(q) == job'[q].at \in Over
Works(q) ==
    \/ RecordEvent(q) \/ Step(q)
    \/ \E c \in Channel : Refresh(q, c) \/ Submit(q, c)

LEMMA OthersAre ==
  ASSUME job \in [Proc -> Job], NEW p \in Proc, Moves(p), NEW q \in Proc, q # p
  PROVE  Still(q) \/ AtRest(q)
<1>1. job'[q] = job[q] \/ job'[q] = Accompanied(job[q])
  BY DEF Moves
<1>2. job[q] \in Job
  OBVIOUS
<1>3. CASE job'[q] = job[q]
  BY <1>3 DEF Still
<1>4. CASE job'[q] = Accompanied(job[q])
  BY <1>2, <1>4, AccompaniedIs, RestingIsJob DEF Still, AtRest, Over
<1> QED
  BY <1>1, <1>3, <1>4

LEMMA DisturbIs ==
  ASSUME job \in [Proc -> Job], Disturb
  PROVE  /\ job' \in [Proc -> Job]
         /\ \A q \in Proc : Still(q) \/ AtRest(q)
<1>1. \A q \in Proc : Accompanied(job[q]) \in Job
  BY AccompaniedIs
<1>2. ASSUME NEW q \in Proc
      PROVE  Still(q) \/ AtRest(q)
  <2>1. job'[q] = Accompanied(job[q])
    BY DEF Disturb
  <2> QED
    BY <2>1, AccompaniedIs, RestingIsJob DEF Still, AtRest, Over
<1> QED
  BY <1>1, <1>2 DEF Disturb

LEMMA WorkMoves ==
  ASSUME TypeOK, NEW p \in Proc, Works(p)
  PROVE  Moves(p)
<1>1. CASE \E i \in Id : Clean(p, i)
  BY <1>1, CleanIs
<1>2. CASE \E c \in Channel : Refresh(p, c) \/ Submit(p, c)
  BY <1>2, RefreshIs, SubmitIs
<1> QED
  BY <1>1, <1>2, RecordEventIs, GetChannelIs, SaveGuildSetupIs, DeleteOldIs, GetChannelByIDIs,
     CountEventsIs, UpdateRecordedIs, GetMessagesIs, AdoptIs, StoreAdoptedIs, CreateMessageIs,
     StorePostedIs DEF Works, Step

LEMMA JobsDo ==
  ASSUME TypeOK, Next
  PROVE  /\ job' \in [Proc -> Job]
         /\ \A q \in Proc : Still(q) \/ AtRest(q) \/ Works(q)
<1>1. job \in [Proc -> Job]
  BY DEF TypeOK
<1>2. ASSUME NEW p \in Proc, Works(p)
      PROVE  /\ job' \in [Proc -> Job]
             /\ \A q \in Proc : Still(q) \/ AtRest(q) \/ Works(q)
  <2>1. Moves(p)
    BY <1>2, WorkMoves
  <2> QED
    BY <1>1, <1>2, <2>1, OthersAre DEF Moves
<1>3. CASE Disturb
  BY <1>1, <1>3, DisturbIs
<1>4. CASE UNCHANGED job
  BY <1>1, <1>4 DEF Still
<1>5. CASE job' = [p \in Proc |-> Resting]
  BY <1>5, RestingIsJob DEF AtRest, Over
<1>6. (\E p \in Proc : Works(p)) \/ Disturb \/ UNCHANGED job \/ job' = [p \in Proc |-> Resting]
  BY DEF Next, Works, OthersPost, PeopleDelete, onMessageDelete, DeleteGuild, Restart, Full, vars
<1> QED
  BY <1>2, <1>3, <1>4, <1>5, <1>6

-----------------------------------------------------------------------------
(* The type invariant. *)

OtherTypes ==
    /\ bans \in 0 .. MaxBans /\ deletions \subseteq Id
    /\ faults \in 0 .. MaxFaults /\ changes \in 0 .. MaxChanges

LEMMA DeletionsTyped ==
  ASSUME TypeOK, NEW i, NEW who, Delete(i, who)
  PROVE  deletions' \subseteq Id
BY DEF TypeOK, Delete, Exists, Id

LEMMA FaultsTyped ==
  ASSUME TypeOK, Faulty \/ faults' = faults
  PROVE  faults' \in 0 .. MaxFaults
BY DEF TypeOK, Faulty

LEMMA ChangesTyped ==
  ASSUME TypeOK, Intervene \/ changes' = changes
  PROVE  changes' \in 0 .. MaxChanges
BY DEF TypeOK, Intervene

LEMMA OthersTyped ==
  ASSUME TypeOK, Next
  PROVE  OtherTypes'
<1>1. ASSUME NEW p \in Proc, Step(p)
      PROVE  UNCHANGED <<bans, changes>> /\ (Faulty \/ faults' = faults)
  BY <1>1 DEF Step, GetChannel, SaveGuildSetup, DeleteOld, GetChannelByID, CountEvents,
         UpdateRecorded, GetMessages, Adopt, StoreAdopted, Clean, CreateMessage, StorePosted,
         SetWarningMsg, Edit, Fails, LosesAnswer
<1>2. ASSUME NEW p \in Proc, Step(p)
      PROVE  deletions' \subseteq Id
  <2>1. deletions \subseteq Id
    BY DEF TypeOK
  <2>2. UNCHANGED deletions \/ \E i, who : Delete(i, who)
    BY <1>2 DEF Step, GetChannel, SaveGuildSetup, DeleteOld, GetChannelByID, CountEvents,
         UpdateRecorded, GetMessages, Adopt, StoreAdopted, Clean, CreateMessage, StorePosted,
         SetWarningMsg
  <2> QED
    BY <2>1, <2>2, DeletionsTyped
<1>3. ASSUME NEW p \in Proc, Step(p)
      PROVE  OtherTypes'
  <2>1. bans' \in 0 .. MaxBans /\ changes' \in 0 .. MaxChanges
    BY <1>1, <1>3 DEF TypeOK
  <2> QED
    BY <1>1, <1>2, <1>3, <2>1, FaultsTyped DEF OtherTypes
<1>4. ASSUME NEW p \in Proc, RecordEvent(p)
      PROVE  OtherTypes'
  BY <1>4 DEF RecordEvent, OtherTypes, TypeOK
<1>5. ASSUME NEW p \in Proc, NEW c \in Channel, Refresh(p, c)
      PROVE  OtherTypes'
  BY <1>5 DEF Refresh, OtherTypes, TypeOK
<1>6. ASSUME NEW p \in Proc, NEW c \in Channel, Submit(p, c)
      PROVE  OtherTypes'
  <2>1. bans' \in 0 .. MaxBans /\ deletions' \subseteq Id /\ faults' \in 0 .. MaxFaults
    BY <1>6 DEF Submit, TypeOK
  <2>2. Intervene
    BY <1>6 DEF Submit
  <2> QED
    BY <2>1, <2>2, ChangesTyped DEF OtherTypes
<1>7. ASSUME NEW c \in Channel, OthersPost(c)
      PROVE  OtherTypes'
  <2>1. bans' \in 0 .. MaxBans /\ deletions' \subseteq Id /\ faults' \in 0 .. MaxFaults
    BY <1>7 DEF OthersPost, TypeOK
  <2> QED
    BY <1>7, <2>1, ChangesTyped DEF OtherTypes, OthersPost
<1>8. ASSUME NEW i \in Id, PeopleDelete(i)
      PROVE  OtherTypes'
  <2>1. bans' \in 0 .. MaxBans /\ faults' \in 0 .. MaxFaults
    BY <1>8 DEF PeopleDelete, TypeOK
  <2> QED
    BY <1>8, <2>1, ChangesTyped, DeletionsTyped DEF OtherTypes, PeopleDelete
<1>9. ASSUME NEW i \in Id, onMessageDelete(i)
      PROVE  OtherTypes'
  BY <1>9 DEF onMessageDelete, OtherTypes, TypeOK
<1>10. CASE DeleteGuild
  BY <1>10, ChangesTyped DEF DeleteGuild, OtherTypes, TypeOK
<1>11. CASE Restart
  BY <1>11, ChangesTyped DEF Restart, OtherTypes, TypeOK
<1>12. CASE Full
  BY <1>12 DEF Full, vars, OtherTypes, TypeOK
<1> QED
  BY <1>3, <1>4, <1>5, <1>6, <1>7, <1>8, <1>9, <1>10, <1>11, <1>12 DEF Next

LEMMA MeddledTyped ==
  ASSUME TypeInv, Next
  PROVE  meddled' \subseteq Channel
<1> USE DEF TypeInv
<1>1. meddled \subseteq Channel /\ posts \in [Id -> Post]
  BY DEF TypeOK
<1>2. \A i \in Id : posts[i].channel \in Channel
  BY <1>1 DEF Post
<1>3. CASE UNCHANGED meddled
  BY <1>1, <1>3
<1>4. ASSUME NEW p \in Proc, DeleteOld(p)
      PROVE  meddled' \subseteq Channel
  <2>1. job[p].known \in Id
    BY <1>4, JobTyped DEF DeleteOld, OldKnown, MaybeId
  <2>2. meddled' = meddled \/ meddled' = meddled \union {posts[job[p].known].channel}
    BY <1>4 DEF DeleteOld
  <2> QED
    BY <1>1, <1>2, <2>1, <2>2
<1>5. ASSUME NEW i \in Id, PeopleDelete(i)
      PROVE  meddled' \subseteq Channel
  BY <1>1, <1>2, <1>5 DEF PeopleDelete
<1>6. \/ UNCHANGED meddled
      \/ \E p \in Proc : DeleteOld(p)
      \/ \E i \in Id : PeopleDelete(i)
  BY DEF Next, Step, GetChannel, SaveGuildSetup, GetChannelByID, CountEvents, UpdateRecorded,
         GetMessages, Adopt, StoreAdopted, Clean, CreateMessage, StorePosted, SetWarningMsg,
         RecordEvent, Refresh, Submit, OthersPost, onMessageDelete, DeleteGuild, Restart, Full, vars
<1> QED
  BY <1>3, <1>4, <1>5, <1>6

(* How a call that deletes the previous message got there. *)
LEMMA AtOld ==
  ASSUME TypeOK, NEW p \in Proc, Works(p), job'[p].at = "old"
  PROVE  SaveGuildSetup(p)
<1> USE DEF Over
<1>1. ~(\E c \in Channel : Refresh(p, c) \/ Submit(p, c))
  BY RefreshIs, SubmitIs
<1>2. ~(\E i \in Id : Clean(p, i))
  BY CleanIs DEF Succeeded, Onward, Dropped
<1>3. ~RecordEvent(p) /\ ~GetChannel(p) /\ ~DeleteOld(p) /\ ~GetChannelByID(p)
  BY RecordEventIs, GetChannelIs, DeleteOldIs, GetChannelByIDIs
<1>4. ~CountEvents(p) /\ ~UpdateRecorded(p) /\ ~GetMessages(p) /\ ~Adopt(p)
  BY CountEventsIs, UpdateRecordedIs, GetMessagesIs, AdoptIs DEF Succeeded, Onward, Dropped
<1>5. ~StoreAdopted(p) /\ ~CreateMessage(p) /\ ~StorePosted(p)
  BY StoreAdoptedIs, CreateMessageIs, StorePostedIs DEF Succeeded, Onward, Dropped
<1> QED
  BY <1>1, <1>2, <1>3, <1>4, <1>5 DEF Works, Step

LEMMA TypeInit ==
  ASSUME Init
  PROVE  TypeInv
<1>1. OldKnown
  BY DEF Init, OldKnown, Resting
<1>2. rows \in [Channel -> MaybeId \union {NoRow}]
  BY DEF Init, MaybeId
<1>3. posts \in [Id -> Post]
  BY DEF Init, Post
<1>4. job \in [Proc -> Job]
  BY RestingIsJob DEF Init
<1>5. made \in 0 .. MaxPosts /\ meddled \subseteq Channel /\ OtherTypes
  BY DEF Init, OtherTypes
<1> QED
  BY <1>1, <1>2, <1>3, <1>4, <1>5 DEF TypeInv, TypeOK, OtherTypes

LEMMA TypeStep ==
  ASSUME TypeInv, [Next]_vars
  PROVE  TypeInv'
<1> USE DEF TypeInv
<1>1. CASE Next
  <2>1. Grown
    BY <1>1, PostsDo, PostsGrow
  <2>2. rows' \in [Channel -> MaybeId \union {NoRow}]
    BY <1>1, RowsDo DEF RowsChange
  <2>3. job' \in [Proc -> Job] /\ \A q \in Proc : Still(q) \/ AtRest(q) \/ Works(q)
    BY <1>1, JobsDo
  <2>4. ASSUME NEW q \in Proc, job'[q].at = "old"
        PROVE  job'[q].known # Nil
    <3>1. CASE Still(q)
      BY <2>4, <3>1 DEF Still, OldKnown
    <3>2. CASE Works(q)
      BY <2>4, <3>2, AtOld, SaveGuildSetupIs
    <3> QED
      BY <2>3, <2>4, <3>1, <3>2 DEF AtRest, Over
  <2>5. OldKnown'
    BY <2>4 DEF OldKnown
  <2> QED
    BY <1>1, <2>1, <2>2, <2>3, <2>5, OthersTyped, MeddledTyped DEF TypeOK, Grown, OtherTypes
<1>2. CASE UNCHANGED vars
  BY <1>2 DEF vars, TypeOK, OldKnown
<1> QED
  BY <1>1, <1>2

(* Every variable keeps its type; a call that is to delete the previous    *)
(* honeypot's message has one to delete.                                   *)
THEOREM TypeCorrect == Spec => []TypeOK
<1>1. Init => TypeInv
  BY TypeInit
<1>2. TypeInv /\ [Next]_vars => TypeInv'
  BY TypeStep
<1>3. TypeInv => TypeOK
  BY DEF TypeInv
<1> QED
  BY <1>1, <1>2, <1>3, PTL DEF Spec

-----------------------------------------------------------------------------
(* Only the bot's own warnings are recorded, adopted or deleted by it.     *)

(* i is a warning the bot has posted in channel c, there or deleted. *)
OwnIn(i, c) == i \in 1 .. made /\ OwnWarning(i) /\ posts[i].channel = c

MsgSound(p) == job[p].at \in {"adopt", "record", "store"} => OwnIn(job[p].msg, job[p].ch)
ExtrasSound(p) == job[p].at \in {"adopt", "record", "clean"} =>
    \A i \in job[p].extras :
        OwnIn(i, job[p].ch) /\ \E k \in Id : k < i /\ OwnIn(k, job[p].ch)
KnownSound(p) == job[p].at \in {"save", "old"} /\ job[p].known # Nil =>
    OwnIn(job[p].known, job[p].prev)
SoundAt(p) == MsgSound(p) /\ ExtrasSound(p) /\ KnownSound(p)

RowsSound == \A c \in Channel : rows[c] \in Id => OwnIn(rows[c], c)
DeletedSound == \A i \in Id : posts[i].gone = "bot" => OwnWarning(i)

OwnInv == TypeInv /\ RowsSound /\ DeletedSound /\ \A p \in Proc : SoundAt(p)

LEMMA OwnGrows ==
  ASSUME TypeOK, Grown, NEW i, NEW c, OwnIn(i, c)
  PROVE  OwnIn(i, c)'
<1>1. i \in Id /\ i <= made /\ i \in 1 .. made'
  BY DEF OwnIn, TypeOK, Grown, Id
<1> QED
  BY <1>1 DEF OwnIn, OwnWarning, Grown

LEMMA FoundAre ==
  ASSUME TypeOK, NEW c \in Channel
  PROVE  /\ Found(c) \subseteq Id /\ Found(c) \subseteq Nat
         /\ \A i \in Found(c) : OwnIn(i, c)
BY DEF Found, Recent, Messages, Matches, OwnIn, TypeOK, Id

(* Whoever stays where it was, or is at rest, stays sound. *)
LEMMA StillSound ==
  ASSUME TypeOK, Grown, NEW q \in Proc, SoundAt(q), Still(q) \/ AtRest(q)
  PROVE  SoundAt(q)'
<1>1. CASE AtRest(q)
  BY <1>1 DEF AtRest, Over, SoundAt, MsgSound, ExtrasSound, KnownSound
<1>2. CASE Still(q)
  <2>1. MsgSound(q)'
    <3>1. SUFFICES ASSUME job[q].at \in {"adopt", "record", "store"}
                   PROVE  OwnIn(job[q].msg, job[q].ch)'
      BY <1>2 DEF Still, MsgSound
    <3>2. PICK m, c : m = job[q].msg /\ c = job[q].ch
      OBVIOUS
    <3>3. OwnIn(m, c)'
      BY <3>1, <3>2, OwnGrows DEF SoundAt, MsgSound
    <3> QED
      BY <1>2, <3>2, <3>3 DEF Still, OwnIn, OwnWarning
  <2>2. ExtrasSound(q)'
    <3>1. SUFFICES ASSUME job[q].at \in {"adopt", "record", "clean"}, NEW i \in job[q].extras
                   PROVE  OwnIn(i, job[q].ch)' /\ \E k \in Id : k < i /\ OwnIn(k, job[q].ch)'
      BY <1>2 DEF Still, ExtrasSound
    <3>2. PICK c : c = job[q].ch
      OBVIOUS
    <3>3. PICK k \in Id : k < i /\ OwnIn(k, c) /\ OwnIn(i, c)
      BY <3>1, <3>2 DEF SoundAt, ExtrasSound
    <3>4. OwnIn(i, c)' /\ OwnIn(k, c)'
      BY <3>3, OwnGrows
    <3>5. job'[q].ch = c
      BY <1>2, <3>2 DEF Still
    <3>6. k < i
      BY <3>3
    <3> QED
      BY <3>4, <3>5, <3>6 DEF OwnIn, OwnWarning
  <2>3. KnownSound(q)'
    <3>1. SUFFICES ASSUME job[q].at \in {"save", "old"}, job[q].known # Nil
                   PROVE  OwnIn(job[q].known, job[q].prev)'
      BY <1>2 DEF Still, KnownSound
    <3>2. PICK m, c : m = job[q].known /\ c = job[q].prev
      OBVIOUS
    <3>3. OwnIn(m, c)'
      BY <3>1, <3>2, OwnGrows DEF SoundAt, KnownSound
    <3> QED
      BY <1>2, <3>2, <3>3 DEF Still, OwnIn, OwnWarning
  <2> QED
    BY <2>1, <2>2, <2>3 DEF SoundAt
<1> QED
  BY <1>1, <1>2

(* At the other stages a call holds no message. *)
Holding == {"save", "old", "adopt", "record", "clean", "store"}

LEMMA NothingHeld ==
  ASSUME NEW p, job'[p].at \notin Holding
  PROVE  SoundAt(p)'
BY DEF Holding, SoundAt, MsgSound, ExtrasSound, KnownSound

(* The message p is at, and its extras, as they were. *)
LEMMA KeepingSound ==
  ASSUME TypeOK, Grown, NEW p \in Proc, SoundAt(p), job'[p].ch = job[p].ch,
         job'[p].msg = job[p].msg, job'[p].extras \subseteq job[p].extras
  PROVE  /\ job[p].at \in {"adopt", "record", "store"} => OwnIn(job[p].msg, job[p].ch)'
         /\ job[p].at \in {"adopt", "record", "clean"} =>
                \A i \in job'[p].extras :
                    OwnIn(i, job[p].ch)' /\ \E k \in Id : k < i /\ OwnIn(k, job[p].ch)'
<1>1. PICK m, c : m = job[p].msg /\ c = job[p].ch
  OBVIOUS
<1>2. job'[p].msg = m /\ job'[p].ch = c
  BY <1>1
<1>3. ASSUME job[p].at \in {"adopt", "record", "store"}
      PROVE  OwnIn(job[p].msg, job[p].ch)'
  <2>1. OwnIn(m, c)'
    BY <1>1, <1>3, OwnGrows DEF SoundAt, MsgSound
  <2> QED
    BY <1>2, <2>1 DEF OwnIn, OwnWarning
<1>4. ASSUME job[p].at \in {"adopt", "record", "clean"}, NEW i \in job'[p].extras
      PROVE  OwnIn(i, job[p].ch)' /\ \E k \in Id : k < i /\ OwnIn(k, job[p].ch)'
  <2>1. i \in job[p].extras
    BY <1>4
  <2>2. PICK k \in Id : k < i /\ OwnIn(k, c) /\ OwnIn(i, c)
    BY <1>1, <1>4, <2>1 DEF SoundAt, ExtrasSound
  <2>3. OwnIn(i, c)' /\ OwnIn(k, c)'
    BY <2>2, OwnGrows
  <2>4. k < i
    BY <2>2
  <2> QED
    BY <1>2, <2>3, <2>4 DEF OwnIn, OwnWarning
<1> QED
  BY <1>3, <1>4

LEMMA SubmitSound ==
  ASSUME OwnInv, Grown, NEW p \in Proc, NEW c \in Channel, Submit(p, c)
  PROVE  SoundAt(p)'
<1>1. TypeOK
  BY DEF OwnInv, TypeInv
<1>2. /\ job'[p].at = "save"
      /\ \/ job'[p].known = Nil
         \/ \E d \in Channel : job'[p].prev = d /\ job'[p].known = rows[d]
  BY <1>1, SubmitIs
<1>3. CASE job'[p].known = Nil
  BY <1>2, <1>3 DEF SoundAt, MsgSound, ExtrasSound, KnownSound
<1>4. ASSUME NEW d \in Channel, job'[p].prev = d, job'[p].known = rows[d], rows[d] # Nil
      PROVE  SoundAt(p)'
  <2>1. Moves(p)
    BY <1>1, SubmitIs
  <2>2. rows[d] \in Id
    BY <1>4, <2>1 DEF Moves, Job, MaybeId
  <2>3. PICK m : m = rows[d]
    OBVIOUS
  <2>4. OwnIn(m, d)
    BY <2>2, <2>3 DEF OwnInv, RowsSound
  <2>5. OwnIn(m, d)'
    BY <1>1, <2>4, OwnGrows
  <2>6. OwnIn(job[p].known, job[p].prev)'
    BY <1>4, <2>3, <2>5 DEF OwnIn, OwnWarning
  <2> QED
    BY <1>2, <2>6 DEF SoundAt, MsgSound, ExtrasSound, KnownSound
<1> QED
  BY <1>2, <1>3, <1>4

LEMMA SaveSound ==
  ASSUME OwnInv, Grown, NEW p \in Proc, SaveGuildSetup(p)
  PROVE  SoundAt(p)'
<1>1. TypeOK /\ SoundAt(p)
  BY DEF OwnInv, TypeInv
<1>2. /\ job[p].at = "save" /\ job'[p].at \in {"old", "lookup"}
      /\ job'[p].known = job[p].known /\ job'[p].prev = job[p].prev
  BY <1>1, SaveGuildSetupIs
<1>3. PICK m, c : m = job[p].known /\ c = job[p].prev
  OBVIOUS
<1>4. ASSUME m # Nil
      PROVE  OwnIn(m, c)'
  BY <1>1, <1>2, <1>3, <1>4, OwnGrows DEF SoundAt, KnownSound
<1>5. job[p].known # Nil => OwnIn(job[p].known, job[p].prev)'
  BY <1>2, <1>3, <1>4 DEF OwnIn, OwnWarning
<1>6. KnownSound(p)'
  BY <1>2, <1>5 DEF KnownSound
<1> QED
  BY <1>2, <1>6 DEF SoundAt, MsgSound, ExtrasSound

LEMMA GetMessagesSound ==
  ASSUME OwnInv, Grown, NEW p \in Proc, GetMessages(p)
  PROVE  SoundAt(p)'
<1>1. TypeOK
  BY DEF OwnInv, TypeInv
<1>2. PICK c \in Channel : c = job[p].ch
  BY <1>1, JobTyped
<1>3. \/ /\ Onward(p, "adopt") /\ Found(c) # {}
         /\ job'[p].msg = Min(Found(c))
         /\ job'[p].extras = Found(c) \ {Min(Found(c))}
      \/ Onward(p, "create")
  BY <1>1, <1>2, GetMessagesIs
<1>4. CASE Onward(p, "create")
  BY <1>4, NothingHeld DEF Onward, Holding
<1>5. CASE /\ Onward(p, "adopt") /\ Found(c) # {}
           /\ job'[p].msg = Min(Found(c))
           /\ job'[p].extras = Found(c) \ {Min(Found(c))}
  <2>1. Found(c) \subseteq Id /\ Found(c) \in SUBSET Nat /\ \A i \in Found(c) : OwnIn(i, c)
    BY <1>1, FoundAre
  <2>2. PICK found \in SUBSET Nat : found = Found(c)
    BY <2>1
  <2>3. Min(found) \in found /\ \A x \in found : Min(found) <= x
    BY <1>5, <2>2, MinIs
  <2>4. PICK m \in found : m = Min(found)
    BY <2>3
  <2>5. \A i \in found : OwnIn(i, c)'
    BY <1>1, <2>1, <2>2, OwnGrows
  <2>6. OwnIn(m, c)'
    BY <2>5
  <2>7. job'[p].msg = m /\ job'[p].ch = c /\ job'[p].extras = found \ {m} /\ job'[p].at = "adopt"
    BY <1>2, <1>5, <2>2, <2>4 DEF Onward
  <2>8. OwnIn(job[p].msg, job[p].ch)'
    BY <2>6, <2>7 DEF OwnIn, OwnWarning
  <2>9. ASSUME NEW i \in job'[p].extras
        PROVE  OwnIn(i, job[p].ch)' /\ \E k \in Id : k < i /\ OwnIn(k, job[p].ch)'
    <3>1. OwnIn(i, c)' /\ i \in found /\ i # m
      BY <2>5, <2>7, <2>9
    <3>2. m < i /\ m \in Id
      BY <2>1, <2>2, <2>3, <2>4, <3>1
    <3> QED
      BY <2>6, <2>7, <3>1, <3>2 DEF OwnIn, OwnWarning
  <2> QED
    BY <2>7, <2>8, <2>9 DEF SoundAt, MsgSound, ExtrasSound, KnownSound
<1> QED
  BY <1>3, <1>4, <1>5

LEMMA KeepersSound ==
  ASSUME OwnInv, Grown, NEW p \in Proc,
         Adopt(p) \/ StoreAdopted(p) \/ \E i \in Id : Clean(p, i)
  PROVE  SoundAt(p)'
<1>1. TypeOK /\ SoundAt(p)
  BY DEF OwnInv, TypeInv
<1>2. CASE job'[p].at \in Over
  BY <1>2, NothingHeld DEF Over, Holding
<1>3. \/ job'[p].at \in Over
      \/ /\ job'[p].ch = job[p].ch /\ job'[p].msg = job[p].msg
         /\ job'[p].extras \subseteq job[p].extras
         /\ \/ job[p].at = "adopt" /\ job'[p].at = "record"
            \/ job[p].at \in {"record", "clean"} /\ job'[p].at = "clean"
  <2>1. ASSUME NEW i \in Id, Clean(p, i)
        PROVE  \/ job'[p].at \in Over
               \/ /\ job'[p].ch = job[p].ch /\ job'[p].msg = job[p].msg
                  /\ job'[p].extras \subseteq job[p].extras
                  /\ job[p].at = "clean" /\ job'[p].at = "clean"
    BY <1>1, <2>1, CleanIs DEF Succeeded, Onward, Dropped
  <2>2. CASE Adopt(p)
    BY <1>1, <2>2, AdoptIs DEF Onward, Keeping, Dropped
  <2>3. CASE StoreAdopted(p)
    BY <1>1, <2>3, StoreAdoptedIs DEF Succeeded, Onward, Keeping, Dropped
  <2> QED
    BY <2>1, <2>2, <2>3
<1>4. CASE /\ job'[p].ch = job[p].ch /\ job'[p].msg = job[p].msg
           /\ job'[p].extras \subseteq job[p].extras
           /\ \/ job[p].at = "adopt" /\ job'[p].at = "record"
              \/ job[p].at \in {"record", "clean"} /\ job'[p].at = "clean"
  <2>1. /\ job[p].at \in {"adopt", "record", "store"} => OwnIn(job[p].msg, job[p].ch)'
        /\ job[p].at \in {"adopt", "record", "clean"} =>
              \A i \in job'[p].extras :
                  OwnIn(i, job[p].ch)' /\ \E k \in Id : k < i /\ OwnIn(k, job[p].ch)'
    BY <1>1, <1>4, KeepingSound
  <2> QED
    BY <1>4, <2>1 DEF SoundAt, MsgSound, ExtrasSound, KnownSound
<1> QED
  BY <1>2, <1>3, <1>4

LEMMA CreateSound ==
  ASSUME OwnInv, NEW p \in Proc, CreateMessage(p)
  PROVE  SoundAt(p)'
<1>1. TypeOK
  BY DEF OwnInv, TypeInv
<1>2. PICK c \in Channel, label \in 0 .. MaxBans : c = job[p].ch /\ label = job[p].count
  BY <1>1, JobTyped
<1>3. \/ NewPost(c, TRUE, TRUE, label) /\ Onward(p, "store") /\ job'[p].msg = made'
      \/ Dropped(p)
  BY <1>1, <1>2, CreateMessageIs
<1>4. CASE Dropped(p)
  BY <1>4, NothingHeld DEF Dropped, Over, Holding
<1>5. CASE NewPost(c, TRUE, TRUE, label) /\ Onward(p, "store") /\ job'[p].msg = made'
  <2>1. made' \in Id /\ posts'[made'].channel = c /\ posts'[made'].bot /\ posts'[made'].prefixed
    BY <1>1, <1>5, NewPostIs
  <2>2. job'[p].ch = c /\ job'[p].at = "store" /\ job'[p].msg = made'
    BY <1>2, <1>5 DEF Onward
  <2>3. OwnIn(job[p].msg, job[p].ch)'
    BY <2>1, <2>2 DEF OwnIn, OwnWarning, Id
  <2> QED
    BY <2>2, <2>3 DEF SoundAt, MsgSound, ExtrasSound, KnownSound
<1> QED
  BY <1>3, <1>4, <1>5

LEMMA WorkSound ==
  ASSUME OwnInv, Grown, NEW p \in Proc, Works(p)
  PROVE  SoundAt(p)'
<1>1. TypeOK
  BY DEF OwnInv, TypeInv
<1>2. CASE job'[p].at \notin Holding
  BY <1>2, NothingHeld
<1>3. \/ job'[p].at \notin Holding
      \/ SaveGuildSetup(p) \/ GetMessages(p) \/ CreateMessage(p)
      \/ Adopt(p) \/ StoreAdopted(p) \/ \E i \in Id : Clean(p, i)
      \/ \E c \in Channel : Submit(p, c)
  <2>1. CASE \E c \in Channel : Refresh(p, c)
    BY <1>1, <2>1, RefreshIs DEF Holding
  <2>2. CASE RecordEvent(p) \/ GetChannel(p) \/ DeleteOld(p) \/ GetChannelByID(p)
    BY <1>1, <2>2, RecordEventIs, GetChannelIs, DeleteOldIs, GetChannelByIDIs DEF Holding, Over
  <2>3. CASE CountEvents(p) \/ UpdateRecorded(p) \/ StorePosted(p)
    BY <1>1, <2>3, CountEventsIs, UpdateRecordedIs, StorePostedIs
       DEF Holding, Over, Succeeded, Onward, Dropped
  <2> QED
    BY <2>1, <2>2, <2>3 DEF Works, Step
<1> QED
  BY <1>2, <1>3, SubmitSound, SaveSound, GetMessagesSound, KeepersSound, CreateSound

LEMMA OwnInit ==
  ASSUME Init
  PROVE  OwnInv
<1>1. TypeInv
  BY TypeInit
<1>2. \A c \in Channel : rows[c] \notin Id
  BY DEF Init, Id
<1>3. \A i \in Id : posts[i].gone = "no"
  BY DEF Init
<1>4. \A p \in Proc : job[p].at = "idle"
  BY RestingIsJob DEF Init
<1> QED
  BY <1>1, <1>2, <1>3, <1>4 DEF OwnInv, RowsSound, DeletedSound, SoundAt, MsgSound,
     ExtrasSound, KnownSound

LEMMA RowsStaySound ==
  ASSUME OwnInv, Grown, RowsChange
  PROVE  RowsSound'
<1>1. TypeOK
  BY DEF OwnInv, TypeInv
<1>2. SUFFICES ASSUME NEW c \in Channel, rows'[c] \in Id
               PROVE  OwnIn(rows[c], c)'
  BY DEF RowsSound
<1>3. PICK m \in Id : m = rows'[c]
  BY <1>2
<1>4. OwnIn(m, c)
  <2>1. CASE rows'[c] = rows[c]
    BY <1>3, <2>1 DEF OwnInv, RowsSound
  <2>2. CASE Recorded(c)
    BY <1>3, <2>2 DEF Recorded, OwnInv, SoundAt, MsgSound
  <2>3. rows'[c] \in {rows[c], Nil, NoRow} \/ Recorded(c)
    BY DEF RowsChange
  <2>4. Nil \notin Id /\ NoRow \notin Id
    BY DEF Id
  <2> QED
    BY <1>2, <2>1, <2>2, <2>3, <2>4
<1>5. OwnIn(m, c)'
  BY <1>1, <1>4, OwnGrows
<1> QED
  BY <1>3, <1>5 DEF OwnIn, OwnWarning

LEMMA BotDeletesOwn ==
  ASSUME OwnInv, DeletesOld \/ CleansOne
  PROVE  DeletedSound'
<1>1. TypeOK
  BY DEF OwnInv, TypeInv
<1>2. PICK k \in Id : Deletes(k, "bot") /\ OwnWarning(k)
  <2>1. CASE DeletesOld
    <3>1. PICK p \in Proc, k \in Id : Deletes(k, "bot") /\ job[p].at = "old" /\ k = job[p].known
      BY <2>1 DEF DeletesOld
    <3>2. KnownSound(p) /\ job[p].known # Nil
      BY <3>1 DEF OwnInv, SoundAt, Id
    <3> QED
      BY <3>1, <3>2 DEF KnownSound, OwnIn
  <2>2. CASE CleansOne
    <3>1. PICK p \in Proc, k \in Id : Deletes(k, "bot") /\ job[p].at = "clean" /\ k \in job[p].extras
      BY <2>2 DEF CleansOne
    <3>2. ExtrasSound(p)
      BY <3>1 DEF OwnInv, SoundAt
    <3> QED
      BY <3>1, <3>2 DEF ExtrasSound, OwnIn
  <2> QED
    BY <2>1, <2>2
<1>3. \A j \in Id :
        /\ posts'[j].bot <=> posts[j].bot
        /\ posts'[j].prefixed <=> posts[j].prefixed
        /\ j # k => posts'[j].gone = posts[j].gone
  BY <1>1, <1>2, DeletesAre
<1> QED
  BY <1>2, <1>3 DEF OwnInv, DeletedSound, OwnWarning

LEMMA DeletionsStaySound ==
  ASSUME OwnInv, PostsChange
  PROVE  DeletedSound'
<1>1. TypeOK /\ DeletedSound
  BY DEF OwnInv, TypeInv
<1>2. CASE MakesOne
  <2>1. PICK c \in Channel, bot \in BOOLEAN, prefixed \in BOOLEAN, label \in 0 .. MaxBans :
          NewPost(c, bot, prefixed, label)
    BY <1>2 DEF MakesOne
  <2>2. \A k \in Id : k # made' => posts'[k] = posts[k]
    BY <1>1, <2>1, NewPostIs
  <2>3. posts'[made'].gone = "no"
    BY <1>1, <2>1, NewPostIs
  <2> QED
    BY <1>1, <2>2, <2>3 DEF DeletedSound, OwnWarning
<1>3. CASE posts' = posts
  BY <1>1, <1>3 DEF DeletedSound, OwnWarning
<1>4. CASE EditsOne
  <2>1. PICK i \in Id, label \in 0 .. MaxBans : Edits(i, label)
    BY <1>4 DEF EditsOne
  <2> QED
    BY <1>1, <2>1, EditsAre DEF DeletedSound, OwnWarning
<1>5. CASE PeopleDeleteOne
  <2>1. PICK i \in Id : Deletes(i, "people")
    BY <1>5 DEF PeopleDeleteOne
  <2>2. \A k \in Id :
          /\ posts'[k].bot <=> posts[k].bot
          /\ posts'[k].prefixed <=> posts[k].prefixed
          /\ posts'[k].gone \in {posts[k].gone, "people"}
    BY <1>1, <2>1, DeletesAre
  <2> QED
    BY <1>1, <2>2 DEF DeletedSound, OwnWarning
<1>6. CASE DeletesOld \/ CleansOne
  BY <1>6, BotDeletesOwn
<1> QED
  BY <1>2, <1>3, <1>4, <1>5, <1>6 DEF PostsChange

LEMMA OwnStep ==
  ASSUME OwnInv, [Next]_vars
  PROVE  OwnInv'
<1>1. TypeInv /\ TypeOK
  BY DEF OwnInv, TypeInv
<1>2. TypeInv'
  BY <1>1, TypeStep
<1>3. CASE Next
  <2>1. PostsChange /\ RowsChange
    BY <1>1, <1>3, PostsDo, RowsDo
  <2>2. Grown
    BY <1>1, <2>1, PostsGrow
  <2>3. RowsSound' /\ DeletedSound'
    BY <2>1, <2>2, RowsStaySound, DeletionsStaySound
  <2>4. ASSUME NEW q \in Proc
        PROVE  SoundAt(q)'
    <3>1. Still(q) \/ AtRest(q) \/ Works(q)
      BY <1>1, <1>3, JobsDo
    <3>2. SoundAt(q)
      BY DEF OwnInv
    <3> QED
      BY <1>1, <2>2, <3>1, <3>2, StillSound, WorkSound
  <2> QED
    BY <1>2, <2>3, <2>4 DEF OwnInv
<1>4. CASE UNCHANGED vars
  <2>1. RowsSound' /\ DeletedSound'
    BY <1>4 DEF vars, OwnInv, RowsSound, DeletedSound, OwnIn, OwnWarning
  <2>2. ASSUME NEW q \in Proc
        PROVE  SoundAt(q)'
    <3>1. SoundAt(q)
      BY DEF OwnInv
    <3> QED
      BY <1>4, <3>1 DEF vars, SoundAt, MsgSound, ExtrasSound, KnownSound, OwnIn, OwnWarning
  <2> QED
    BY <1>2, <2>1, <2>2 DEF OwnInv
<1> QED
  BY <1>3, <1>4

(* Whatever is recorded, adopted or deleted by the bot is a warning of its *)
(* own in that channel: the listing is filtered by author and prefix, and  *)
(* every id kept afterwards - in the row, as the message to adopt, as a    *)
(* duplicate, as the previous honeypot's message - comes from it or from a *)
(* post of the call's.                                                     *)
THEOREM OnlyOwn == Spec => []OnlyOwnWarnings
<1>1. Init => OwnInv
  BY OwnInit
<1>2. OwnInv /\ [Next]_vars => OwnInv'
  BY OwnStep
<1>3. OwnInv => OnlyOwnWarnings
  BY DEF OwnInv, RowsSound, DeletedSound, OwnIn, OnlyOwnWarnings
<1> QED
  BY <1>1, <1>2, <1>3, PTL DEF Spec

-----------------------------------------------------------------------------
(* Cleaning up leaves a warning: the eldest is nobody's duplicate. *)

Eldest(e, c) ==
    /\ OwnIn(e, c) /\ posts[e].gone = "no"
    /\ \A i \in Id : OwnIn(i, c) => e <= i
EldestInv ==
    \A c \in Channel \ meddled :
        (\E i \in Id : OwnIn(i, c)) => \E e \in Id : Eldest(e, c)

LEMMA EldestInit ==
  ASSUME Init
  PROVE  EldestInv
BY DEF Init, EldestInv, OwnIn

(* A new warning is younger than those there were. *)
LEMMA EldestAfterPost ==
  ASSUME OwnInv, EldestInv, MakesOne, NEW c \in Channel, c \notin meddled,
         NEW i \in Id, OwnIn(i, c)'
  PROVE  \E e \in Id : Eldest(e, c)'
<1>1. TypeOK /\ made \in 0 .. MaxPosts
  BY DEF OwnInv, TypeInv, TypeOK
<1>2. PICK d \in Channel, bot \in BOOLEAN, prefixed \in BOOLEAN, label \in 0 .. MaxBans :
        NewPost(d, bot, prefixed, label)
  BY DEF MakesOne
<1>3. /\ made' = made + 1 /\ made' \in Id
      /\ \A k \in Id : k # made' => posts'[k] = posts[k]
      /\ posts'[made'].gone = "no"
  BY <1>1, <1>2, NewPostIs
<1>4. \A k \in Id : k # made' => (OwnIn(k, c)' <=> OwnIn(k, c))
  BY <1>1, <1>3 DEF OwnIn, OwnWarning, Id
<1>5. \A k \in Id : OwnIn(k, c) => k < made'
  BY <1>1, <1>3 DEF OwnIn, Id
<1>6. CASE \E k \in Id : OwnIn(k, c)
  <2>1. PICK e \in Id : Eldest(e, c)
    BY <1>6 DEF EldestInv
  <2>2. e # made' /\ OwnIn(e, c)' /\ posts'[e].gone = "no"
    <3>1. OwnIn(e, c) /\ posts[e].gone = "no"
      BY <2>1 DEF Eldest
    <3>2. e < made' /\ e \in Nat
      BY <1>5, <3>1 DEF Id
    <3>3. e # made'
      BY <1>1, <1>3, <3>2
    <3>4. OwnIn(e, c)'
      BY <1>4, <3>1, <3>3
    <3>5. posts'[e] = posts[e]
      BY <1>3, <3>3
    <3> QED
      BY <3>1, <3>3, <3>4, <3>5
  <2>3. ASSUME NEW k \in Id, OwnIn(k, c)'
        PROVE  e <= k
    <3>1. CASE k = made'
      BY <1>5, <2>1, <3>1 DEF Eldest, Id
    <3>2. CASE k # made'
      BY <1>4, <2>1, <2>3, <3>2 DEF Eldest
    <3> QED
      BY <3>1, <3>2
  <2> QED
    BY <2>2, <2>3 DEF Eldest
<1>7. CASE ~\E k \in Id : OwnIn(k, c)
  <2>1. \A k \in Id : OwnIn(k, c)' => k = made'
    BY <1>4, <1>7
  <2>2. PICK e \in Id : e = made'
    BY <1>3
  <2>3. OwnIn(e, c)' /\ posts'[e].gone = "no" /\ i = e
    BY <1>3, <2>1, <2>2
  <2>4. \A k \in Id : OwnIn(k, c)' => e <= k
    BY <2>1, <2>2 DEF Id
  <2> QED
    BY <2>3, <2>4 DEF Eldest
<1> QED
  BY <1>6, <1>7

(* Who deletes for another reason than cleaning up meddles; and a message  *)
(* that is cleaned up has an elder.                                        *)
LEMMA EldestStays ==
  ASSUME OwnInv, made' = made, Grown, NEW c \in Channel, c \notin meddled', NEW e \in Id, Eldest(e, c),
         posts' = posts \/ EditsOne \/ PeopleDeleteOne \/ DeletesOld \/ CleansOne
  PROVE  posts'[e].gone = "no"
<1>1. TypeOK /\ OwnIn(e, c) /\ posts[e].channel = c /\ posts[e].gone = "no"
  BY DEF OwnInv, TypeInv, Eldest, OwnIn
<1>2. CASE posts' = posts
  BY <1>1, <1>2
<1>3. CASE EditsOne
  BY <1>1, <1>3, EditsAre DEF EditsOne
<1>4. CASE PeopleDeleteOne \/ DeletesOld
  <2>1. PICK i \in Id, who \in {"bot", "people"} : Deletes(i, who) /\ posts[i].channel \in meddled'
    BY <1>4 DEF PeopleDeleteOne, DeletesOld
  <2>2. i # e
    BY <1>1, <2>1
  <2> QED
    BY <1>1, <2>1, <2>2, DeletesAre
<1>5. CASE CleansOne
  <2>1. PICK p \in Proc, i \in Id : Deletes(i, "bot") /\ job[p].at = "clean" /\ i \in job[p].extras
    BY <1>5 DEF CleansOne
  <2>2. PICK k \in Id : k < i /\ OwnIn(k, job[p].ch) /\ OwnIn(i, job[p].ch)
    BY <2>1 DEF OwnInv, SoundAt, ExtrasSound
  <2>3. i # e
    <3>1. SUFFICES ASSUME i = e
                   PROVE  FALSE
      OBVIOUS
    <3>2. job[p].ch = c
      BY <1>1, <2>2, <3>1 DEF OwnIn
    <3>3. e <= k
      BY <2>2, <3>2 DEF Eldest
    <3> QED
      BY <2>2, <3>1, <3>3 DEF Id
  <2> QED
    BY <1>1, <2>1, <2>3, DeletesAre
<1> QED
  BY <1>2, <1>3, <1>4, <1>5

LEMMA EldestStep ==
  ASSUME OwnInv, EldestInv, [Next]_vars
  PROVE  EldestInv'
<1>1. TypeInv /\ TypeOK
  BY DEF OwnInv, TypeInv
<1>2. CASE Next
  <2>1. PostsChange
    BY <1>1, <1>2, PostsDo
  <2>2. Grown
    BY <1>1, <2>1, PostsGrow
  <2>3. SUFFICES ASSUME NEW c \in Channel, c \notin meddled', NEW i \in Id, OwnIn(i, c)'
                 PROVE  \E e \in Id : Eldest(e, c)'
    BY DEF EldestInv
  <2>4. c \notin meddled
    BY <2>1, <2>3 DEF PostsChange
  <2>5. CASE MakesOne
    BY <2>3, <2>4, <2>5, EldestAfterPost
  <2>6. CASE /\ made' = made
             /\ posts' = posts \/ EditsOne \/ PeopleDeleteOne \/ DeletesOld \/ CleansOne
    <3>1. \A k \in Id : OwnIn(k, c)' <=> OwnIn(k, c)
      BY <1>1, <2>2, <2>6 DEF OwnIn, OwnWarning, Grown, TypeOK, Id
    <3>2. PICK e \in Id : Eldest(e, c)
      BY <2>3, <2>4, <3>1 DEF EldestInv
    <3>3. posts'[e].gone = "no"
      BY <2>2, <2>3, <2>6, <3>2, EldestStays
    <3> QED
      BY <3>1, <3>2, <3>3 DEF Eldest
  <2> QED
    BY <2>1, <2>5, <2>6 DEF PostsChange
<1>3. CASE UNCHANGED vars
  BY <1>3 DEF vars, EldestInv, Eldest, OwnIn, OwnWarning
<1> QED
  BY <1>2, <1>3

(* However many calls clean up at once, and however old their listings, a  *)
(* channel in which nobody else deletes keeps a warning: each call adopts  *)
(* the eldest it has seen, so that what it deletes has an elder, and the   *)
(* eldest of all has none.                                                 *)
THEOREM OneWarningStays == Spec => []CleaningKeepsOne
<1>1. Init => OwnInv /\ EldestInv
  BY OwnInit, EldestInit
<1>2. OwnInv /\ EldestInv /\ [Next]_vars => OwnInv' /\ EldestInv'
  BY OwnStep, EldestStep
<1>3. OwnInv /\ EldestInv => CleaningKeepsOne
  <2>1. SUFFICES ASSUME OwnInv, EldestInv, NEW c \in Channel \ meddled,
                        NEW i \in Id, i <= made, posts[i].channel = c, OwnWarning(i)
                 PROVE  Warnings(c) # {}
    BY DEF CleaningKeepsOne
  <2>2. OwnIn(i, c)
    BY <2>1 DEF OwnInv, TypeInv, TypeOK, OwnIn, Id
  <2>3. PICK e \in Id : Eldest(e, c)
    BY <2>1, <2>2 DEF EldestInv
  <2>4. e \in Warnings(c)
    BY <2>3 DEF Eldest, OwnIn, Warnings, Messages
  <2> QED
    BY <2>4
<1> QED
  BY <1>1, <1>2, <1>3, PTL DEF Spec

-----------------------------------------------------------------------------
(* A call that is alone puts things right. *)

Shows(i) == Exists(i) /\ posts[i].label = bans

SoloOver(p) ==
    /\ job[p].at = "ok" => rows[job[p].ch] \in Id /\ Shows(rows[job[p].ch])
    /\ job[p].at = "err" => rows[job[p].ch] = NoRow
SoloKnown(p) ==
    /\ job[p].at \in {"count", "update"} => job[p].known = rows[job[p].ch]
    /\ job[p].at = "update" => job[p].known # Nil
SoloCount(p) ==
    job[p].at \in {"update", "list", "create", "adopt"} => job[p].count = bans
SoloRow(p) ==
    /\ job[p].at \in {"count", "update", "list", "create", "adopt", "record", "store"} =>
          rows[job[p].ch] # NoRow
    /\ job[p].at = "clean" => rows[job[p].ch] = job[p].msg
SoloMsg(p) ==
    /\ job[p].at = "adopt" => Exists(job[p].msg)
    /\ job[p].at \in {"record", "store", "clean"} => Shows(job[p].msg)
    /\ job[p].at \in {"adopt", "record", "clean"} => job[p].msg \notin job[p].extras

SoloAt(p) == SoloOver(p) /\ SoloKnown(p) /\ SoloCount(p) /\ SoloRow(p) /\ SoloMsg(p)
SoloInv == \A p \in Proc : job[p].solo => SoloAt(p)

(* A call that others disturb is not alone any more. *)
LEMMA WorkFair ==
  ASSUME TypeOK, NEW p \in Proc, Works(p)
  PROVE  Fair(p)
<1>1. CASE \E i \in Id : Clean(p, i)
  BY <1>1, CleanIs
<1>2. CASE \E c \in Channel : Refresh(p, c) \/ Submit(p, c)
  BY <1>2, RefreshIs, SubmitIs
<1>3. CASE GetChannelByID(p) \/ CountEvents(p) \/ GetMessages(p)
  BY <1>3, GetChannelByIDIs, CountEventsIs, GetMessagesIs DEF Fair
<1> QED
  BY <1>1, <1>2, <1>3, RecordEventIs, GetChannelIs, SaveGuildSetupIs, DeleteOldIs,
     UpdateRecordedIs, AdoptIs, StoreAdoptedIs, CreateMessageIs, StorePostedIs DEF Works, Step

LEMMA SoloUndisturbed ==
  ASSUME TypeOK, Next, NEW q \in Proc, job'[q].solo
  PROVE  Works(q) \/ (job'[q] = job[q] /\ UNCHANGED Shown)
<1>1. job \in [Proc -> Job] /\ ~Accompanied(job[q]).solo /\ ~Resting.solo
  BY AccompaniedIs, RestingIsJob DEF TypeOK
<1>2. ASSUME NEW p \in Proc, Works(p), p # q
      PROVE  job'[q] = job[q] /\ UNCHANGED Shown
  <2>1. Fair(p) /\ Moves(p)
    BY <1>2, WorkFair, WorkMoves
  <2> QED
    BY <1>1, <1>2, <2>1 DEF Fair, Moves
<1>3. CASE Disturb
  BY <1>1, <1>3 DEF Disturb
<1>4. CASE job' = [p \in Proc |-> Resting]
  BY <1>1, <1>4
<1>5. ASSUME NEW i \in Id, onMessageDelete(i), ~Disturb
      PROVE  job'[q] = job[q] /\ UNCHANGED Shown
  BY <1>5 DEF onMessageDelete, Shown
<1>6. CASE Full
  BY <1>6 DEF Full, vars, Shown
<1>7. \/ \E p \in Proc : Works(p)
      \/ \E i \in Id : onMessageDelete(i)
      \/ Full \/ Disturb \/ job' = [p \in Proc |-> Resting]
  BY DEF Next, Works, OthersPost, PeopleDelete, DeleteGuild, Restart
<1> QED
  BY <1>2, <1>3, <1>4, <1>5, <1>6, <1>7

(* Before the row is looked up a call knows nothing. *)
Early == {"idle", "honeypot", "save", "old", "lookup"}

LEMMA EarlySolo ==
  ASSUME NEW p, job'[p].at \in Early
  PROVE  SoloAt(p)'
BY DEF Early, SoloAt, SoloOver, SoloKnown, SoloCount, SoloRow, SoloMsg, Shows

LEMMA LookedUpSolo ==
  ASSUME TypeOK, NEW p \in Proc, job[p].solo => SoloAt(p), job'[p].solo,
         GetChannelByID(p) \/ CountEvents(p)
  PROVE  SoloAt(p)'
<1>1. CASE GetChannelByID(p)
  <2>1. /\ rows' = rows
        /\ \/ job'[p].at = "err" /\ job'[p].ch = job[p].ch /\ rows[job[p].ch] = NoRow
           \/ /\ rows[job[p].ch] # NoRow
              /\ job'[p].at = "count" /\ job'[p].ch = job[p].ch
              /\ job'[p].known = rows[job[p].ch]
    BY <1>1, GetChannelByIDIs DEF Shown
  <2> QED
    BY <2>1 DEF SoloAt, SoloOver, SoloKnown, SoloCount, SoloRow, SoloMsg
<1>2. CASE CountEvents(p)
  <2>1. /\ rows' = rows /\ bans' = bans /\ job[p].at = "count" /\ job[p].solo
        /\ job'[p].at = (IF job[p].known = Nil THEN "list" ELSE "update")
        /\ job'[p].ch = job[p].ch /\ job'[p].known = job[p].known
        /\ job'[p].count = bans
    BY <1>2, CountEventsIs DEF Shown
  <2>2. job[p].known = rows[job[p].ch] /\ rows[job[p].ch] # NoRow
    BY <2>1 DEF SoloAt, SoloKnown, SoloRow
  <2> QED
    BY <2>1, <2>2 DEF SoloAt, SoloOver, SoloKnown, SoloCount, SoloRow, SoloMsg
<1> QED
  BY <1>1, <1>2

(* What an edit by p shows. *)
LEMMA EditShows ==
  ASSUME TypeOK, NEW p \in Proc, NEW i, Edits(i, job[p].count), UNCHANGED <<bans, made>>,
         job[p].count = bans
  PROVE  i \in Id /\ Shows(i)'
<1>1. i \in Id /\ Exists(i) /\ made' = made /\ bans' = bans
  BY DEF Edits, Exists, TypeOK, Id
<1>2. PICK k \in Id, label \in 0 .. MaxBans : k = i /\ label = job[p].count
  BY <1>1, JobTyped
<1>3. posts'[k].gone = posts[k].gone /\ posts'[k].label = label
  BY <1>2, EditsAre
<1> QED
  BY <1>1, <1>2, <1>3 DEF Shows, Exists

LEMMA UpdatedSolo ==
  ASSUME TypeOK, NEW p \in Proc, job[p].solo => SoloAt(p), job'[p].solo, UpdateRecorded(p)
  PROVE  SoloAt(p)'
<1>1. /\ UNCHANGED <<rows, bans, made>> /\ job[p].at = "update"
      /\ \/ Succeeded(p) /\ Edits(job[p].known, job[p].count)
         \/ Onward(p, "list")
  BY UpdateRecordedIs DEF Dropped
<1>2. job[p].solo /\ job'[p].ch = job[p].ch
  BY <1>1 DEF Succeeded, Onward
<1>3. /\ job[p].known = rows[job[p].ch] /\ job[p].count = bans
      /\ rows[job[p].ch] # NoRow
  BY <1>1, <1>2 DEF SoloAt, SoloKnown, SoloCount, SoloRow
<1>4. CASE Succeeded(p) /\ Edits(job[p].known, job[p].count)
  <2>1. PICK m : m = job[p].known
    OBVIOUS
  <2>2. m \in Id /\ Shows(m)'
    BY <1>1, <1>3, <1>4, <2>1, EditShows
  <2>3. rows'[job'[p].ch] = m
    BY <1>1, <1>2, <1>3, <2>1
  <2>4. job'[p].at = "ok"
    BY <1>4 DEF Succeeded
  <2> QED
    BY <2>2, <2>3, <2>4 DEF SoloAt, SoloOver, SoloKnown, SoloCount, SoloRow, SoloMsg, Shows, Exists
<1>5. CASE Onward(p, "list")
  BY <1>1, <1>2, <1>3, <1>5 DEF Onward, SoloAt, SoloOver, SoloKnown, SoloCount, SoloRow, SoloMsg
<1> QED
  BY <1>1, <1>4, <1>5

LEMMA ListedSolo ==
  ASSUME TypeOK, NEW p \in Proc, job[p].solo => SoloAt(p), job'[p].solo, GetMessages(p)
  PROVE  SoloAt(p)'
<1>1. /\ UNCHANGED Shown /\ job[p].at = "list"
      /\ \/ /\ Onward(p, "adopt") /\ Found(job[p].ch) # {}
            /\ job'[p].msg = Min(Found(job[p].ch))
            /\ job'[p].extras = Found(job[p].ch) \ {Min(Found(job[p].ch))}
         \/ Onward(p, "create")
  BY GetMessagesIs
<1>2. /\ job[p].solo /\ job'[p].ch = job[p].ch /\ job'[p].count = job[p].count
      /\ UNCHANGED <<rows, posts, bans, made>>
  BY <1>1 DEF Onward, Shown
<1>3. job[p].count = bans /\ rows[job[p].ch] # NoRow
  BY <1>1, <1>2 DEF SoloAt, SoloCount, SoloRow
<1>4. CASE Onward(p, "create")
  BY <1>2, <1>3, <1>4 DEF Onward, SoloAt, SoloOver, SoloKnown, SoloCount, SoloRow, SoloMsg
<1>5. CASE /\ Onward(p, "adopt") /\ Found(job[p].ch) # {}
           /\ job'[p].msg = Min(Found(job[p].ch))
           /\ job'[p].extras = Found(job[p].ch) \ {Min(Found(job[p].ch))}
  <2>1. PICK c \in Channel : c = job[p].ch
    BY JobTyped
  <2>2. PICK found \in SUBSET Nat : found = Found(c)
    BY FoundAre
  <2>3. Min(found) \in found
    BY <1>5, <2>1, <2>2, MinIs
  <2>4. PICK m \in found : m = Min(found)
    BY <2>3
  <2>5. Exists(m)
    BY <2>2 DEF Found, Recent, Messages, Exists
  <2>6. job'[p].msg = m /\ m \notin job'[p].extras /\ job'[p].at = "adopt"
    BY <1>5, <2>1, <2>2, <2>4 DEF Onward
  <2> QED
    BY <1>2, <1>3, <2>5, <2>6
       DEF SoloAt, SoloOver, SoloKnown, SoloCount, SoloRow, SoloMsg, Exists
<1> QED
  BY <1>1, <1>4, <1>5

LEMMA AdoptedSolo ==
  ASSUME TypeOK, NEW p \in Proc, job[p].solo => SoloAt(p), job'[p].solo, Adopt(p)
  PROVE  SoloAt(p)'
<1>1. /\ UNCHANGED <<rows, bans, made>> /\ job[p].at = "adopt"
      /\ Onward(p, "record") /\ Keeping(p)
      /\ Edits(job[p].msg, job[p].count) \/ ~Exists(job[p].msg)
  BY AdoptIs DEF Dropped
<1>2. job[p].solo /\ job'[p].ch = job[p].ch /\ job'[p].at = "record"
  BY <1>1 DEF Onward
<1>3. /\ job[p].count = bans /\ rows[job[p].ch] # NoRow
      /\ Exists(job[p].msg) /\ job[p].msg \notin job[p].extras
  BY <1>1, <1>2 DEF SoloAt, SoloMsg, SoloCount, SoloRow
<1>4. PICK m : m = job[p].msg
  OBVIOUS
<1>5. Shows(m)'
  BY <1>1, <1>3, <1>4, EditShows
<1>6. job'[p].msg = m /\ m \notin job'[p].extras
  BY <1>1, <1>3, <1>4 DEF Keeping
<1> QED
  BY <1>1, <1>2, <1>3, <1>5, <1>6
     DEF SoloAt, SoloOver, SoloKnown, SoloCount, SoloRow, SoloMsg, Shows, Exists

LEMMA RecordedSolo ==
  ASSUME TypeOK, NEW p \in Proc, Records(p), rows[job[p].ch] # NoRow
  PROVE  rows'[job[p].ch] = job[p].msg
<1>1. job[p].ch \in Channel /\ rows \in [Channel -> MaybeId \union {NoRow}]
  BY JobTyped DEF TypeOK
<1> QED
  BY <1>1 DEF Records

LEMMA StoredSolo ==
  ASSUME TypeOK, NEW p \in Proc, job[p].solo => SoloAt(p), job'[p].solo,
         StoreAdopted(p) \/ StorePosted(p)
  PROVE  SoloAt(p)'
<1>1. /\ UNCHANGED <<posts, bans, made>> /\ Records(p)
      /\ \/ job[p].at \in {"record", "store"} /\ Succeeded(p)
         \/ job[p].at = "record" /\ Onward(p, "clean") /\ Keeping(p)
  BY StoreAdoptedIs, StorePostedIs DEF Dropped
<1>2. job[p].solo /\ job'[p].ch = job[p].ch
  BY <1>1 DEF Succeeded, Onward
<1>3. rows[job[p].ch] # NoRow /\ Shows(job[p].msg)
      /\ (job[p].at = "record" => job[p].msg \notin job[p].extras)
  BY <1>1, <1>2 DEF SoloAt, SoloMsg, SoloRow
<1>4. PICK m : m = job[p].msg
  OBVIOUS
<1>5. rows'[job'[p].ch] = m
  BY <1>1, <1>2, <1>3, <1>4, RecordedSolo
<1>6. m \in Id /\ Shows(m)'
  BY <1>1, <1>3, <1>4 DEF Shows, Exists, TypeOK, Id
<1>7. CASE Succeeded(p)
  <2>1. job'[p].at = "ok"
    BY <1>7 DEF Succeeded
  <2> QED
    BY <1>5, <1>6, <2>1 DEF SoloAt, SoloOver, SoloKnown, SoloCount, SoloRow, SoloMsg, Shows, Exists
<1>8. CASE job[p].at = "record" /\ Onward(p, "clean") /\ Keeping(p)
  <2>1. job'[p].at = "clean" /\ job'[p].msg = m /\ m \notin job'[p].extras
    BY <1>3, <1>4, <1>8 DEF Onward, Keeping
  <2> QED
    BY <1>5, <1>6, <2>1 DEF SoloAt, SoloOver, SoloKnown, SoloCount, SoloRow, SoloMsg, Shows, Exists
<1> QED
  BY <1>1, <1>7, <1>8

LEMMA CleanedSolo ==
  ASSUME TypeOK, NEW p \in Proc, job[p].solo => SoloAt(p), job'[p].solo,
         NEW i \in Id, Clean(p, i)
  PROVE  SoloAt(p)'
<1>1. /\ UNCHANGED <<rows, bans, made>> /\ job[p].at = "clean" /\ i \in job[p].extras
      /\ posts' = posts \/ Deletes(i, "bot")
      /\ \/ Succeeded(p)
         \/ /\ Onward(p, "clean") /\ job'[p].msg = job[p].msg
            /\ job'[p].extras = job[p].extras \ {i}
  BY CleanIs DEF Dropped
<1>2. job[p].solo /\ job'[p].ch = job[p].ch
  BY <1>1 DEF Succeeded, Onward
<1>3. /\ rows[job[p].ch] = job[p].msg /\ Shows(job[p].msg)
      /\ job[p].msg \notin job[p].extras
  BY <1>1, <1>2 DEF SoloAt, SoloMsg, SoloRow
<1>4. PICK m : m = job[p].msg
  OBVIOUS
<1>5. m \in Id /\ m # i
  BY <1>1, <1>3, <1>4 DEF Shows, Exists, TypeOK, Id
<1>6. posts'[m].gone = posts[m].gone /\ posts'[m].label = posts[m].label
  BY <1>1, <1>5, DeletesAre
<1>7. Shows(m)' /\ rows'[job'[p].ch] = m
  BY <1>1, <1>2, <1>3, <1>4, <1>6 DEF Shows, Exists
<1>8. CASE Succeeded(p)
  <2>1. job'[p].at = "ok"
    BY <1>8 DEF Succeeded
  <2> QED
    BY <1>5, <1>7, <2>1 DEF SoloAt, SoloOver, SoloKnown, SoloCount, SoloRow, SoloMsg, Shows, Exists
<1>9. CASE /\ Onward(p, "clean") /\ job'[p].msg = job[p].msg
           /\ job'[p].extras = job[p].extras \ {i}
  <2>1. job'[p].at = "clean" /\ job'[p].msg = m /\ m \notin job'[p].extras
    BY <1>3, <1>4, <1>9 DEF Onward
  <2> QED
    BY <1>7, <2>1 DEF SoloAt, SoloOver, SoloKnown, SoloCount, SoloRow, SoloMsg, Shows, Exists
<1> QED
  BY <1>1, <1>8, <1>9

LEMMA CreatedSolo ==
  ASSUME TypeOK, NEW p \in Proc, job[p].solo => SoloAt(p), job'[p].solo, CreateMessage(p)
  PROVE  SoloAt(p)'
<1>1. PICK c \in Channel, label \in 0 .. MaxBans : c = job[p].ch /\ label = job[p].count
  BY JobTyped
<1>2. /\ UNCHANGED <<rows, bans>> /\ job[p].at = "create"
      /\ NewPost(c, TRUE, TRUE, label) /\ Onward(p, "store") /\ job'[p].msg = made'
  BY <1>1, CreateMessageIs DEF Dropped
<1>3. job[p].solo /\ job'[p].ch = job[p].ch /\ job'[p].at = "store"
  BY <1>2 DEF Onward
<1>4. label = bans /\ rows[job[p].ch] # NoRow
  BY <1>1, <1>2, <1>3 DEF SoloAt, SoloCount, SoloRow
<1>5. made' \in Id /\ posts'[made'].gone = "no" /\ posts'[made'].label = label
  BY <1>2, NewPostIs
<1>6. Exists(made)' /\ posts'[made'].label = bans'
  BY <1>2, <1>4, <1>5 DEF Exists, Id
<1> QED
  BY <1>2, <1>3, <1>4, <1>6
     DEF SoloAt, SoloOver, SoloKnown, SoloCount, SoloRow, SoloMsg, Shows, Exists

LEMMA WorkSolo ==
  ASSUME TypeOK, NEW p \in Proc, job[p].solo => SoloAt(p), job'[p].solo, Works(p)
  PROVE  SoloAt(p)'
<1>1. CASE job'[p].at \in Early
  BY <1>1, EarlySolo
<1>2. \/ job'[p].at \in Early
      \/ GetChannelByID(p) \/ CountEvents(p) \/ UpdateRecorded(p) \/ GetMessages(p)
      \/ Adopt(p) \/ StoreAdopted(p) \/ StorePosted(p) \/ CreateMessage(p)
      \/ \E i \in Id : Clean(p, i)
  <2>1. CASE \E c \in Channel : Refresh(p, c) \/ Submit(p, c)
    BY <2>1, RefreshIs, SubmitIs DEF Early
  <2>2. CASE RecordEvent(p) \/ GetChannel(p) \/ SaveGuildSetup(p) \/ DeleteOld(p)
    BY <2>2, RecordEventIs, GetChannelIs, SaveGuildSetupIs, DeleteOldIs DEF Early
  <2> QED
    BY <2>1, <2>2 DEF Works, Step
<1> QED
  BY <1>1, <1>2, LookedUpSolo, UpdatedSolo, ListedSolo, AdoptedSolo, StoredSolo, CreatedSolo,
     CleanedSolo

LEMMA SoloInit ==
  ASSUME Init
  PROVE  SoloInv
BY RestingIsJob DEF Init, SoloInv

LEMMA SoloStep ==
  ASSUME TypeOK, SoloInv, [Next]_vars
  PROVE  SoloInv'
<1>1. SUFFICES ASSUME NEW q \in Proc, job'[q].solo
               PROVE  SoloAt(q)'
  BY DEF SoloInv
<1>2. job[q].solo => SoloAt(q)
  BY DEF SoloInv
<1>3. CASE Works(q)
  BY <1>1, <1>2, <1>3, WorkSolo
<1>4. CASE job'[q] = job[q] /\ UNCHANGED Shown
  BY <1>1, <1>2, <1>4
     DEF Shown, SoloAt, SoloOver, SoloKnown, SoloCount, SoloRow, SoloMsg, Shows, Exists
<1>5. CASE UNCHANGED vars
  BY <1>4, <1>5 DEF vars, Shown
<1> QED
  BY <1>1, <1>3, <1>4, <1>5, SoloUndisturbed

(* A call that met no fault and no other actor has put things right, from  *)
(* any state its first step may find: whichever branch it takes, the       *)
(* message it is at exists until it is recorded, and shows the count.      *)
THEOREM SoloRepairs == Spec => []SoloCallRepairs
<1>1. Init => OwnInv /\ SoloInv
  BY OwnInit, SoloInit
<1>2. OwnInv /\ SoloInv /\ [Next]_vars => OwnInv' /\ SoloInv'
  BY OwnStep, SoloStep DEF OwnInv, TypeInv
<1>3. OwnInv /\ SoloInv => SoloCallRepairs
  <2>1. SUFFICES ASSUME OwnInv, NEW p \in Proc, SoloAt(p)
                 PROVE  /\ job[p].at = "ok" =>
                              /\ rows[job[p].ch] \in Warnings(job[p].ch)
                              /\ posts[rows[job[p].ch]].label = bans
                        /\ job[p].at = "err" => rows[job[p].ch] = NoRow
    BY DEF SoloInv, SoloCallRepairs
  <2>2. job[p].ch \in Channel
    BY <2>1, JobTyped DEF OwnInv, TypeInv
  <2>3. ASSUME job[p].at = "ok"
        PROVE  /\ rows[job[p].ch] \in Warnings(job[p].ch)
               /\ posts[rows[job[p].ch]].label = bans
    <3>1. rows[job[p].ch] \in Id /\ Shows(rows[job[p].ch])
      BY <2>1, <2>3 DEF SoloAt, SoloOver
    <3>2. OwnIn(rows[job[p].ch], job[p].ch)
      BY <2>1, <2>2, <3>1 DEF OwnInv, RowsSound
    <3> QED
      BY <3>1, <3>2 DEF Shows, Exists, OwnIn, Warnings, Messages
  <2> QED
    BY <2>1, <2>3 DEF SoloAt, SoloOver
<1> QED
  BY <1>1, <1>2, <1>3, PTL DEF Spec

-----------------------------------------------------------------------------
(* How long a call can take.                                               *)

LEMMA IdsAreFinite ==
  ASSUME NEW S \in SUBSET Id
  PROVE  IsFiniteSet(S) /\ Cardinality(S) \in Nat
<1>1. IsFiniteSet(Id)
  BY FS_Interval DEF Id
<1> QED
  BY <1>1, FS_Subset, FS_CardinalityType

(* GetMessages lists Page messages at most. *)
LEMMA ListingIsShort ==
  ASSUME TypeOK, NEW c \in Channel
  PROVE  Cardinality(Found(c)) <= Page
<1>1. Found(c) \subseteq Id /\ Found(c) \in SUBSET Nat
  BY FoundAre
<1>2. CASE Found(c) = {}
  BY <1>2, FS_EmptySet
<1>3. CASE Found(c) # {}
  <2>1. PICK m \in Found(c) : \A i \in Found(c) : m <= i
    BY <1>1, <1>3, MinIs
  <2> DEFINE newer == {j \in Messages(c) : j > m}
             rest == Found(c) \ {m}
  <2>2. Cardinality(newer) < Page
    BY <2>1 DEF Found, Recent
  <2>3. newer \subseteq Id
    BY DEF Messages, TypeOK, Id
  <2>4. rest \subseteq newer
    BY <1>1, <2>1 DEF Found, Recent
  <2>5. Cardinality(rest) <= Cardinality(newer)
    BY <2>3, <2>4, IdsAreFinite, FS_Subset
  <2>6. Cardinality(rest) = Cardinality(Found(c)) - 1
    BY <1>1, <2>1, IdsAreFinite, FS_RemoveElement
  <2>7. /\ Cardinality(newer) \in Nat /\ Cardinality(rest) \in Nat
        /\ Cardinality(Found(c)) \in Nat
    BY <1>1, <2>3, IdsAreFinite
  <2> HIDE DEF newer, rest
  <2> QED
    BY <2>2, <2>5, <2>6, <2>7
<1> QED
  BY <1>2, <1>3

(* How many steps a call has ahead of it at most: the messages to clean up *)
(* are those listed but one.                                               *)
Ahead(j) ==
    CASE j.at = "save"              -> Page + 7
      [] j.at = "old"               -> Page + 6
      [] j.at = "honeypot"          -> Page + 6
      [] j.at = "lookup"            -> Page + 5
      [] j.at = "count"             -> Page + 4
      [] j.at = "update"            -> Page + 3
      [] j.at = "list"              -> Page + 2
      [] j.at = "adopt"             -> Cardinality(j.extras) + 2
      [] j.at = "record"            -> Cardinality(j.extras) + 1
      [] j.at = "clean"             -> Cardinality(j.extras)
      [] j.at = "create"            -> 2
      [] j.at = "store"             -> 1
      [] OTHER                      -> 0

LEMMA AheadIs ==
  ASSUME NEW j \in Job
  PROVE  /\ Cardinality(j.extras) \in Nat
         /\ j.at = "save" => Ahead(j) = Page + 7
         /\ j.at \in {"old", "honeypot"} => Ahead(j) = Page + 6
         /\ j.at = "lookup" => Ahead(j) = Page + 5
         /\ j.at = "count" => Ahead(j) = Page + 4
         /\ j.at = "update" => Ahead(j) = Page + 3
         /\ j.at = "list" => Ahead(j) = Page + 2
         /\ j.at = "adopt" => Ahead(j) = Cardinality(j.extras) + 2
         /\ j.at = "record" => Ahead(j) = Cardinality(j.extras) + 1
         /\ j.at = "clean" => Ahead(j) = Cardinality(j.extras)
         /\ j.at = "create" => Ahead(j) = 2
         /\ j.at = "store" => Ahead(j) = 1
         /\ j.at \in Over => Ahead(j) = 0
<1>1. j.extras \subseteq Id
  BY DEF Job
<1>2. Cardinality(j.extras) \in Nat
  BY <1>1, IdsAreFinite
<1> QED
  BY <1>2 DEF Ahead, Over

(* A call has fewer messages to clean up than are listed, and one that     *)
(* cleans up has some.                                                     *)
FewExtras(p) ==
    /\ job[p].at \in {"adopt", "record", "clean"} => Cardinality(job[p].extras) < Page
    /\ job[p].at = "clean" => job[p].extras # {}

CallsInv == \A p \in Proc : FewExtras(p)

LEMMA StillAhead ==
  ASSUME job \in [Proc -> Job], job' \in [Proc -> Job], NEW q \in Proc, FewExtras(q),
         Still(q) \/ AtRest(q)
  PROVE  FewExtras(q)' /\ Ahead(job'[q]) <= Ahead(job[q])
<1>1. job[q] \in Job /\ job'[q] \in Job
  OBVIOUS
<1>2. CASE AtRest(q)
  <2>1. FewExtras(q)' /\ Ahead(job'[q]) = 0
    BY <1>1, <1>2, AheadIs DEF AtRest, FewExtras, Over
  <2>2. 0 <= Ahead(job[q])
    <3>1. job[q].at \in Stage
      BY <1>1 DEF Job
    <3> QED
      BY <1>1, <3>1, AheadIs DEF Stage, Over
  <2> QED
    BY <2>1, <2>2
<1>3. CASE Still(q)
  <2>1. job'[q].at = job[q].at /\ job'[q].extras = job[q].extras
    BY <1>3 DEF Still
  <2>2. Ahead(job'[q]) = Ahead(job[q])
    BY <2>1 DEF Ahead
  <2>3. Ahead(job[q]) \in Int
    <3>1. job[q].at \in Stage
      BY <1>1 DEF Job
    <3> QED
      BY <1>1, <3>1, AheadIs DEF Stage, Over
  <2> QED
    BY <2>1, <2>2, <2>3 DEF FewExtras
<1> QED
  BY <1>2, <1>3

(* With its last message a call's cleaning is over. *)
LEMMA CleanEnds ==
  ASSUME TypeOK, NEW p \in Proc, NEW i \in Id, Clean(p, i), job[p].extras = {i}
  PROVE  job'[p].at \in Over
<1>1. job \in [Proc -> Job]
  BY DEF TypeOK
<1> DEFINE k == Return(p, "ok")
<1>2. k \in Job /\ k.at \in Over
  BY <1>1, ReturnIs
<1>3. Act(p, k) \/ Think(p, Accompanied(k))
  BY DEF Clean, CleanOver
<1> HIDE DEF k
<1>4. Accompanied(k) = Resting
  BY <1>2 DEF Accompanied
<1>5. CASE Act(p, k)
  BY <1>1, <1>2, <1>5, Acts
<1>6. CASE Think(p, Accompanied(k))
  BY <1>1, <1>4, <1>6, Thinks, RestingIsJob DEF Over
<1> QED
  BY <1>3, <1>5, <1>6

(* A call with nothing to clean up does not begin to. *)
LEMMA CleanBegins ==
  ASSUME TypeOK, NEW p \in Proc, StoreAdopted(p), job[p].extras = {}
  PROVE  job'[p].at \in Over
<1>1. job \in [Proc -> Job]
  BY DEF TypeOK
<1> DEFINE k == Return(p, "ok")
<1>2. k \in Job /\ k.at \in Over
  BY <1>1, ReturnIs
<1>3. SetWarningMsg(p, "record", k)
  BY DEF StoreAdopted
<1> HIDE DEF k
<1> QED
  BY <1>2, <1>3, SetWarningMsgIs DEF Dropped

LEMMA StepNearer ==
  ASSUME TypeOK, job' \in [Proc -> Job], NEW p \in Proc, FewExtras(p), Step(p)
  PROVE  FewExtras(p)' /\ Ahead(job'[p]) < Ahead(job[p])
<1>t. job[p] \in Job /\ job'[p] \in Job /\ job[p].ch \in Channel
  BY DEF TypeOK, Job
<1>c. Cardinality(job[p].extras) \in Nat /\ Cardinality(job'[p].extras) \in Nat
  BY <1>t, AheadIs
<1>o. ASSUME job'[p].at \in Over, Ahead(job[p]) > 0
      PROVE  FewExtras(p)' /\ Ahead(job'[p]) < Ahead(job[p])
  BY <1>o, <1>t, AheadIs DEF FewExtras, Over
<1>n. ASSUME job'[p].at \notin {"adopt", "record", "clean"}
      PROVE  FewExtras(p)'
  BY <1>n DEF FewExtras
<1>1. CASE GetChannel(p)
  <2>1. job[p].at = "honeypot" /\ job'[p].at \in {"lookup", "idle"}
    BY <1>1, GetChannelIs DEF GetChannel
  <2> QED
    BY <1>t, <1>n, <2>1, AheadIs DEF Over
<1>2. CASE SaveGuildSetup(p)
  <2>1. job[p].at = "save" /\ job'[p].at \in {"old", "lookup"}
    BY <1>2, SaveGuildSetupIs
  <2> QED
    BY <1>t, <1>n, <2>1, AheadIs
<1>3. CASE DeleteOld(p)
  <2>1. job[p].at = "old" /\ job'[p].at = "lookup"
    BY <1>3, DeleteOldIs
  <2> QED
    BY <1>t, <1>n, <2>1, AheadIs
<1>4. CASE GetChannelByID(p)
  <2>1. job[p].at = "lookup" /\ (job'[p].at \in Over \/ job'[p].at = "count")
    BY <1>4, GetChannelByIDIs DEF GetChannelByID
  <2> QED
    BY <1>t, <1>n, <1>o, <2>1, AheadIs
<1>5. CASE CountEvents(p)
  <2>1. job[p].at = "count" /\ job'[p].at \in {"list", "update"}
    BY <1>5, CountEventsIs
  <2> QED
    BY <1>t, <1>n, <2>1, AheadIs
<1>6. CASE UpdateRecorded(p)
  <2>1. job[p].at = "update" /\ (job'[p].at \in Over \/ job'[p].at = "list")
    BY <1>6, UpdateRecordedIs DEF Succeeded, Onward, Dropped
  <2> QED
    BY <1>t, <1>n, <1>o, <2>1, AheadIs
<1>7. CASE GetMessages(p)
  <2> DEFINE found == Found(job[p].ch)
  <2>1. job[p].at = "list"
    BY <1>7, GetMessagesIs
  <2>2. CASE job'[p].at = "create"
    BY <1>t, <1>n, <2>1, <2>2, AheadIs
  <2>3. CASE /\ job'[p].at = "adopt" /\ found # {}
             /\ job'[p].extras = found \ {Min(found)}
    <3>1. found \subseteq Id /\ found \in SUBSET Nat /\ Cardinality(found) <= Page
      BY <1>t, FoundAre, ListingIsShort
    <3> HIDE DEF found
    <3>2. Min(found) \in found
      BY <2>3, <3>1, MinIs
    <3>3. IsFiniteSet(found) /\ Cardinality(found) \in Nat
      BY <3>1, IdsAreFinite
    <3>4. Cardinality(found \ {Min(found)}) = Cardinality(found) - 1
      BY <3>2, <3>3, FS_RemoveElement
    <3>5. Cardinality(job'[p].extras) = Cardinality(found) - 1
      BY <2>3, <3>4
    <3>6. Cardinality(job'[p].extras) < Page
      BY <3>1, <3>3, <3>5
    <3>7. FewExtras(p)'
      BY <2>3, <3>6 DEF FewExtras
    <3>8. Ahead(job[p]) = Page + 2 /\ Ahead(job'[p]) = Cardinality(job'[p].extras) + 2
      BY <1>t, <2>1, <2>3, AheadIs
    <3> QED
      BY <1>c, <3>6, <3>7, <3>8
  <2> QED
    BY <1>7, <2>2, <2>3, GetMessagesIs DEF Onward
<1>8. CASE Adopt(p)
  <2>1. job[p].at = "adopt"
    BY <1>8, AdoptIs
  <2>2. CASE job'[p].at = "record" /\ job'[p].extras = job[p].extras
    <3>1. FewExtras(p)'
      BY <2>1, <2>2 DEF FewExtras
    <3> QED
      BY <1>t, <1>c, <2>1, <2>2, <3>1, AheadIs
  <2>3. CASE job'[p].at \in Over
    BY <1>t, <1>c, <1>o, <2>1, <2>3, AheadIs
  <2> QED
    BY <1>8, <2>2, <2>3, AdoptIs DEF Onward, Keeping, Dropped
<1>9. CASE StoreAdopted(p)
  <2>1. job[p].at = "record"
    BY <1>9, StoreAdoptedIs
  <2>2. CASE job'[p].at \in Over
    BY <1>t, <1>c, <1>o, <2>1, <2>2, AheadIs
  <2>3. CASE job'[p].at = "clean" /\ job'[p].extras = job[p].extras
    <3>1. job[p].extras # {}
      BY <1>9, <2>3, CleanBegins DEF Over
    <3>2. FewExtras(p)'
      BY <2>1, <2>3, <3>1 DEF FewExtras
    <3> QED
      BY <1>t, <1>c, <2>1, <2>3, <3>2, AheadIs
  <2> QED
    BY <1>9, <2>2, <2>3, StoreAdoptedIs DEF Succeeded, Onward, Keeping, Dropped
<1>10. ASSUME NEW i \in Id, Clean(p, i)
       PROVE  FewExtras(p)' /\ Ahead(job'[p]) < Ahead(job[p])
  <2>1. job[p].at = "clean" /\ i \in job[p].extras
    BY <1>10, CleanIs
  <2>2. IsFiniteSet(job[p].extras)
    BY <1>t, IdsAreFinite DEF Job
  <2>3. Cardinality(job[p].extras) > 0
    BY <1>c, <2>1, <2>2, FS_EmptySet
  <2>4. CASE job'[p].at \in Over
    BY <1>t, <1>c, <1>o, <2>1, <2>3, <2>4, AheadIs
  <2>5. CASE job'[p].at = "clean" /\ job'[p].extras = job[p].extras \ {i}
    <3>1. job[p].extras # {i}
      BY <1>10, <2>5, CleanEnds DEF Over
    <3>2. Cardinality(job[p].extras \ {i}) = Cardinality(job[p].extras) - 1
      BY <2>1, <2>2, FS_RemoveElement
    <3>3. Cardinality(job'[p].extras) = Cardinality(job[p].extras) - 1
      BY <2>5, <3>2
    <3>4. Cardinality(job'[p].extras) < Page /\ job'[p].extras # {}
      BY <1>c, <2>1, <2>5, <3>1, <3>3 DEF FewExtras
    <3>5. FewExtras(p)'
      BY <3>4 DEF FewExtras
    <3>6. /\ Ahead(job[p]) = Cardinality(job[p].extras)
          /\ Ahead(job'[p]) = Cardinality(job'[p].extras)
      BY <1>t, <2>1, <2>5, AheadIs
    <3> QED
      BY <1>c, <3>3, <3>5, <3>6
  <2> QED
    BY <1>10, <2>4, <2>5, CleanIs DEF Succeeded, Onward, Dropped
<1>11. CASE CreateMessage(p)
  <2>1. job[p].at = "create" /\ (job'[p].at \in Over \/ job'[p].at = "store")
    BY <1>11, CreateMessageIs DEF Onward, Dropped
  <2> QED
    BY <1>t, <1>n, <1>o, <2>1, AheadIs
<1>12. CASE StorePosted(p)
  <2>1. job[p].at = "store" /\ job'[p].at \in Over
    BY <1>12, StorePostedIs DEF Succeeded, Dropped
  <2> QED
    BY <1>t, <1>o, <2>1, AheadIs
<1> QED
  BY <1>1, <1>2, <1>3, <1>4, <1>5, <1>6, <1>7, <1>8, <1>9, <1>10, <1>11, <1>12 DEF Step

LEMMA CallsStep ==
  ASSUME TypeInv, CallsInv, [Next]_vars
  PROVE  /\ CallsInv'
         /\ \A p \in Proc :
              /\ Step(p) => Ahead(job'[p]) < Ahead(job[p])
              /\ ~Free(p) => Ahead(job'[p]) <= Ahead(job[p])
<1>t. TypeOK /\ job \in [Proc -> Job]
  BY DEF TypeInv, TypeOK
<1>1. job' \in [Proc -> Job]
  BY TypeStep DEF TypeInv, TypeOK
<1>2. \A p \in Proc : FewExtras(p)
  BY DEF CallsInv
<1>3. ASSUME NEW p \in Proc, Step(p)
      PROVE  FewExtras(p)' /\ Ahead(job'[p]) < Ahead(job[p])
  BY <1>t, <1>1, <1>2, <1>3, StepNearer
<1>4. ASSUME NEW p \in Proc, RecordEvent(p) \/ \E c \in Channel : Refresh(p, c) \/ Submit(p, c)
      PROVE  FewExtras(p)' /\ Free(p)
  <2>1. job'[p].at \in {"honeypot", "lookup", "save"}
    BY <1>t, <1>4, RecordEventIs, RefreshIs, SubmitIs
  <2> QED
    BY <1>4, <2>1 DEF FewExtras, RecordEvent, Refresh, Submit
<1>5. ASSUME NEW p \in Proc, Still(p) \/ AtRest(p)
      PROVE  FewExtras(p)' /\ Ahead(job'[p]) <= Ahead(job[p])
  BY <1>t, <1>1, <1>2, <1>5, StillAhead
<1>6. \A p \in Proc : Still(p) \/ AtRest(p) \/ Works(p)
  <2>1. CASE Next
    BY <1>t, <2>1, JobsDo
  <2>2. CASE UNCHANGED vars
    BY <2>2 DEF vars, Still
  <2> QED
    BY <2>1, <2>2
<1>7. ASSUME NEW p \in Proc
      PROVE  Ahead(job[p]) \in Int /\ Ahead(job'[p]) \in Int
  <2>1. job[p] \in Job /\ job'[p] \in Job
    BY <1>t, <1>1
  <2>2. job[p].at \in Stage /\ job'[p].at \in Stage
    BY <2>1 DEF Job
  <2> QED
    BY <2>1, <2>2, AheadIs DEF Stage, Over
<1>8. CallsInv'
  BY <1>3, <1>4, <1>5, <1>6 DEF CallsInv, Works
<1>9. ASSUME NEW p \in Proc, ~Free(p)
      PROVE  Ahead(job'[p]) <= Ahead(job[p])
  BY <1>3, <1>4, <1>5, <1>6, <1>7, <1>9 DEF Works
<1> QED
  BY <1>3, <1>8, <1>9

(* No call of ensureWarningMessage runs in a circle: from the event, the   *)
(* save or the request it is made for to its return it makes no more than  *)
(* Page + 7 requests, whatever fails, is lost, or is done to its messages  *)
(* and rows meanwhile; and one that cleans up has something left to        *)
(* delete.  Each step is one of them, and nobody adds to what is ahead.    *)
THEOREM CallsRunOut ==
  Spec => /\ [](\A p \in Proc :
                  /\ Ahead(job[p]) \in 0 .. Page + 7
                  /\ job[p].at = "clean" => job[p].extras # {})
          /\ [][\A p \in Proc :
                  /\ Step(p) => Ahead(job'[p]) < Ahead(job[p])
                  /\ ~Free(p) => Ahead(job'[p]) <= Ahead(job[p])]_vars
<1>1. Init => TypeInv /\ CallsInv
  <2>1. Init => CallsInv
    BY DEF Init, CallsInv, FewExtras, Resting
  <2> QED
    BY <2>1, TypeInit
<1>2. TypeInv /\ CallsInv /\ [Next]_vars => TypeInv' /\ CallsInv'
  BY TypeStep, CallsStep
<1>3. TypeInv /\ CallsInv => \A p \in Proc :
                  /\ Ahead(job[p]) \in 0 .. Page + 7
                  /\ job[p].at = "clean" => job[p].extras # {}
  <2> SUFFICES ASSUME TypeInv, CallsInv, NEW p \in Proc
               PROVE  /\ Ahead(job[p]) \in 0 .. Page + 7
                      /\ job[p].at = "clean" => job[p].extras # {}
    OBVIOUS
  <2>1. job[p] \in Job /\ FewExtras(p)
    BY DEF TypeInv, TypeOK, CallsInv
  <2>2. job[p].at \in Stage
    BY <2>1 DEF Job
  <2>3. Ahead(job[p]) \in 0 .. Page + 7
    BY <2>1, <2>2, AheadIs DEF Stage, Over, FewExtras
  <2> QED
    BY <2>1, <2>3 DEF FewExtras
<1>4. TypeInv /\ CallsInv /\ [Next]_vars =>
        \A p \in Proc :
          /\ Step(p) => Ahead(job'[p]) < Ahead(job[p])
          /\ ~Free(p) => Ahead(job'[p]) <= Ahead(job[p])
  BY CallsStep
<1> QED
  BY <1>1, <1>2, <1>3, <1>4, PTL DEF Spec
=============================================================================
