------------------------- MODULE ConfigDialogProofs -------------------------
(***************************************************************************)
(* Theorems about ConfigDialog, for any dialogs, roles and permissions,    *)
(* any lifetime of the cached member object and any duration of its        *)
(* request.                                                                *)
(***************************************************************************)
EXTENDS ConfigDialog, TLAPS

USE DialogAssumption

(* What a step does to the goroutines: it moves that of d, at most.        *)
Moves(d) ==
    /\ job' \in [Dialog -> Job]
    /\ \A e \in Dialog : e # d => job'[e] = job[e]

LEMMA MovesOne ==
  ASSUME job \in [Dialog -> Job], NEW d \in Dialog, NEW j \in Job, job' = [job EXCEPT ![d] = j]
  PROVE  Moves(d) /\ job'[d] = j
BY DEF Moves

LEMMA OverFields ==
  ASSUME NEW j \in Job, NEW stage \in Stage
  PROVE  /\ Over(j, stage) \in Job
         /\ Over(j, stage).at = stage
         /\ Over(j, stage).reply = j.reply
         /\ Over(j, stage).faulty = j.faulty
<1>1. 0 \in Time /\ {} \in SUBSET Role /\ Malformed \in Submission \union {Malformed}
  BY DEF Time
<1> QED
  BY <1>1 DEF Over, Job

LEMMA Returns ==
  ASSUME job \in [Dialog -> Job], NEW d \in Dialog, NEW stage \in Stage, NEW fault \in BOOLEAN,
         Return(d, stage, fault)
  PROVE  /\ Moves(d)
         /\ job'[d].at = stage
         /\ job'[d].reply = job[d].reply
         /\ (job'[d].faulty <=> job[d].faulty \/ fault)
<1> DEFINE o == Over(job[d], stage)
           j == [o EXCEPT !.faulty = job[d].faulty \/ fault]
<1>1. /\ o \in Job /\ o.at = stage /\ o.reply = job[d].reply /\ o.faulty = job[d].faulty
  BY OverFields
<1>2. job[d].faulty \in BOOLEAN
  BY DEF Job
<1>3. j \in Job /\ j.at = o.at /\ j.reply = o.reply /\ (j.faulty <=> job[d].faulty \/ fault)
  <2> HIDE DEF o
  <2> QED
    BY <1>1, <1>2 DEF Job
<1>4. job' = [job EXCEPT ![d] = j]
  BY DEF Return
<1> HIDE DEF j, o
<1> QED
  BY <1>1, <1>3, <1>4, MovesOne

LEMMA Answers ==
  ASSUME job \in [Dialog -> Job], NEW d \in Dialog, NEW r \in Reply, Answer(d, r)
  PROVE  /\ Moves(d)
         /\ job'[d].at = "replying" /\ job'[d].reply = r
         /\ job'[d].sub = job[d].sub /\ job'[d].began = job[d].began
         /\ job'[d].faulty = job[d].faulty
<1> DEFINE j == [job[d] EXCEPT !.at = "replying", !.reply = r]
<1>0. job[d] \in Job /\ "replying" \in Stage
  BY DEF Stage
<1>1. /\ j \in Job /\ j.at = "replying" /\ j.reply = r
      /\ j.sub = job[d].sub /\ j.began = job[d].began /\ j.faulty = job[d].faulty
  <2>1. j \in Job
    BY <1>0 DEF Job
  <2>2. j.at = "replying" /\ j.reply = r
    BY <1>0 DEF Job
  <2>3. j.sub = job[d].sub /\ j.began = job[d].began /\ j.faulty = job[d].faulty
    BY <1>0 DEF Job
  <2> QED
    BY <2>1, <2>2, <2>3
<1>2. job' = [job EXCEPT ![d] = j]
  BY DEF Answer
<1> HIDE DEF j
<1> QED
  BY <1>1, <1>2, MovesOne

LEMMA Proceeds ==
  ASSUME job \in [Dialog -> Job], NEW d \in Dialog, NEW stage \in Stage,
         job' = [job EXCEPT ![d].at = stage]
  PROVE  /\ Moves(d)
         /\ job'[d].at = stage
         /\ job'[d].sub = job[d].sub /\ job'[d].began = job[d].began
         /\ job'[d].faulty = job[d].faulty /\ job'[d].reply = job[d].reply
         /\ job'[d].logOK = job[d].logOK
<1> DEFINE j == [job[d] EXCEPT !.at = stage]
<1>1. /\ j \in Job /\ j.at = stage /\ j.reply = job[d].reply /\ j.logOK = job[d].logOK
      /\ j.sub = job[d].sub /\ j.began = job[d].began /\ j.faulty = job[d].faulty
  BY DEF Job
<1>2. job' = [job EXCEPT ![d] = j]
  OBVIOUS
<1> HIDE DEF j
<1> QED
  BY <1>1, <1>2, MovesOne

LEMMA Submits ==
  ASSUME job \in [Dialog -> Job], now \in Time,
         NEW d \in Dialog, NEW s \in Submission \union {Malformed}, Submit(d, s)
  PROVE  /\ Moves(d)
         /\ job[d].at = "new" /\ job'[d].at = "deferring"
         /\ job'[d].sub = s /\ job'[d].began = now
         /\ job'[d].faulty = job[d].faulty /\ job'[d].reply = job[d].reply
<1> DEFINE j == [job[d] EXCEPT !.at = "deferring", !.sub = s, !.began = now]
<1>0. job[d] \in Job /\ "deferring" \in Stage
  BY DEF Stage
<1>1. /\ j \in Job /\ j.at = "deferring" /\ j.sub = s /\ j.began = now
      /\ j.faulty = job[d].faulty /\ j.reply = job[d].reply
  <2>1. j \in Job
    BY <1>0 DEF Job
  <2>2. j.at = "deferring" /\ j.sub = s /\ j.began = now
    BY <1>0 DEF Job
  <2>3. j.faulty = job[d].faulty /\ j.reply = job[d].reply
    BY <1>0 DEF Job
  <2> QED
    BY <2>1, <2>2, <2>3
<1>2. job' = [job EXCEPT ![d] = j] /\ job[d].at = "new"
  BY DEF Submit, At
<1> HIDE DEF j
<1> QED
  BY <1>1, <1>2, MovesOne

(* A member object is asked for: Discord's answer is that of now. *)
AsksFrom(d, stage) ==
    job' = [job EXCEPT ![d].at = stage, ![d].asked = now, ![d].roles = roles]

LEMMA Asks ==
  ASSUME job \in [Dialog -> Job], now \in Time, roles \subseteq Role,
         NEW d \in Dialog, NEW stage \in Stage, AsksFrom(d, stage)
  PROVE  /\ Moves(d)
         /\ job'[d].at = stage /\ job'[d].asked = now /\ job'[d].roles = roles
         /\ job'[d].sub = job[d].sub /\ job'[d].began = job[d].began
         /\ job'[d].faulty = job[d].faulty /\ job'[d].reply = job[d].reply
         /\ job'[d].logOK = job[d].logOK
<1> DEFINE j == [job[d] EXCEPT !.at = stage, !.asked = now, !.roles = roles]
<1>1. /\ j \in Job /\ j.at = stage /\ j.asked = now /\ j.roles = roles
      /\ j.sub = job[d].sub /\ j.began = job[d].began /\ j.logOK = job[d].logOK
      /\ j.faulty = job[d].faulty /\ j.reply = job[d].reply
  BY DEF Job
<1>2. job' = [job EXCEPT ![d] = j]
  BY DEF AsksFrom
<1> HIDE DEF j
<1> QED
  BY <1>1, <1>2, MovesOne

(* A lookup in the log channel, and one in the honeypot.                   *)
LEMMA LearnsLog ==
  ASSUME job \in [Dialog -> Job], NEW d \in Dialog, NEW R, NEW fault \in BOOLEAN,
         Learn(d, R, fault), job[d].at \in {"log", "askLog"}
  PROVE  /\ Moves(d)
         /\ job'[d].at = "honeypot"
         /\ (job'[d].logOK <=> <<job[d].sub.log, "post">> \in Granted(R))
         /\ job'[d].sub = job[d].sub /\ job'[d].began = job[d].began
         /\ (job'[d].faulty <=> job[d].faulty \/ fault) /\ job'[d].reply = job[d].reply
<1> DEFINE known == [job[d] EXCEPT !.roles = {}, !.asked = 0, !.faulty = job[d].faulty \/ fault]
           ok == <<job[d].sub.log, "post">> \in Granted(R)
           j == [known EXCEPT !.at = "honeypot", !.logOK = ok]
<1>1. /\ known \in Job
      /\ known.sub = job[d].sub /\ known.began = job[d].began
      /\ (known.faulty <=> job[d].faulty \/ fault) /\ known.reply = job[d].reply
  <2>1. 0 \in Time /\ {} \in SUBSET Role /\ job[d] \in Job /\ (job[d].faulty \/ fault) \in BOOLEAN
    BY DEF Time, Job
  <2> QED
    BY <2>1 DEF Job
<1>2. job' = [job EXCEPT ![d] = j]
  BY DEF Learn
<1> HIDE DEF known
<1>3. ok \in BOOLEAN
  OBVIOUS
<1> HIDE DEF ok
<1>4. /\ j \in Job /\ j.at = "honeypot" /\ j.logOK = ok
      /\ j.sub = known.sub /\ j.began = known.began
      /\ j.faulty = known.faulty /\ j.reply = known.reply
  BY <1>1, <1>3 DEF Job, Stage
<1> HIDE DEF j
<1>5. Moves(d) /\ job'[d] = j
  BY <1>2, <1>4, MovesOne
<1> QED
  BY <1>1, <1>4, <1>5 DEF ok

LEMMA LearnsHoneypot ==
  ASSUME job \in [Dialog -> Job], NEW d \in Dialog, NEW R, NEW fault \in BOOLEAN,
         Learn(d, R, fault), job[d].at \in {"honeypot", "askHoneypot"}
  PROVE  /\ Moves(d)
         /\ \/ /\ Problems(job[d].sub, job[d].logOK, R)
               /\ job'[d].at = "replying" /\ job'[d].reply = "problems"
            \/ /\ ~Problems(job[d].sub, job[d].logOK, R)
               /\ job'[d].at = "saving" /\ job'[d].reply = "none"
         /\ job'[d].sub = job[d].sub /\ job'[d].began = job[d].began
         /\ (job'[d].faulty <=> job[d].faulty \/ fault)
<1> DEFINE known == [job[d] EXCEPT !.roles = {}, !.asked = 0, !.faulty = job[d].faulty \/ fault]
           bad == Problems(job[d].sub, job[d].logOK, R)
           at == IF bad THEN "replying" ELSE "saving"
           reply == IF bad THEN "problems" ELSE "none"
           j == [known EXCEPT !.at = at, !.reply = reply]
<1>1. /\ known \in Job
      /\ known.sub = job[d].sub /\ known.began = job[d].began
      /\ (known.faulty <=> job[d].faulty \/ fault)
  <2>1. 0 \in Time /\ {} \in SUBSET Role /\ job[d] \in Job /\ (job[d].faulty \/ fault) \in BOOLEAN
    BY DEF Time, Job
  <2> QED
    BY <2>1 DEF Job
<1>2. job' = [job EXCEPT ![d] = j]
  BY DEF Learn
<1>3. /\ (bad /\ at = "replying" /\ reply = "problems") \/ (~bad /\ at = "saving" /\ reply = "none")
      /\ at \in Stage /\ reply \in Reply
  BY DEF Stage, Reply
<1> HIDE DEF known, at, reply, bad
<1>4. /\ j \in Job /\ j.at = at /\ j.reply = reply
      /\ j.sub = known.sub /\ j.began = known.began /\ j.faulty = known.faulty
  BY <1>1, <1>3 DEF Job
<1> HIDE DEF j
<1>5. Moves(d) /\ job'[d] = j
  BY <1>2, <1>4, MovesOne
<1> QED
  BY <1>1, <1>3, <1>4, <1>5 DEF bad

-----------------------------------------------------------------------------
(* A step that changes goroutines only.                                    *)
Kept == UNCHANGED <<world, self, rows>>

LEMMA TypeStep == TypeOK /\ [Next]_vars => TypeOK'
<1> SUFFICES ASSUME TypeOK, [Next]_vars PROVE TypeOK'
  OBVIOUS
<1>t. job \in [Dialog -> Job] /\ now \in Time /\ roles \subseteq Role
  BY DEF TypeOK
<1>r. {"malformed", "problems", "failed", "configured", "unposted"} \subseteq Reply
  BY DEF Reply
<1>s. {"deferring", "log", "askLog", "honeypot", "askHoneypot", "saving", "warning",
       "replying", "answered", "mute", "killed"} \subseteq Stage
  BY DEF Stage
<1>1. ASSUME Kept, job' \in [Dialog -> Job]
      PROVE  TypeOK'
  BY <1>1 DEF Kept, world, rows, TypeOK
<1>2. ASSUME NEW d \in Dialog, NEW s \in Submission \union {Malformed}, Submit(d, s)
      PROVE  TypeOK'
  BY <1>2, <1>1, <1>t, Submits DEF Submit, Kept, Moves
<1>3. ASSUME NEW d \in Dialog, DeferCreateMessage(d)
      PROVE  TypeOK'
  <2>1. CASE Read(d)
    BY <2>1, <1>t, <1>r, <1>s, <1>1, <1>3, Answers, Proceeds DEF Read, DeferCreateMessage, Kept, Moves
  <2>2. CASE Return(d, "mute", TRUE)
    BY <2>2, <1>t, <1>s, <1>1, <1>3, Returns DEF DeferCreateMessage, Kept, Moves
  <2> QED
    BY <1>3, <2>1, <2>2 DEF DeferCreateMessage
<1>4. ASSUME NEW d \in Dialog, NEW R, NEW fault \in BOOLEAN, Learn(d, R, fault)
      PROVE  job' \in [Dialog -> Job]
  BY <1>4, <1>t, LearnsLog, LearnsHoneypot DEF Learn, Moves
<1>5. ASSUME NEW d \in Dialog, botPermissionsIn(d)
      PROVE  TypeOK'
  <2>1. job[d].at \in {"log", "honeypot"} /\ Kept
    BY <1>5 DEF botPermissionsIn, Kept
  <2>2. CASE Learn(d, self.roles, FALSE)
    BY <2>1, <2>2, <1>1, <1>4
  <2>3. CASE job' = [job EXCEPT ![d].at = IF @ = "log" THEN "askLog" ELSE "askHoneypot",
                                ![d].asked = now, ![d].roles = roles]
    <3>1. PICK stage \in {"askLog", "askHoneypot"} : AsksFrom(d, stage)
      BY <2>3 DEF AsksFrom
    <3> QED
      BY <2>1, <3>1, <1>t, <1>s, <1>1, Asks DEF Moves
  <2> QED
    BY <1>5, <2>2, <2>3 DEF botPermissionsIn
<1>6. ASSUME NEW d \in Dialog, UnknownChannel(d)
      PROVE  TypeOK'
  BY <1>6, <1>1, <1>4 DEF UnknownChannel, Kept
<1>7. ASSUME NEW d \in Dialog, GetMember(d)
      PROVE  TypeOK'
  <2>1. job' \in [Dialog -> Job]
    BY <1>7, <1>4 DEF GetMember
  <2>2. self' = self \/ self' \in [roles : SUBSET Role, until : 0 .. MaxTime + TTL]
    <3>1. job[d].roles \subseteq Role
      BY <1>t DEF Job
    <3>2. now + TTL \in 0 .. MaxTime + TTL
      BY <1>t DEF Time
    <3>3. FreshMember(job[d].roles) \in [roles : SUBSET Role, until : 0 .. MaxTime + TTL]
      BY <3>1, <3>2 DEF FreshMember
    <3>4. self' = self \/ self' = FreshMember(job[d].roles)
      BY <1>7 DEF GetMember
    <3> QED
      BY <3>3, <3>4
  <2>3. UNCHANGED <<world, rows>>
    BY <1>7 DEF GetMember
  <2> QED
    BY <2>1, <2>2, <2>3 DEF world, rows, TypeOK
<1>8. ASSUME NEW d \in Dialog, SaveGuildSetup(d)
      PROVE  TypeOK'
  <2>1. job' \in [Dialog -> Job]
    BY <1>8, <1>t, <1>r, <1>s, Answers, Proceeds DEF SaveGuildSetup, Moves
  <2> QED
    BY <1>8, <2>1 DEF SaveGuildSetup, Saved, NotSaved, world, rows, TypeOK
<1>9. ASSUME NEW d \in Dialog, ensureWarningMessage(d)
      PROVE  TypeOK'
  BY <1>9, <1>t, <1>r, <1>1, Answers DEF ensureWarningMessage, Kept, Moves
<1>10. ASSUME NEW d \in Dialog, editDeferredReply(d) \/ EditFails(d)
       PROVE  TypeOK'
  BY <1>10, <1>t, <1>s, <1>1, Returns DEF editDeferredReply, EditFails, Kept, Moves
<1>11. ASSUME NEW r \in Role, ChangeRole(r)
       PROVE  TypeOK'
  <2>1. roles' \subseteq Role /\ changes' \in 0 .. MaxChanges
    BY <1>11 DEF ChangeRole, Intervene, TypeOK
  <2> QED
    BY <1>11, <2>1 DEF ChangeRole, rows, TypeOK
<1>12. CASE Tick
  <2>1. now' \in Time
    BY <1>12, <1>t DEF Tick, Time
  <2> QED
    BY <1>12, <2>1 DEF Tick, rows, TypeOK
<1>13. CASE Restart
  <2>1. job' \in [Dialog -> Job]
    BY <1>13, <1>t, <1>s, OverFields DEF Restart
  <2>2. changes' \in 0 .. MaxChanges
    BY <1>13 DEF Restart, Intervene, TypeOK
  <2> QED
    BY <1>13, <2>1, <2>2 DEF Restart, rows, TypeOK
<1>14. CASE Idling \/ UNCHANGED vars
  BY <1>14 DEF Idling, vars, TypeOK
<1> QED
  BY <1>2, <1>3, <1>5, <1>6, <1>7, <1>8, <1>9, <1>10, <1>11, <1>12, <1>13, <1>14 DEF Next, Step

LEMMA TypeInit == Init => TypeOK
<1> SUFFICES ASSUME Init PROVE TypeOK
  OBVIOUS
<1>1. 0 \in Time
  BY DEF Time
<1>2. job \in [Dialog -> Job]
  BY <1>1 DEF Init, Job, Stage, Reply
<1>3. past \subseteq [at : Time, roles : SUBSET Role]
  BY <1>1 DEF Init
<1>4. /\ now \in Time /\ roles \subseteq Role /\ changes \in 0 .. MaxChanges /\ lost \subseteq Dialog
      /\ self = Nil /\ config = Nil /\ honeypot = Nil
  BY <1>1 DEF Init
<1> QED
  BY <1>2, <1>3, <1>4 DEF TypeOK

(* Every variable keeps its type, whatever the roles, lifetimes and faults. *)
THEOREM TypeCorrect == Spec => []TypeOK
BY TypeInit, TypeStep, PTL DEF Spec

-----------------------------------------------------------------------------
Early == {"new", "deferring", "log", "askLog", "honeypot", "askHoneypot", "saving"}
Refusals == {"malformed", "problems", "failed"}

(* Before its save a dialog has written nothing and not been answered.     *)
RefusalInv ==
    \A d \in Dialog :
        /\ job[d].at \in Early => d \notin {config, honeypot}
        /\ job[d].at \in Early \union {"warning"} => job[d].reply = "none"
        /\ job[d].reply \in Refusals /\ d \notin lost => d \notin {config, honeypot}

(* How a step goes on with a dialog when it leaves the rows alone.         *)
Talks(d) ==
    /\ job'[d].at \in Early => job[d].at \in Early
    /\ job'[d].at \in Early \union {"warning"} => job'[d].reply = "none"
    /\ \/ job'[d].reply = job[d].reply
       \/ job[d].at \in Early
       \/ job'[d].reply \notin Refusals

LEMMA TalksKeep ==
  RefusalInv /\ UNCHANGED rows /\ (\A d \in Dialog : Talks(d)) => RefusalInv'
BY DEF RefusalInv, Talks, rows, Refusals

LEMMA RefusalStep == TypeOK /\ RefusalInv /\ [Next]_vars => RefusalInv'
<1> SUFFICES ASSUME TypeOK, RefusalInv, [Next]_vars PROVE RefusalInv'
  OBVIOUS
<1> USE DEF Early, Refusals
<1>t. job \in [Dialog -> Job] /\ now \in Time /\ roles \subseteq Role
  BY DEF TypeOK
<1>r. {"malformed", "problems", "failed", "configured", "unposted"} \subseteq Reply
  BY DEF Reply
<1>s. {"deferring", "log", "askLog", "honeypot", "askHoneypot", "saving", "warning",
       "replying", "answered", "mute", "killed"} \subseteq Stage
  BY DEF Stage
<1>o. ASSUME NEW d \in Dialog, job'[d] = job[d]
      PROVE  Talks(d)
  BY <1>o DEF Talks, RefusalInv
<1>1. ASSUME NEW d \in Dialog, Moves(d), Talks(d), UNCHANGED rows
      PROVE  RefusalInv'
  BY <1>1, <1>o, TalksKeep DEF Moves
<1>2. ASSUME NEW d \in Dialog, NEW s \in Submission \union {Malformed}, Submit(d, s)
      PROVE  RefusalInv'
  <2>1. Moves(d) /\ Talks(d)
    BY <1>2, <1>t, Submits DEF Talks, RefusalInv
  <2> QED
    BY <1>1, <1>2, <2>1 DEF Submit
<1>3. ASSUME NEW d \in Dialog, DeferCreateMessage(d)
      PROVE  RefusalInv'
  <2>1. CASE Answer(d, "malformed")
    <3>1. Moves(d) /\ Talks(d)
      BY <1>3, <2>1, <1>t, <1>r, Answers DEF DeferCreateMessage, At, Talks
    <3> QED
      BY <1>1, <1>3, <3>1 DEF DeferCreateMessage
  <2>2. ASSUME NEW stage \in {"log", "honeypot"}, job' = [job EXCEPT ![d].at = stage]
        PROVE  RefusalInv'
    <3>1. Moves(d) /\ Talks(d)
      BY <1>3, <2>2, <1>t, <1>s, Proceeds DEF DeferCreateMessage, At, Talks, RefusalInv
    <3> QED
      BY <1>1, <1>3, <3>1 DEF DeferCreateMessage
  <2>3. CASE Return(d, "mute", TRUE)
    <3>1. Moves(d) /\ Talks(d)
      BY <2>3, <1>t, <1>s, Returns DEF Talks
    <3> QED
      BY <1>1, <1>3, <3>1 DEF DeferCreateMessage
  <2> QED
    BY <1>3, <2>1, <2>2, <2>3 DEF DeferCreateMessage, Read
<1>4. ASSUME NEW d \in Dialog, NEW R, NEW fault \in BOOLEAN, Learn(d, R, fault)
      PROVE  Moves(d) /\ Talks(d)
  <2>1. CASE job[d].at \in {"log", "askLog"}
    <3>1. Moves(d) /\ job'[d].at = "honeypot" /\ job'[d].reply = job[d].reply
      BY <1>4, <2>1, <1>t, LearnsLog
    <3>2. job[d].reply = "none"
      BY <2>1 DEF RefusalInv
    <3> QED
      BY <2>1, <3>1, <3>2 DEF Talks
  <2>2. CASE job[d].at \in {"honeypot", "askHoneypot"}
    BY <1>4, <2>2, <1>t, LearnsHoneypot DEF Talks
  <2> QED
    BY <1>4, <2>1, <2>2 DEF Learn
<1>5. ASSUME NEW d \in Dialog, botPermissionsIn(d)
      PROVE  RefusalInv'
  <2>1. job[d].at \in {"log", "honeypot"} /\ UNCHANGED rows
    BY <1>5 DEF botPermissionsIn
  <2>2. CASE Learn(d, self.roles, FALSE)
    BY <2>1, <2>2, <1>1, <1>4
  <2>3. CASE job' = [job EXCEPT ![d].at = IF @ = "log" THEN "askLog" ELSE "askHoneypot",
                                ![d].asked = now, ![d].roles = roles]
    <3>1. PICK stage \in {"askLog", "askHoneypot"} : AsksFrom(d, stage)
      BY <2>3 DEF AsksFrom
    <3>2. Moves(d) /\ job'[d].at = stage /\ job'[d].reply = job[d].reply
      BY <3>1, <1>t, <1>s, Asks
    <3>3. job[d].at \in Early /\ job[d].reply = "none"
      BY <2>1 DEF RefusalInv
    <3>4. Moves(d) /\ Talks(d)
      BY <3>2, <3>3 DEF Talks
    <3> QED
      BY <2>1, <3>4, <1>1
  <2> QED
    BY <1>5, <2>2, <2>3 DEF botPermissionsIn
<1>6. ASSUME NEW d \in Dialog, UnknownChannel(d) \/ GetMember(d)
      PROVE  RefusalInv'
  <2>1. Moves(d) /\ Talks(d)
    BY <1>6, <1>4 DEF UnknownChannel, GetMember
  <2> QED
    BY <1>1, <1>6, <2>1 DEF UnknownChannel, GetMember
<1>7. ASSUME NEW d \in Dialog, SaveGuildSetup(d)
      PROVE  RefusalInv'
  <2>1. CASE Answer(d, "failed") /\ UNCHANGED rows
    <3>1. Moves(d) /\ Talks(d)
      BY <1>7, <2>1, <1>t, <1>r, Answers DEF SaveGuildSetup, At, Talks
    <3> QED
      BY <1>1, <2>1, <3>1
  <2>2. CASE Saved(d) /\ lost' = lost \union {d} /\ Answer(d, "failed")
    <3>1. Moves(d) /\ job'[d].at = "replying"
      BY <2>2, <1>t, <1>r, Answers
    <3>2. \A e \in Dialog : e # d => job'[e] = job[e]
      BY <3>1 DEF Moves
    <3> QED
      BY <2>2, <3>1, <3>2 DEF RefusalInv, Saved
  <2>3. CASE Saved(d) /\ UNCHANGED lost /\ job' = [job EXCEPT ![d].at = "warning"]
    <3>1. Moves(d) /\ job'[d].at = "warning" /\ job'[d].reply = job[d].reply
      BY <2>3, <1>t, <1>s, Proceeds
    <3>2. \A e \in Dialog : e # d => job'[e] = job[e]
      BY <3>1 DEF Moves
    <3>3. job[d].reply = "none"
      BY <1>7 DEF SaveGuildSetup, At, RefusalInv
    <3> QED
      BY <2>3, <3>1, <3>2, <3>3 DEF RefusalInv, Saved
  <2> QED
    BY <1>7, <2>1, <2>2, <2>3 DEF SaveGuildSetup, NotSaved
<1>8. ASSUME NEW d \in Dialog, ensureWarningMessage(d)
      PROVE  RefusalInv'
  <2>1. Moves(d) /\ Talks(d)
    BY <1>8, <1>t, <1>r, Answers DEF ensureWarningMessage, Talks
  <2> QED
    BY <1>1, <1>8, <2>1 DEF ensureWarningMessage
<1>9. ASSUME NEW d \in Dialog, editDeferredReply(d) \/ EditFails(d)
      PROVE  RefusalInv'
  <2>1. Moves(d) /\ job'[d].at \in {"answered", "mute"} /\ job'[d].reply = job[d].reply
    BY <1>9, <1>t, <1>s, Returns DEF editDeferredReply, EditFails
  <2>2. Talks(d)
    BY <2>1 DEF Talks
  <2> QED
    BY <1>1, <1>9, <2>1, <2>2 DEF editDeferredReply, EditFails
<1>10. CASE Restart
  <2>1. ASSUME NEW d \in Dialog
        PROVE  Talks(d)
    <3>1. CASE job'[d] = job[d]
      BY <3>1, <1>o
    <3>2. CASE job'[d] = Over(job[d], "killed")
      <4>1. job'[d].at = "killed" /\ job'[d].reply = job[d].reply
        BY <3>2, <1>t, <1>s, OverFields
      <4> QED
        BY <4>1 DEF Talks
    <3> QED
      BY <1>10, <3>1, <3>2 DEF Restart
  <2> QED
    BY <1>10, <2>1, TalksKeep DEF Restart
<1>11. CASE (\E r \in Role : ChangeRole(r)) \/ Tick \/ Idling \/ UNCHANGED vars
  BY <1>11, <1>o, TalksKeep DEF ChangeRole, Tick, Idling, vars, rows
<1> QED
  BY <1>2, <1>3, <1>5, <1>6, <1>7, <1>8, <1>9, <1>10, <1>11 DEF Next, Step

LEMMA RefusalInit == Init => RefusalInv
BY DEF Init, RefusalInv, Refusals

(* Whoever is told that no settings have been changed finds none changed   *)
(* by that dialog, unless the database kept what it called a failure.      *)
THEOREM RefusalsAreTrue == Spec => []RefusalIsTrue
<1>1. RefusalInv => RefusalIsTrue
  BY DEF RefusalInv, RefusalIsTrue, Refusals
<1>2. Spec => [](TypeOK /\ RefusalInv)
  BY TypeInit, TypeStep, RefusalInit, RefusalStep, PTL DEF Spec
<1> QED
  BY <1>1, <1>2, PTL

-----------------------------------------------------------------------------
(* The bot had, or lacked, an access at some time the dialog may know of.  *)
Held(d, a) == \E R \in RolesSince(Horizon(d)) : a \in Granted(R)
Lacked(d, a) == \E R \in RolesSince(Horizon(d)) : a \notin Granted(R)

(* What a dialog's goroutine has been told holds of those times. *)
LookingInv(d) ==
    LET j == job[d]
        s == j.sub
    IN
    /\ j.at \in {"deferring", "log", "askLog", "honeypot", "askHoneypot", "saving"} =>
          j.began <= now
    /\ j.at \in {"log", "askLog", "honeypot", "askHoneypot", "saving"} => s \in Submission
    /\ j.at \in {"log", "askLog"} => s.log # Nil
    /\ j.at \in {"askLog", "askHoneypot"} =>
          j.began <= j.asked /\ [at |-> j.asked, roles |-> j.roles] \in past
    /\ j.at \in {"honeypot", "askHoneypot"} /\ s.log # Nil =>
          IF j.logOK THEN Held(d, <<s.log, "post">>)
          ELSE j.faulty \/ Lacked(d, <<s.log, "post">>)
    /\ j.at = "saving" => \A a \in Needed(s) : Held(d, a)
    /\ j.at = "replying" /\ j.reply = "problems" =>
          \/ s.bans /\ ~s.may
          \/ j.faulty
          \/ \E a \in Needed(s) : Lacked(d, a)

(* The cached member object is younger than its expiry makes it look by a  *)
(* request's duration at most.                                             *)
SelfInv ==
    self # Nil => \E e \in past : e.roles = self.roles /\ self.until <= e.at + TTL + Patience

PastInv == [at |-> now, roles |-> roles] \in past

MemoryInv == PastInv /\ SelfInv /\ \A d \in Dialog : LookingInv(d)

LEMMA HorizonIs ==
  ASSUME job \in [Dialog -> Job], NEW d \in Dialog
  PROVE  Horizon(d) \in Int /\ Horizon(d) = job[d].began - TTL - Patience
BY DEF Horizon, Job, Time

(* The past only grows: what was held or lacked remains so. *)
LEMMA PastStays ==
  ASSUME NEW d \in Dialog, NEW a, past \subseteq past', job'[d].began = job[d].began
  PROVE  (Held(d, a) => Held(d, a)') /\ (Lacked(d, a) => Lacked(d, a)')
<1>1. Horizon(d)' = Horizon(d)
  BY DEF Horizon
<1>2. \A t : {e.roles : e \in {x \in past : x.at >= t}} \subseteq {e.roles : e \in {x \in past' : x.at >= t}}
  OBVIOUS
<1>3. RolesSince(Horizon(d)) \subseteq RolesSince(Horizon(d))'
  BY <1>1, <1>2 DEF RolesSince
<1> QED
  BY <1>3 DEF Held, Lacked

LEMMA Bystander ==
  ASSUME TypeOK, NEW d \in Dialog, LookingInv(d), job'[d] = job[d], past \subseteq past',
         now' \in Time, now <= now'
  PROVE  LookingInv(d)'
<1>1. job[d].began \in Int /\ now \in Int /\ now' \in Int
  BY DEF TypeOK, Job, Time
<1>2. job[d].began <= now => job[d].began <= now'
  BY <1>1
<1>3. \A a : (Held(d, a) => Held(d, a)') /\ (Lacked(d, a) => Lacked(d, a)')
  BY PastStays
<1>4. \A s : Needed(s)' = Needed(s)
  BY DEF Needed
<1> QED
  BY <1>2, <1>3, <1>4 DEF LookingInv

LEMMA MemorySame ==
  ASSUME TypeOK, MemoryInv, NEW d \in Dialog, Moves(d), UNCHANGED world, SelfInv', LookingInv(d)'
  PROVE  MemoryInv'
<1>1. now \in Time /\ now <= now
  BY DEF TypeOK, Time
<1>2. ASSUME NEW e \in Dialog, e # d
      PROVE  LookingInv(e)'
  BY <1>1, <1>2, Bystander DEF MemoryInv, Moves, world
<1>3. PastInv'
  BY DEF MemoryInv, PastInv, world
<1> QED
  BY <1>2, <1>3 DEF MemoryInv

LEMMA AccessNeeded ==
  ASSUME NEW s
  PROVE  /\ <<s.honeypot, "post">> \in Needed(s)
         /\ s.bans => <<s.honeypot, "ban">> \in Needed(s)
         /\ s.log # Nil => <<s.log, "post">> \in Needed(s)
BY DEF Needed

LEMMA NothingGranted == Granted({}) = {}
BY DEF Granted

(* A lookup that tells of roles the bot had, or fails, keeps the invariant.*)
LEMMA Informed ==
  ASSUME TypeOK, NEW d \in Dialog, LookingInv(d), NEW R, NEW fault \in BOOLEAN,
         Learn(d, R, fault), R \in RolesSince(Horizon(d)) \/ (fault /\ R = {}),
         UNCHANGED <<now, past>>
  PROVE  Moves(d) /\ LookingInv(d)'
<1>t. job \in [Dialog -> Job] /\ now \in Time
  BY DEF TypeOK
<1> DEFINE s == job[d].sub
<1>1. CASE job[d].at \in {"log", "askLog"}
  <2> DEFINE a == <<s.log, "post">>
  <2>1. /\ Moves(d) /\ job'[d].at = "honeypot" /\ (job'[d].logOK <=> a \in Granted(R))
        /\ job'[d].sub = s /\ job'[d].began = job[d].began
        /\ (job'[d].faulty <=> job[d].faulty \/ fault)
    BY <1>1, <1>t, LearnsLog
  <2>2. s \in Submission /\ job[d].began <= now
    BY <1>1 DEF LookingInv
  <2>3. IF a \in Granted(R) THEN Held(d, a) ELSE fault \/ Lacked(d, a)
    BY NothingGranted DEF Held, Lacked
  <2>4. (Held(d, a) => Held(d, a)') /\ (Lacked(d, a) => Lacked(d, a)')
    BY <2>1, PastStays
  <2>5. LookingInv(d)'
    BY <2>1, <2>2, <2>3, <2>4 DEF LookingInv
  <2> QED
    BY <2>1, <2>5
<1>2. CASE job[d].at \in {"honeypot", "askHoneypot"}
  <2>1. /\ Moves(d)
        /\ \/ /\ Problems(s, job[d].logOK, R)
              /\ job'[d].at = "replying" /\ job'[d].reply = "problems"
           \/ /\ ~Problems(s, job[d].logOK, R)
              /\ job'[d].at = "saving" /\ job'[d].reply = "none"
        /\ job'[d].sub = s /\ job'[d].began = job[d].began
        /\ (job'[d].faulty <=> job[d].faulty \/ fault)
    BY <1>2, <1>t, LearnsHoneypot
  <2>2. s \in Submission /\ job[d].began <= now
    BY <1>2 DEF LookingInv
  <2>3. s.log # Nil => IF job[d].logOK THEN Held(d, <<s.log, "post">>)
                       ELSE job[d].faulty \/ Lacked(d, <<s.log, "post">>)
    BY <1>2 DEF LookingInv
  <2>4. \A a : (Held(d, a) => Held(d, a)') /\ (Lacked(d, a) => Lacked(d, a)')
    BY <2>1, PastStays
  <2>5. \A x : Needed(x)' = Needed(x)
    BY DEF Needed
  <2>6. CASE ~Problems(s, job[d].logOK, R)
    <3>1. R # {} /\ R \in RolesSince(Horizon(d))
      BY <2>6, NothingGranted DEF Problems
    <3>2. ASSUME NEW a \in Needed(s)
          PROVE  Held(d, a)
      <4>1. CASE a \in Granted(R)
        BY <3>1, <4>1 DEF Held
      <4>2. CASE s.log # Nil /\ a = <<s.log, "post">>
        BY <2>3, <2>6, <4>2 DEF Problems
      <4> QED
        BY <2>6, <3>2, <4>1, <4>2 DEF Needed, Problems
    <3> QED
      BY <2>1, <2>2, <2>4, <2>5, <2>6, <3>2 DEF LookingInv
  <2>7. CASE Problems(s, job[d].logOK, R)
    <3>1. \/ s.bans /\ ~s.may
          \/ job[d].faulty \/ fault
          \/ \E a \in Needed(s) : Lacked(d, a)
      <4>1. CASE s.log # Nil /\ ~job[d].logOK
        BY <2>3, <4>1, AccessNeeded
      <4>2. CASE \E a \in Needed(s) : a \notin Granted(R)
        BY <4>2 DEF Lacked
      <4> QED
        BY <2>7, <4>1, <4>2, AccessNeeded DEF Problems
    <3> QED
      BY <2>1, <2>2, <2>4, <2>5, <2>7, <3>1 DEF LookingInv
  <2> QED
    BY <2>1, <2>6, <2>7
<1> QED
  BY <1>1, <1>2 DEF Learn

LEMMA MemoryStep == TypeOK /\ RefusalInv /\ MemoryInv /\ [Next]_vars => MemoryInv'
<1> SUFFICES ASSUME TypeOK, RefusalInv, MemoryInv, [Next]_vars PROVE MemoryInv'
  OBVIOUS
<1>t. /\ job \in [Dialog -> Job] /\ now \in Time /\ roles \subseteq Role
      /\ past \subseteq [at : Time, roles : SUBSET Role]
      /\ self \in [roles : SUBSET Role, until : 0 .. MaxTime + TTL] \union {Nil}
  BY DEF TypeOK
<1>m. PastInv /\ SelfInv /\ \A d \in Dialog : LookingInv(d)
  BY DEF MemoryInv
<1>r. {"malformed", "problems", "failed", "configured", "unposted"} \subseteq Reply
  BY DEF Reply
<1>s. {"deferring", "log", "askLog", "honeypot", "askHoneypot", "saving", "warning",
       "replying", "answered", "mute", "killed"} \subseteq Stage
  BY DEF Stage
<1>1. ASSUME NEW d \in Dialog, Moves(d), LookingInv(d)', UNCHANGED <<world, self>>
      PROVE  MemoryInv'
  BY <1>1, <1>m, MemorySame DEF SelfInv, world
<1>e. ASSUME NEW d \in Dialog, job'[d].at \in {"warning", "answered", "mute", "killed"}
      PROVE  LookingInv(d)'
  BY <1>e DEF LookingInv
<1>2. ASSUME NEW d \in Dialog, NEW s \in Submission \union {Malformed}, Submit(d, s)
      PROVE  MemoryInv'
  <2>1. Moves(d) /\ job'[d].at = "deferring" /\ job'[d].began = now /\ now' = now
    BY <1>2, <1>t, Submits DEF Submit, world
  <2>2. now <= now
    BY <1>t DEF Time
  <2>3. LookingInv(d)'
    BY <2>1, <2>2 DEF LookingInv
  <2> QED
    BY <1>1, <1>2, <2>1, <2>3 DEF Submit
<1>3. ASSUME NEW d \in Dialog, DeferCreateMessage(d)
      PROVE  MemoryInv'
  <2>1. job[d].at = "deferring" /\ job[d].began <= now /\ UNCHANGED <<world, self>> /\ now' = now
    BY <1>3, <1>m DEF DeferCreateMessage, At, LookingInv, world
  <2>2. CASE Answer(d, "malformed")
    <3>1. Moves(d) /\ job'[d].at = "replying" /\ job'[d].reply = "malformed"
      BY <2>2, <1>t, <1>r, Answers
    <3>2. LookingInv(d)'
      BY <3>1 DEF LookingInv
    <3> QED
      BY <1>1, <2>1, <3>1, <3>2
  <2>3. CASE job[d].sub # Malformed
             /\ job' = [job EXCEPT ![d].at = IF job[d].sub.log = Nil THEN "honeypot" ELSE "log"]
    <3>1. job[d].sub \in Submission
      BY <2>3, <1>t DEF Job
    <3>2. PICK stage \in {"log", "honeypot"} :
            /\ job' = [job EXCEPT ![d].at = stage]
            /\ stage = "honeypot" <=> job[d].sub.log = Nil
      BY <2>3
    <3>3. Moves(d) /\ job'[d].at = stage /\ job'[d].sub = job[d].sub /\ job'[d].began = job[d].began
      BY <3>2, <1>t, <1>s, Proceeds
    <3>4. LookingInv(d)'
      BY <2>1, <3>1, <3>2, <3>3 DEF LookingInv
    <3> QED
      BY <1>1, <2>1, <3>3, <3>4
  <2>4. CASE Return(d, "mute", TRUE)
    <3>1. Moves(d) /\ job'[d].at = "mute"
      BY <2>4, <1>t, <1>s, Returns
    <3> QED
      BY <1>1, <1>e, <2>1, <3>1
  <2> QED
    BY <1>3, <2>2, <2>3, <2>4 DEF DeferCreateMessage, Read
<1>4. ASSUME NEW d \in Dialog, NEW e \in past, job[d].began <= e.at + TTL + Patience
      PROVE  e.roles \in RolesSince(Horizon(d))
  <2>1. e.at \in Int /\ job[d].began \in Int
    BY <1>t DEF Time, Job
  <2>2. e.at >= Horizon(d)
    BY <1>4, <1>t, <2>1, HorizonIs
  <2> QED
    BY <2>2 DEF RolesSince
<1>5. ASSUME NEW d \in Dialog, botPermissionsIn(d)
      PROVE  MemoryInv'
  <2>1. /\ job[d].at \in {"log", "honeypot"} /\ UNCHANGED <<world, self>>
        /\ UNCHANGED <<now, past>> /\ LookingInv(d)
    BY <1>5, <1>m DEF botPermissionsIn, world
  <2>2. job[d].began <= now /\ job[d].began \in Int /\ now \in Int
    BY <2>1, <1>t DEF LookingInv, Job, Time
  <2>3. CASE Alive(self) /\ Learn(d, self.roles, FALSE)
    <3>1. PICK e \in past : e.roles = self.roles /\ self.until <= e.at + TTL + Patience
      BY <2>3, <1>m DEF Alive, SelfInv
    <3>2. now <= self.until /\ self.until \in Int /\ e.at \in Int
      BY <2>3, <1>t DEF Alive, Time
    <3>3. job[d].began <= e.at + TTL + Patience
      BY <2>2, <3>1, <3>2
    <3>4. Moves(d) /\ LookingInv(d)'
      BY <2>1, <2>3, <3>1, <3>3, <1>4, Informed
    <3> QED
      BY <1>1, <2>1, <3>4
  <2>4. CASE job' = [job EXCEPT ![d].at = IF @ = "log" THEN "askLog" ELSE "askHoneypot",
                                ![d].asked = now, ![d].roles = roles]
    <3>1. PICK stage \in {"askLog", "askHoneypot"} :
            AsksFrom(d, stage) /\ (stage = "askLog" <=> job[d].at = "log")
      BY <2>1, <2>4 DEF AsksFrom
    <3>2. /\ Moves(d) /\ job'[d].at = stage /\ job'[d].asked = now /\ job'[d].roles = roles
          /\ job'[d].sub = job[d].sub /\ job'[d].began = job[d].began
          /\ job'[d].faulty = job[d].faulty /\ job'[d].logOK = job[d].logOK
      BY <3>1, <1>t, <1>s, Asks
    <3>3. \A a : (Held(d, a) => Held(d, a)') /\ (Lacked(d, a) => Lacked(d, a)')
      BY <2>1, <3>2, PastStays
    <3>4. [at |-> now, roles |-> roles] \in past
      BY <1>m DEF PastInv
    <3> DEFINE l == job[d].sub.log
    <3>5. /\ job'[d].began <= now' /\ job'[d].began <= job'[d].asked
          /\ [at |-> job'[d].asked, roles |-> job'[d].roles] \in past'
      BY <2>1, <2>2, <3>2, <3>4
    <3>6. job'[d].sub \in Submission /\ (stage = "askLog" => l # Nil)
      BY <2>1, <3>1, <3>2 DEF LookingInv
    <3>7. ASSUME NEW a, a = <<l, "post">>, stage = "askHoneypot", l # Nil
          PROVE  IF job[d].logOK THEN Held(d, a)' ELSE job[d].faulty \/ Lacked(d, a)'
      <4>1. IF job[d].logOK THEN Held(d, a) ELSE job[d].faulty \/ Lacked(d, a)
        BY <2>1, <3>1, <3>7 DEF LookingInv
      <4> QED
        BY <3>3, <4>1
    <3>8. LookingInv(d)'
      BY <3>2, <3>5, <3>6, <3>7 DEF LookingInv
    <3> QED
      BY <1>1, <2>1, <3>2, <3>8
  <2> QED
    BY <1>5, <2>3, <2>4 DEF botPermissionsIn
<1>6. ASSUME NEW d \in Dialog, UnknownChannel(d)
      PROVE  MemoryInv'
  <2>1. UNCHANGED <<now, past>> /\ UNCHANGED <<world, self>> /\ Learn(d, {}, TRUE)
    BY <1>6 DEF UnknownChannel, world
  <2>2. Moves(d) /\ LookingInv(d)'
    BY <2>1, <1>m, Informed
  <2> QED
    BY <1>1, <2>1, <2>2
<1>7. ASSUME NEW d \in Dialog, GetMember(d)
      PROVE  MemoryInv'
  <2>1. /\ job[d].at \in {"askLog", "askHoneypot"} /\ UNCHANGED world
        /\ UNCHANGED <<now, past>> /\ LookingInv(d)
    BY <1>7, <1>m DEF GetMember, world
  <2>2. /\ job[d].began <= job[d].asked
        /\ [at |-> job[d].asked, roles |-> job[d].roles] \in past
    BY <2>1 DEF LookingInv
  <2>3. CASE now <= job[d].asked + Patience /\ self' = FreshMember(job[d].roles)
             /\ Learn(d, job[d].roles, FALSE)
    <3> DEFINE e == [at |-> job[d].asked, roles |-> job[d].roles]
    <3>1. job[d].asked \in Int /\ job[d].began \in Int /\ now \in Int
      BY <1>t DEF Job, Time
    <3>2. job[d].began <= job[d].asked + TTL + Patience
      BY <2>2, <3>1
    <3>3. job[d].roles \in RolesSince(Horizon(d))
      BY <2>2, <3>2, <1>4
    <3>4. Moves(d) /\ LookingInv(d)'
      BY <2>1, <2>3, <3>3, Informed
    <3>5. self'.roles = job[d].roles /\ self'.until = now + TTL
      BY <2>3 DEF FreshMember
    <3>6. now + TTL <= job[d].asked + TTL + Patience
      BY <2>3, <3>1
    <3>7. SelfInv'
      BY <2>1, <2>2, <3>5, <3>6 DEF SelfInv
    <3> QED
      BY <2>1, <3>4, <3>7, MemorySame
  <2>4. CASE Learn(d, {}, TRUE) /\ UNCHANGED self
    <3>1. Moves(d) /\ LookingInv(d)'
      BY <2>1, <2>4, Informed
    <3> QED
      BY <1>1, <2>1, <2>4, <3>1
  <2> QED
    BY <1>7, <2>3, <2>4 DEF GetMember
<1>8. ASSUME NEW d \in Dialog, SaveGuildSetup(d) \/ ensureWarningMessage(d)
      PROVE  MemoryInv'
  <2>1. UNCHANGED <<world, self>>
    BY <1>8 DEF SaveGuildSetup, ensureWarningMessage
  <2>2. ASSUME NEW r \in {"failed", "configured", "unposted"}, Answer(d, r)
        PROVE  MemoryInv'
    <3>1. Moves(d) /\ job'[d].at = "replying" /\ job'[d].reply = r
      BY <2>2, <1>t, <1>r, Answers
    <3>2. LookingInv(d)'
      BY <3>1 DEF LookingInv
    <3> QED
      BY <1>1, <2>1, <3>1, <3>2
  <2>3. CASE job' = [job EXCEPT ![d].at = "warning"]
    <3>1. Moves(d) /\ job'[d].at = "warning"
      BY <2>3, <1>t, <1>s, Proceeds
    <3> QED
      BY <1>1, <1>e, <2>1, <3>1
  <2> QED
    BY <1>8, <2>2, <2>3 DEF SaveGuildSetup, ensureWarningMessage
<1>9. ASSUME NEW d \in Dialog, editDeferredReply(d) \/ EditFails(d)
      PROVE  MemoryInv'
  <2>1. Moves(d) /\ job'[d].at \in {"answered", "mute"}
    BY <1>9, <1>t, <1>s, Returns DEF editDeferredReply, EditFails
  <2> QED
    BY <1>1, <1>e, <1>9, <2>1 DEF editDeferredReply, EditFails
<1>10. ASSUME PastInv', SelfInv \/ self' = Nil, UNCHANGED self \/ self' = Nil,
              past \subseteq past', now' \in Time, now <= now', job' = job
       PROVE  MemoryInv'
  <2>1. SelfInv'
    BY <1>10, <1>m DEF SelfInv
  <2>2. ASSUME NEW d \in Dialog
        PROVE  LookingInv(d)'
    BY <1>10, <1>m, Bystander
  <2> QED
    BY <1>10, <2>1, <2>2 DEF MemoryInv
<1>11. ASSUME NEW r \in Role, ChangeRole(r)
       PROVE  MemoryInv'
  <2>1. now <= now /\ now' = now
    BY <1>11, <1>t DEF ChangeRole, Time
  <2>2. PastInv'
    BY <1>11 DEF ChangeRole, PastInv
  <2> QED
    BY <1>10, <1>11, <1>m, <1>t, <2>1, <2>2 DEF ChangeRole
<1>12. CASE Tick
  <2>1. now <= now' /\ now' \in Time
    BY <1>12, <1>t DEF Tick, Time
  <2>2. PastInv'
    BY <1>12 DEF Tick, PastInv
  <2> QED
    BY <1>10, <1>12, <1>m, <2>1, <2>2 DEF Tick
<1>13. CASE Restart
  <2>1. ASSUME NEW d \in Dialog
        PROVE  LookingInv(d)'
    <3>1. CASE job'[d] = job[d]
      <4>1. now <= now /\ UNCHANGED <<now, past>>
        BY <1>13, <1>t DEF Restart, Time
      <4> QED
        BY <3>1, <4>1, <1>t, <1>m, Bystander
    <3>2. CASE job'[d] = Over(job[d], "killed")
      <4>1. job'[d].at = "killed"
        BY <3>2, <1>t, <1>s, OverFields
      <4> QED
        BY <4>1, <1>e
    <3> QED
      BY <1>13, <3>1, <3>2 DEF Restart
  <2> QED
    BY <1>13, <1>m, <2>1 DEF Restart, MemoryInv, PastInv, SelfInv
<1>14. CASE Idling \/ UNCHANGED vars
  <2>1. now <= now /\ UNCHANGED <<now, past, roles, self, job>>
    BY <1>14, <1>t DEF Idling, vars, Time
  <2> QED
    BY <1>10, <1>m, <1>t, <2>1 DEF PastInv
<1> QED
  BY <1>2, <1>3, <1>5, <1>6, <1>7, <1>8, <1>9, <1>11, <1>12, <1>13, <1>14 DEF Next, Step

LEMMA MemoryInit == Init => MemoryInv
BY DEF Init, MemoryInv, PastInv, SelfInv, LookingInv

LEMMA MemoryAlways == Spec => [](TypeOK /\ RefusalInv /\ MemoryInv)
BY TypeInit, TypeStep, RefusalInit, RefusalStep, MemoryInit, MemoryStep, PTL DEF Spec

(* A dialog about to save has found every permission it needs among the    *)
(* roles the bot had not longer ago than cache and request last.           *)
THEOREM SavedIfHeld == Spec => []SavedOnHeldPermissions
<1>1. MemoryInv => SavedOnHeldPermissions
  BY DEF MemoryInv, LookingInv, Held, SavedOnHeldPermissions, At
<1> QED
  BY <1>1, MemoryAlways, PTL

(* And none is told of problems without one: a lookup failed, the          *)
(* administrator may not ban, or the bot was without a permission then.    *)
THEOREM RefusedIfLacked == Spec => []RefusedOnLackedPermissions
<1>1. MemoryInv => RefusedOnLackedPermissions
  BY DEF MemoryInv, LookingInv, Lacked, RefusedOnLackedPermissions, At
<1> QED
  BY <1>1, MemoryAlways, PTL

-----------------------------------------------------------------------------
(* How many steps a goroutine has ahead of it at most. *)
Ahead(stage) ==
    CASE stage = "new"         -> 9
      [] stage = "deferring"   -> 8
      [] stage = "log"         -> 7
      [] stage = "askLog"      -> 6
      [] stage = "honeypot"    -> 5
      [] stage = "askHoneypot" -> 4
      [] stage = "saving"      -> 3
      [] stage = "warning"     -> 2
      [] stage = "replying"    -> 1
      [] OTHER                 -> 0

LEMMA AheadIs ==
  /\ Ahead("new") = 9 /\ Ahead("deferring") = 8 /\ Ahead("log") = 7
  /\ Ahead("askLog") = 6 /\ Ahead("honeypot") = 5 /\ Ahead("askHoneypot") = 4
  /\ Ahead("saving") = 3 /\ Ahead("warning") = 2 /\ Ahead("replying") = 1
  /\ \A stage \in Ended : Ahead(stage) = 0
BY DEF Ahead, Ended

(* Without an answer a dialog ends by a failed call only, and the answer   *)
(* says something.                                                         *)
AnswerInv ==
    \A d \in Dialog :
        /\ At(d, "mute") => job[d].faulty
        /\ job[d].at \in {"replying", "answered"} => job[d].reply # "none"

Nearer(d) == Ahead(job'[d].at) < Ahead(job[d].at)

(* A step of a dialog, with what AnswerInv says of it afterwards. *)
Proper(d) ==
    /\ Moves(d)
    /\ Nearer(d)
    /\ job'[d].at = "mute" => job'[d].faulty
    /\ job'[d].at \in {"replying", "answered"} => job'[d].reply # "none"

LEMMA LearningIsProper ==
  ASSUME job \in [Dialog -> Job], NEW d \in Dialog, NEW R, NEW fault \in BOOLEAN,
         Learn(d, R, fault)
  PROVE  Proper(d)
<1>1. CASE job[d].at \in {"log", "askLog"}
  <2>1. Moves(d) /\ job'[d].at = "honeypot"
    BY <1>1, LearnsLog
  <2> QED
    BY <1>1, <2>1, AheadIs DEF Proper, Nearer
<1>2. CASE job[d].at \in {"honeypot", "askHoneypot"}
  <2>1. /\ Moves(d)
        /\ \/ job'[d].at = "replying" /\ job'[d].reply = "problems"
           \/ job'[d].at = "saving"
    BY <1>2, LearnsHoneypot
  <2> QED
    BY <1>2, <2>1, AheadIs DEF Proper, Nearer
<1> QED
  BY <1>1, <1>2 DEF Learn

LEMMA AnswerIsProper ==
  ASSUME job \in [Dialog -> Job], NEW d \in Dialog, NEW r \in Reply \ {"none"},
         job[d].at \in {"deferring", "saving", "warning"}, Answer(d, r)
  PROVE  Proper(d)
<1>1. Moves(d) /\ job'[d].at = "replying" /\ job'[d].reply = r
  BY Answers
<1> QED
  BY <1>1, AheadIs DEF Proper, Nearer

LEMMA DialogIsProper ==
  ASSUME TypeOK, AnswerInv, NEW d \in Dialog,
         Step(d) \/ \E s \in Submission \union {Malformed} : Submit(d, s)
  PROVE  Proper(d)
<1>t. job \in [Dialog -> Job] /\ now \in Time /\ roles \subseteq Role
  BY DEF TypeOK
<1>r. {"malformed", "failed", "configured", "unposted"} \subseteq Reply \ {"none"}
  BY DEF Reply
<1>s. {"log", "askLog", "honeypot", "askHoneypot", "warning", "answered", "mute"} \subseteq Stage
  BY DEF Stage
<1> USE DEF At
<1>1. ASSUME NEW s \in Submission \union {Malformed}, Submit(d, s)
      PROVE  Proper(d)
  <2>1. Moves(d) /\ job[d].at = "new" /\ job'[d].at = "deferring"
    BY <1>1, <1>t, Submits
  <2> QED
    BY <2>1, AheadIs DEF Proper, Nearer
<1>m. ASSUME Return(d, "mute", TRUE), job[d].at \in {"deferring", "replying"}
      PROVE  Proper(d)
  <2>1. Moves(d) /\ job'[d].at = "mute" /\ job'[d].faulty
    BY <1>m, <1>t, <1>s, Returns
  <2> QED
    BY <1>m, <2>1, AheadIs DEF Proper, Nearer, Ended
<1>2. CASE DeferCreateMessage(d)
  <2>1. CASE Answer(d, "malformed")
    BY <1>2, <2>1, <1>t, <1>r, AnswerIsProper DEF DeferCreateMessage
  <2>2. ASSUME NEW stage \in {"log", "honeypot"}, job' = [job EXCEPT ![d].at = stage]
        PROVE  Proper(d)
    <3>1. Moves(d) /\ job'[d].at = stage
      BY <2>2, <1>t, <1>s, Proceeds
    <3> QED
      BY <1>2, <3>1, AheadIs DEF DeferCreateMessage, Proper, Nearer
  <2> QED
    BY <1>2, <1>m, <2>1, <2>2 DEF DeferCreateMessage, Read
<1>3. CASE botPermissionsIn(d)
  <2>1. CASE Learn(d, self.roles, FALSE)
    BY <2>1, <1>t, LearningIsProper
  <2>2. CASE job' = [job EXCEPT ![d].at = IF @ = "log" THEN "askLog" ELSE "askHoneypot",
                                ![d].asked = now, ![d].roles = roles]
    <3>1. \/ job[d].at = "log" /\ AsksFrom(d, "askLog")
          \/ job[d].at = "honeypot" /\ AsksFrom(d, "askHoneypot")
      BY <1>3, <2>2 DEF botPermissionsIn, AsksFrom
    <3>2. Moves(d) /\ \/ job[d].at = "log" /\ job'[d].at = "askLog"
                      \/ job[d].at = "honeypot" /\ job'[d].at = "askHoneypot"
      BY <3>1, <1>t, <1>s, Asks
    <3> QED
      BY <3>2, AheadIs DEF Proper, Nearer
  <2> QED
    BY <1>3, <2>1, <2>2 DEF botPermissionsIn
<1>4. CASE UnknownChannel(d) \/ GetMember(d)
  BY <1>4, <1>t, LearningIsProper DEF UnknownChannel, GetMember
<1>5. CASE SaveGuildSetup(d)
  <2>1. CASE Answer(d, "failed")
    BY <1>5, <2>1, <1>t, <1>r, AnswerIsProper DEF SaveGuildSetup
  <2>2. CASE job' = [job EXCEPT ![d].at = "warning"]
    <3>1. Moves(d) /\ job'[d].at = "warning"
      BY <2>2, <1>t, <1>s, Proceeds
    <3> QED
      BY <1>5, <3>1, AheadIs DEF SaveGuildSetup, Proper, Nearer
  <2> QED
    BY <1>5, <2>1, <2>2 DEF SaveGuildSetup
<1>6. CASE ensureWarningMessage(d)
  BY <1>6, <1>t, <1>r, AnswerIsProper DEF ensureWarningMessage
<1>7. CASE editDeferredReply(d)
  <2>1. Moves(d) /\ job'[d].at = "answered" /\ job'[d].reply = job[d].reply
    BY <1>7, <1>t, <1>s, Returns DEF editDeferredReply
  <2>2. job[d].at = "replying" /\ job[d].reply # "none"
    BY <1>7 DEF editDeferredReply, AnswerInv
  <2> QED
    BY <2>1, <2>2, AheadIs DEF Proper, Nearer, Ended
<1>8. CASE EditFails(d)
  BY <1>8, <1>m DEF EditFails
<1> QED
  BY <1>1, <1>2, <1>3, <1>4, <1>5, <1>6, <1>7, <1>8 DEF Step

(* The clock, the roles and a restart start no dialog again. *)
LEMMA OthersSetNobodyBack ==
  ASSUME TypeOK, AnswerInv, [Next]_vars
  PROVE  AnswerInv' /\ \A d \in Dialog : job'[d] = job[d] \/ Nearer(d)
<1>t. job \in [Dialog -> Job]
  BY DEF TypeOK
<1>1. ASSUME NEW d \in Dialog,
             Step(d) \/ \E s \in Submission \union {Malformed} : Submit(d, s)
      PROVE  AnswerInv' /\ \A e \in Dialog : job'[e] = job[e] \/ Nearer(e)
  <2>1. Proper(d)
    BY <1>1, DialogIsProper
  <2> QED
    BY <2>1 DEF Proper, Moves, AnswerInv, At
<1>2. CASE Restart
  <2>1. ASSUME NEW d \in Dialog, job[d].at \notin Ended \union {"new"}
        PROVE  /\ job'[d].at = "killed"
               /\ Nearer(d)
    <3>1. job[d] \in Job /\ "killed" \in Stage
      BY <1>t DEF Stage
    <3>2. job'[d].at = "killed"
      BY <1>2, <2>1, <3>1, OverFields DEF Restart
    <3>3. Ahead(job[d].at) > 0
      BY <2>1, <3>1, AheadIs DEF Job, Stage, Ended
    <3> QED
      BY <3>2, <3>3, AheadIs DEF Nearer, Ended
  <2>2. \A d \in Dialog : job[d].at \in Ended \union {"new"} => job'[d] = job[d]
    BY <1>2 DEF Restart
  <2> QED
    BY <2>1, <2>2 DEF AnswerInv, At
<1>3. CASE (\E r \in Role : ChangeRole(r)) \/ Tick \/ Idling \/ UNCHANGED vars
  BY <1>3 DEF ChangeRole, Tick, Idling, vars, AnswerInv, At
<1> QED
  BY <1>1, <1>2, <1>3 DEF Next

(* Whatever the roles, the clock and the other dialogs do, every step of a *)
(* dialog is one of at most nine, and one that has ended without an answer *)
(* has met a failed call.  For EveryDialogIsAnswered there remains that an *)
(* unfinished one can take a step, and does.                               *)
THEOREM DialogsRunOut ==
  Spec => /\ [](\A d \in Dialog :
                  /\ At(d, "mute") => job[d].faulty
                  /\ At(d, "answered") => job[d].reply # "none")
          /\ [][\A d \in Dialog :
                  /\ Step(d) => Nearer(d)
                  /\ job'[d] # job[d] => Nearer(d)]_vars
<1>1. Init => AnswerInv
  BY DEF Init, AnswerInv, At
<1>2. TypeOK /\ AnswerInv /\ [Next]_vars => AnswerInv'
  BY OthersSetNobodyBack
<1>3. AnswerInv => \A d \in Dialog :
                      /\ At(d, "mute") => job[d].faulty
                      /\ At(d, "answered") => job[d].reply # "none"
  BY DEF AnswerInv, At
<1>4. TypeOK /\ AnswerInv /\ [Next]_vars =>
        \A d \in Dialog :
          /\ Step(d) => Nearer(d)
          /\ job'[d] # job[d] => Nearer(d)
  BY OthersSetNobodyBack, DialogIsProper DEF Proper
<1> QED
  BY <1>1, <1>2, <1>3, <1>4, TypeCorrect, PTL DEF Spec
=============================================================================
