---------------------------- MODULE SetupProofs ----------------------------
(***************************************************************************)
(* Theorems about what onGuildJoin makes of the honeypot channel.          *)
(*                                                                         *)
(* Of its name, by Lookalike: for every table as the code's, every word    *)
(* and every choice of replacements, normalize undoes obfuscate, and a     *)
(* word with a letter that can be disguised is.                            *)
(*                                                                         *)
(* Of its overwrite for @everyone, by AutoSetup, for every set of          *)
(* permissions and of needed ones.                                         *)
(***************************************************************************)
EXTENDS Lookalike, AutoSetup, TLAPS

(* While the first loop runs, the runes from i on are untouched, and       *)
(* replaced tells whether any before i differs.  The second loop starts    *)
(* with none replaced, and passes the letters that have no lookalike.      *)
Progress ==
    /\ \A k \in DOMAIN word : loop = "first" /\ k >= i => runes[k] = ToLower[word[k]]
    /\ loop = "first" /\ ~replaced =>
        \A k \in DOMAIN word : runes[k] = ToLower[word[k]]
    /\ loop \in {"first", "done"} /\ replaced =>
        \E k \in DOMAIN word : runes[k] # ToLower[word[k]]
    /\ loop = "second" =>
        /\ ~replaced
        /\ \A k \in DOMAIN word : runes[k] = ToLower[word[k]]
        /\ \A k \in DOMAIN word : k < i => runes[k] \notin ASCII

Inv == NameTypeOK /\ OnlyLookalikes /\ Progress /\ IsDisguised

-----------------------------------------------------------------------------
(* What the words are, and where the loop's index can be. *)
LEMMA WordFacts ==
  ASSUME NEW w \in Word
  PROVE  /\ \E n \in 0 .. MaxLength : DOMAIN w = 1 .. n
         /\ \A k \in DOMAIN w : k \in Nat /\ w[k] \in Rune /\ ToLower[w[k]] \in Rune
         /\ Lower(w) \in [DOMAIN w -> Rune]
         /\ \A k \in DOMAIN w : Lower(w)[k] = ToLower[w[k]]
<1>1. PICK n \in 0 .. MaxLength : w \in [1 .. n -> Rune]
  BY DEF Word
<1>2. \A k \in DOMAIN w : k \in Nat /\ w[k] \in Rune /\ ToLower[w[k]] \in Rune
  BY <1>1, LookalikeAssumption
<1> QED
  BY <1>1, <1>2 DEF Lower

(* normalizeMap takes a lookalike to its letter and a letter to itself.    *)
LEMMA ToASCIIFacts ==
  ASSUME NEW a \in ASCII
  PROVE  /\ ToASCII(a) = a
         /\ \A r \in lookalikes[a] : ToASCII(r) = a /\ r # a /\ r \in Rune
<1>1. ToASCII(a) = a
  BY TableAssumption DEF ToASCII
<1>2. ASSUME NEW r \in lookalikes[a]
      PROVE  ToASCII(r) = a /\ r # a /\ r \in Rune
  <2>1. \A b \in ASCII : r \in lookalikes[b] => b = a
    BY <1>2, TableAssumption
  <2>2. ToASCII(r) = a
    BY <1>2, <2>1 DEF ToASCII
  <2> QED
    BY <1>2, <2>2, TableAssumption, LookalikeAssumption
<1> QED
  BY <1>1, <1>2

LEMMA Starts == NameInit => Inv
<1> SUFFICES ASSUME NameInit PROVE Inv
  OBVIOUS
<1>1. word \in Word
  BY DEF NameInit
<1>2. NameTypeOK
  <2>1. runes \in [DOMAIN word -> Rune]
    BY <1>1, WordFacts DEF NameInit
  <2>2. i \in 1 .. MaxLength + 1
    BY LookalikeAssumption DEF NameInit
  <2> QED
    BY <1>1, <2>1, <2>2 DEF NameInit, NameTypeOK
<1>3. OnlyLookalikes /\ Progress /\ IsDisguised
  BY <1>1, WordFacts DEF NameInit, OnlyLookalikes, Progress, IsDisguised
<1> QED
  BY <1>2, <1>3 DEF Inv

(* One replacement: the rune is one of its letter's lookalikes then.       *)
LEMMA ReplaceFacts ==
  ASSUME Inv, word' = word, More, Mappable, Replace(i), runes[i] = ToLower[word[i]]
  PROVE  /\ i \in DOMAIN word
         /\ runes' \in [DOMAIN word -> Rune]
         /\ OnlyLookalikes'
         /\ runes'[i] # ToLower[word[i]]
         /\ \A k \in DOMAIN word : k # i => runes'[k] = runes[k]
<1>1. i \in DOMAIN word
  BY DEF Inv, NameTypeOK, More
<1>2. PICK r \in lookalikes[runes[i]] : runes' = [runes EXCEPT ![i] = r]
  BY DEF Replace
<1>3. r \in Rune /\ r # runes[i]
  BY <1>2, ToASCIIFacts DEF Mappable
<1>4. /\ runes' \in [DOMAIN word -> Rune]
      /\ runes'[i] = r
      /\ \A k \in DOMAIN word : k # i => runes'[k] = runes[k]
  BY <1>1, <1>2, <1>3 DEF Inv, NameTypeOK
<1>5. OnlyLookalikes'
  BY <1>1, <1>2, <1>4 DEF Inv, OnlyLookalikes, Mappable
<1> QED
  BY <1>1, <1>3, <1>4, <1>5

LEMMA FirstLoopKeeps == ASSUME Inv, FirstLoop PROVE Inv'
<1>1. /\ i \in DOMAIN word /\ i \in Nat /\ i' = i + 1 /\ i' \in 1 .. MaxLength + 1
      /\ runes[i] = ToLower[word[i]]
  <2>1. word \in Word /\ i \in DOMAIN word
    BY DEF Inv, NameTypeOK, FirstLoop, More
  <2>2. i \in 1 .. MaxLength
    BY <2>1, WordFacts, LookalikeAssumption
  <2> QED
    BY <2>1, <2>2, LookalikeAssumption DEF Inv, Progress, FirstLoop
<1>2. word' = word /\ loop' = loop /\ loop = "first"
  BY DEF FirstLoop
<1>3. \A k \in DOMAIN word : k \in Nat
  BY WordFacts DEF Inv, NameTypeOK
<1>4. CASE Mappable /\ Replace(i) /\ replaced' = TRUE
  <2>1. /\ runes' \in [DOMAIN word -> Rune]
        /\ OnlyLookalikes'
        /\ runes'[i] # ToLower[word[i]]
        /\ \A k \in DOMAIN word : k # i => runes'[k] = runes[k]
    BY <1>1, <1>2, <1>4, ReplaceFacts DEF FirstLoop
  <2>2. NameTypeOK'
    BY <1>1, <1>2, <1>4, <2>1 DEF Inv, NameTypeOK
  <2>3. Progress'
    BY <1>1, <1>2, <1>3, <1>4, <2>1 DEF Inv, Progress
  <2> QED
    BY <1>2, <2>1, <2>2, <2>3 DEF Inv, IsDisguised
<1>5. CASE UNCHANGED <<runes, replaced>>
  <2>1. NameTypeOK'
    BY <1>1, <1>2, <1>5 DEF Inv, NameTypeOK
  <2>2. OnlyLookalikes'
    BY <1>2, <1>5 DEF Inv, OnlyLookalikes
  <2>3. Progress'
    BY <1>1, <1>2, <1>3, <1>5 DEF Inv, Progress
  <2> QED
    BY <1>2, <2>1, <2>2, <2>3 DEF Inv, IsDisguised
<1> QED
  BY <1>4, <1>5 DEF FirstLoop

LEMMA FirstLoopEndsKeeps == ASSUME Inv, FirstLoopEnds PROVE Inv'
<1>1. /\ word' = word /\ runes' = runes /\ replaced' = replaced
      /\ loop = "first" /\ i' = 1 /\ loop' = IF replaced THEN "done" ELSE "second"
  BY DEF FirstLoopEnds, Again
<1>2. word \in Word /\ Lower(word) \in [DOMAIN word -> Rune]
      /\ \A k \in DOMAIN word : k \in Nat /\ Lower(word)[k] = ToLower[word[k]] /\ k >= 1
  <2>1. word \in Word
    BY DEF Inv, NameTypeOK
  <2> QED
    BY <2>1, WordFacts
<1>3. NameTypeOK' /\ OnlyLookalikes'
  BY <1>1, LookalikeAssumption DEF Inv, NameTypeOK, OnlyLookalikes
<1>4. Progress'
  BY <1>1, <1>2 DEF Inv, NameTypeOK, Progress
<1>5. IsDisguised'
  BY <1>1, <1>2 DEF Inv, NameTypeOK, Progress, IsDisguised
<1> QED
  BY <1>3, <1>4, <1>5 DEF Inv

LEMMA SecondLoopKeeps == ASSUME Inv, SecondLoop PROVE Inv'
<1>1. /\ word' = word /\ replaced' = replaced /\ replaced = FALSE /\ loop = "second"
      /\ \A k \in DOMAIN word : runes[k] = ToLower[word[k]]
      /\ \A k \in DOMAIN word : k < i => runes[k] \notin ASCII
  BY DEF SecondLoop, Inv, Progress, NameTypeOK
<1>2. /\ word \in Word /\ Lower(word) \in [DOMAIN word -> Rune] /\ i \in Nat
      /\ \A k \in DOMAIN word : k \in Nat /\ Lower(word)[k] = ToLower[word[k]]
  <2>1. word \in Word /\ i \in Nat
    BY LookalikeAssumption DEF Inv, NameTypeOK
  <2> QED
    BY <2>1, WordFacts
<1>3. CASE More /\ Mappable /\ Replace(i) /\ loop' = "done" /\ UNCHANGED i
  <2>1. i \in DOMAIN word
    BY <1>3 DEF Inv, NameTypeOK, More
  <2>2. /\ runes' \in [DOMAIN word -> Rune]
        /\ OnlyLookalikes'
        /\ runes'[i] # ToLower[word[i]]
    BY <1>1, <1>3, <2>1, ReplaceFacts
  <2>3. NameTypeOK' /\ Progress'
    BY <1>1, <1>3, <2>2 DEF Inv, NameTypeOK, Progress
  <2>4. IsDisguised'
    BY <1>1, <1>2, <2>1, <2>2 DEF IsDisguised, Lower
  <2> QED
    BY <2>2, <2>3, <2>4 DEF Inv
<1>4. CASE More /\ ~Mappable /\ i' = i + 1 /\ UNCHANGED <<runes, loop>>
  <2>1. i \in DOMAIN word
    BY <1>4 DEF Inv, NameTypeOK, More
  <2>2. i' \in 1 .. MaxLength + 1
    BY <1>2, <1>4, <2>1, WordFacts, LookalikeAssumption
  <2>3. NameTypeOK' /\ OnlyLookalikes'
    BY <1>1, <1>4, <2>2 DEF Inv, NameTypeOK, OnlyLookalikes
  <2>4. Progress'
    BY <1>1, <1>2, <1>4, <2>1 DEF Progress, Mappable
  <2> QED
    BY <1>1, <1>4, <2>3, <2>4 DEF Inv, IsDisguised
<1>5. CASE ~More /\ loop' = "done" /\ UNCHANGED <<runes, i>>
  <2>1. NameTypeOK' /\ OnlyLookalikes' /\ Progress'
    BY <1>1, <1>5 DEF Inv, NameTypeOK, OnlyLookalikes, Progress
  <2>2. \A k \in DOMAIN word : k < i
    BY <1>2, <1>5, WordFacts DEF Inv, NameTypeOK, More
  <2>3. IsDisguised'
    BY <1>1, <1>5, <2>2 DEF IsDisguised
  <2> QED
    BY <2>1, <2>3 DEF Inv
<1> QED
  BY <1>3, <1>4, <1>5 DEF SecondLoop

LEMMA NextKeeps == Inv /\ [NameNext]_nameVars => Inv'
<1> SUFFICES ASSUME Inv, [NameNext]_nameVars PROVE Inv'
  OBVIOUS
<1>1. CASE UNCHANGED nameVars
  BY <1>1 DEF Inv, NameTypeOK, OnlyLookalikes, Progress, IsDisguised, Lower, nameVars
<1> QED
  BY <1>1, FirstLoopKeeps, FirstLoopEndsKeeps, SecondLoopKeeps DEF NameNext, Returned

THEOREM Invariance == NameSpec => []Inv
BY Starts, NextKeeps, PTL DEF NameSpec

-----------------------------------------------------------------------------
(* Words and runes keep their types through both loops of obfuscate. *)
THEOREM NameTypeCorrect == NameSpec => []NameTypeOK
<1>1. Inv => NameTypeOK
  BY DEF Inv
<1> QED
  BY <1>1, Invariance, PTL

(* Every rune of the name is the word's or a lookalike of it. *)
THEOREM OnlyLookalikesAlways == NameSpec => []OnlyLookalikes
<1>1. Inv => OnlyLookalikes
  BY DEF Inv
<1> QED
  BY <1>1, Invariance, PTL

(* obfuscate returns a name that differs from the word in lower case.      *)
THEOREM Disguised == NameSpec => []IsDisguised
<1>1. Inv => IsDisguised
  BY DEF Inv
<1> QED
  BY <1>1, Invariance, PTL

(* onGuildJoin finds the channel by normalize that obfuscate named.        *)
THEOREM Undone == NameSpec => []NormalizesBack
<1>1. Inv => NormalizesBack
  <2> SUFFICES ASSUME Inv PROVE NormalizesBack
    OBVIOUS
  <2>1. DOMAIN runes = DOMAIN word /\ word \in Word
    BY DEF Inv, NameTypeOK
  <2>2. ASSUME NEW k \in DOMAIN word
        PROVE  ToASCII(ToLower[runes[k]]) = ToASCII(ToLower[word[k]])
    <3> DEFINE r == ToLower[word[k]]
    <3>1. word[k] \in Rune /\ r \in Rune
      BY <2>1, WordFacts
    <3>2. ToLower[r] = r
      BY <3>1, TableAssumption
    <3>3. CASE runes[k] = r
      BY <3>2, <3>3
    <3>4. CASE r \in ASCII /\ runes[k] \in lookalikes[r]
      <4>1. ToLower[runes[k]] = runes[k]
        BY <3>4, TableAssumption
      <4> QED
        BY <3>4, <4>1, ToASCIIFacts
    <3> QED
      BY <3>3, <3>4 DEF Inv, OnlyLookalikes
  <2> QED
    BY <2>1, <2>2 DEF NormalizesBack, normalize
<1> QED
  BY <1>1, Invariance, PTL

-----------------------------------------------------------------------------
(* Until the fix is made or found needless, the listing is what there is,  *)
(* unless people have edited the channel since.                            *)
ListingIsCurrent ==
    at \in {"look", "member", "grant"} /\ ~edited => seen = overwrite

SetupInv == ListingIsCurrent /\ DenialIsLifted

-----------------------------------------------------------------------------
LEMMA SetupStarts == Init => SetupInv
BY DEF Init, SetupInv, ListingIsCurrent, DenialIsLifted

(* The actions of people and of Discord that leave the handler where it is *)
(* either set edited or leave the overwrite alone.                         *)
LEMMA PeopleKeep ==
  ASSUME SetupInv,
         \/ IntroTimer \/ DeleteIntro
         \/ \E o \in Overwrite : Proper(o) /\ EditOverwrite(o)
         \/ \E d \in SUBSET Permission : EditDefault(d)
         \/ EditBot \/ Stop
  PROVE  SetupInv'
<1>1. CASE IntroTimer
  BY <1>1 DEF SetupInv, ListingIsCurrent, DenialIsLifted, IntroTimer,
     discord, DenyOf
<1>2. CASE DeleteIntro
  BY <1>2 DEF SetupInv, ListingIsCurrent, DenialIsLifted, DeleteIntro,
     DenyOf
<1>3. CASE \E o \in Overwrite : Proper(o) /\ EditOverwrite(o)
  BY <1>3 DEF SetupInv, ListingIsCurrent, DenialIsLifted, EditOverwrite
<1>4. CASE \E d \in SUBSET Permission : EditDefault(d)
  BY <1>4 DEF SetupInv, ListingIsCurrent, DenialIsLifted, EditDefault
<1>5. CASE EditBot
  BY <1>5 DEF SetupInv, ListingIsCurrent, DenialIsLifted, EditBot,
     message, DenyOf
<1>6. CASE Stop
  BY <1>6 DEF SetupInv, ListingIsCurrent, DenialIsLifted, Stop
<1> QED
  BY <1>1, <1>2, <1>3, <1>4, <1>5, <1>6

(* A denial of what is needed makes MustFix true, and Grant lifts it. *)
LEMMA HandlerKeeps == SetupInv /\ Step => SetupInv'
<1> SUFFICES ASSUME SetupInv, Step PROVE SetupInv'
  OBVIOUS
<1> USE DEF SetupInv, ListingIsCurrent, DenialIsLifted, discord, DenyOf
<1>1. CASE GetGuildChannels
  BY <1>1 DEF GetGuildChannels
<1>2. CASE Look
  BY <1>2 DEF Look, MustFix
<1>3. CASE BotPermissions
  BY <1>3 DEF BotPermissions
<1>4. CASE UpdatePermissionOverwrite
  BY <1>4 DEF UpdatePermissionOverwrite, Grant
<1>5. CASE Settle
  BY <1>5 DEF Settle
<1>6. CASE CreateIntro
  BY <1>6 DEF CreateIntro
<1> QED
  BY <1>1, <1>2, <1>3, <1>4, <1>5, <1>6 DEF Step

LEMMA SetupKeeps == SetupInv /\ [Next]_vars => SetupInv'
<1> SUFFICES ASSUME SetupInv, [Next]_vars PROVE SetupInv'
  OBVIOUS
<1>1. CASE UNCHANGED vars
  BY <1>1 DEF SetupInv, ListingIsCurrent, DenialIsLifted, vars, DenyOf
<1> QED
  BY <1>1, PeopleKeep, HandlerKeeps DEF Next, Rest

(* Once ensureEveryoneCanSeeChannel is over, the channel's own overwrite   *)
(* denies @everyone neither View Channel nor Send Messages, whatever the   *)
(* listing showed, unless a call failed or people edited the channel.      *)
THEOREM DenialLifted == Spec => []DenialIsLifted
<1>1. SetupInv => DenialIsLifted
  BY DEF SetupInv
<1> QED
  BY <1>1, SetupStarts, SetupKeeps, PTL DEF Spec

-----------------------------------------------------------------------------
LEMMA SetupTypeStarts == Init => TypeOK
<1> SUFFICES ASSUME Init PROVE TypeOK
  OBVIOUS
<1>1. None \in MaybeOverwrite
  BY DEF MaybeOverwrite
<1>2. overwrite \in MaybeOverwrite
  BY DEF Init
<1>3. default \subseteq Permission /\ entitled \in BOOLEAN /\ seen = None
  BY DEF Init
<1>4. at \in Stage /\ changes \in 0 .. MaxChanges
  BY SetupAssumption DEF Init, Stage
<1>5. intro = "none" /\ timer = "none" /\ edited = FALSE /\ failed = {}
  BY DEF Init
<1> QED
  BY <1>1, <1>2, <1>3, <1>4, <1>5 DEF TypeOK

LEMMA GrantIsOverwrite ==
  ASSUME Needed \subseteq Permission, NEW o \in MaybeOverwrite
  PROVE  /\ Grant(o) \in Overwrite
         /\ Grant(o).allow = AllowOf(o) \union Needed
         /\ Grant(o).deny = DenyOf(o) \ Needed
BY DEF Grant, AllowOf, DenyOf, MaybeOverwrite, Overwrite

LEMMA SetupTypeKept == TypeOK /\ [Next]_vars => TypeOK'
<1> SUFFICES ASSUME TypeOK, [Next]_vars
             PROVE  TypeOK'
  OBVIOUS
<1> USE SetupAssumption DEF TypeOK, Stage, discord, message
<1>1. CASE GetGuildChannels
  BY <1>1 DEF GetGuildChannels
<1>2. CASE Look
  BY <1>2 DEF Look
<1>3. CASE BotPermissions
  BY <1>3 DEF BotPermissions
<1>4. CASE UpdatePermissionOverwrite
  <2>1. Grant(seen) \in MaybeOverwrite
    BY GrantIsOverwrite DEF MaybeOverwrite
  <2> QED
    BY <1>4, <2>1 DEF UpdatePermissionOverwrite
<1>5. CASE Settle
  BY <1>5 DEF Settle
<1>6. CASE CreateIntro
  BY <1>6 DEF CreateIntro
<1>7. CASE IntroTimer
  BY <1>7 DEF IntroTimer, DeletesIntro
<1>8. CASE DeleteIntro
  BY <1>8 DEF DeleteIntro, Intervene
<1>9. CASE \E o \in Overwrite : Proper(o) /\ EditOverwrite(o)
  BY <1>9 DEF EditOverwrite, Intervene, MaybeOverwrite
<1>10. CASE \E d \in SUBSET Permission : EditDefault(d)
  BY <1>10 DEF EditDefault, Intervene
<1>11. CASE EditBot
  BY <1>11 DEF EditBot, Intervene
<1>12. CASE Stop
  BY <1>12 DEF Stop, Intervene
<1>13. CASE UNCHANGED vars
  BY <1>13 DEF vars
<1> QED
  BY <1>1, <1>2, <1>3, <1>4, <1>5, <1>6, <1>7, <1>8, <1>9, <1>10, <1>11, <1>12, <1>13
     DEF Next, Step, Rest

(* The channel's overwrite and the handler's copy of it stay overwrites of *)
(* the guild's permissions, or none.                                       *)
THEOREM TypeCorrect == Spec => []TypeOK
<1>1. Init => TypeOK
  BY SetupTypeStarts
<1>2. TypeOK /\ [Next]_vars => TypeOK'
  BY SetupTypeKept
<1> QED
  BY <1>1, <1>2, PTL DEF Spec

(* The request replaces the whole overwrite by one made of the one seen:   *)
(* what it gives and leaves is what is needed and what everybody had.      *)
LEMMA FixedEffect ==
  ASSUME TypeOK, SetupInv,
         UpdatePermissionOverwrite, overwrite' # overwrite
  PROVE  LET old == Effective(default, overwrite)
             new == Effective(default', overwrite')
         IN  Needed \subseteq new /\ (~edited => new = old \union Needed)
<1>1. overwrite' = Grant(seen) /\ default' = default
  BY DEF UpdatePermissionOverwrite
<1>2. /\ Grant(seen) \in Overwrite
      /\ Grant(seen).allow = AllowOf(seen) \union Needed
      /\ Grant(seen).deny = DenyOf(seen) \ Needed
  BY GrantIsOverwrite, SetupAssumption DEF TypeOK
<1>3. Effective(default', overwrite')
        = (default \ (DenyOf(seen) \ Needed)) \union (AllowOf(seen) \union Needed)
  <2>1. Grant(seen) # None
    BY <1>2, NoneAssumption
  <2> QED
    BY <1>1, <1>2, <2>1 DEF Effective, AllowOf, DenyOf
<1>4. ~edited => seen = overwrite
  BY DEF UpdatePermissionOverwrite, SetupInv, ListingIsCurrent
<1>5. Effective(default, overwrite)
        = (default \ DenyOf(overwrite)) \union AllowOf(overwrite)
  BY DEF Effective
<1> QED
  BY <1>3, <1>4, <1>5

(* The fix gives @everyone what is needed, on top of whatever overwrite    *)
(* was listed, and if nobody edited the channel since, nothing else that   *)
(* everybody may do or may not do there changes.                           *)
THEOREM FixIsMinimal == Spec => FixGivesTheNeeded
<1>1. TypeOK /\ SetupInv =>
        [UpdatePermissionOverwrite /\ overwrite' # overwrite =>
          LET old == Effective(default, overwrite)
              new == Effective(default', overwrite')
          IN  /\ Needed \subseteq new
              /\ ~edited => new = old \union Needed]_(vars)
  BY FixedEffect
<1> QED
  BY <1>1, TypeCorrect, SetupStarts, SetupKeeps, PTL
     DEF Spec, FixGivesTheNeeded

-----------------------------------------------------------------------------
(* A handler that has yet to post has posted nothing and started no timer. *)
IntroInv ==
    /\ at \in Stage \ {"done", "aborted"} => intro = "none" /\ timer = "none"
    /\ intro = "posted" => timer = "waiting" \/ failed \intersect {"intro", "timer"} # {}

LEMMA IntroStep == IntroInv /\ [Next]_vars => IntroInv'
<1> SUFFICES ASSUME IntroInv, [Next]_vars PROVE IntroInv'
  OBVIOUS
<1> USE DEF IntroInv, Stage, discord, message
<1>1. CASE GetGuildChannels
  BY <1>1 DEF GetGuildChannels
<1>2. CASE Look
  BY <1>2 DEF Look
<1>3. CASE BotPermissions
  BY <1>3 DEF BotPermissions
<1>4. CASE UpdatePermissionOverwrite
  BY <1>4 DEF UpdatePermissionOverwrite
<1>5. CASE Settle
  BY <1>5 DEF Settle
<1>6. CASE CreateIntro
  BY <1>6 DEF CreateIntro
<1>7. CASE IntroTimer
  <2>1. timer = "waiting" /\ at' = at
    BY <1>7 DEF IntroTimer
  <2>2. intro' = "gone" \/ failed' \intersect {"intro", "timer"} # {}
    BY <1>7 DEF IntroTimer, DeletesIntro
  <2> QED
    BY <2>1, <2>2
<1>8. CASE DeleteIntro
  BY <1>8 DEF DeleteIntro
<1>9. CASE \E o \in Overwrite : Proper(o) /\ EditOverwrite(o)
  BY <1>9 DEF EditOverwrite
<1>10. CASE \E d \in SUBSET Permission : EditDefault(d)
  BY <1>10 DEF EditDefault
<1>11. CASE EditBot
  BY <1>11 DEF EditBot
<1>12. CASE Stop
  BY <1>12 DEF Stop
<1>13. CASE UNCHANGED vars
  BY <1>13 DEF vars
<1> QED
  BY <1>1, <1>2, <1>3, <1>4, <1>5, <1>6, <1>7, <1>8, <1>9, <1>10, <1>11, <1>12, <1>13
     DEF Next, Step, Rest

(* An introduction that is still there has a goroutine that will delete it *)
(* unless the answer to posting it was lost, its deletion failed, or the   *)
(* bot was stopped while the goroutine waited: whoever deletes it          *)
(* meanwhile.  For IntroGoes there remains that a waiting timer fires.     *)
THEOREM IntroIsTended ==
    Spec => [](intro = "posted" =>
                  timer = "waiting" \/ failed \intersect {"intro", "timer"} # {})
<1>1. Init => IntroInv
  BY DEF Init, IntroInv
<1>2. IntroInv =>
        (intro = "posted" => timer = "waiting" \/ failed \intersect {"intro", "timer"} # {})
  BY DEF IntroInv
<1> QED
  BY <1>1, <1>2, IntroStep, PTL DEF Spec
=============================================================================
