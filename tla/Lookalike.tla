----------------------------- MODULE Lookalike -----------------------------
(***************************************************************************)
(* internal/bot/lookalike.go: obfuscate, which names the honeypot channel, *)
(* and normalize, by which it is found again.  A step of the machine is    *)
(* one turn of a loop of obfuscate; the random generator is a choice.      *)
(***************************************************************************)
EXTENDS Integers, Sequences

CONSTANTS
    Rune,
    ASCII,              \* the letters with lookalikes
    lookalikes,         \* per such letter, its lookalikes
    ToLower,            \* strings.ToLower, rune by rune
    MaxLength           \* bound on the words tried

ASSUME LookalikeAssumption ==
    /\ ASCII \subseteq Rune
    /\ lookalikes \in [ASCII -> (SUBSET Rune) \ {{}}]
    /\ ToLower \in [Rune -> Rune]
    /\ MaxLength \in Nat

(* What the table must have for normalize to undo obfuscate: no rune looks *)
(* like two letters, no letter like another, and nothing in it is upper    *)
(* case.                                                                   *)
ASSUME TableAssumption ==
    /\ \A a, b \in ASCII : a # b => lookalikes[a] \intersect lookalikes[b] = {}
    /\ \A a \in ASCII : lookalikes[a] \intersect ASCII = {}
    /\ \A a \in ASCII : \A r \in lookalikes[a] : ToLower[r] = r
    /\ \A r \in Rune : ToLower[ToLower[r]] = ToLower[r]

VARIABLES
    word,       \* the string given to obfuscate
    runes,      \* its local variables: the runes,
    i,          \* the index the loop is at,
    replaced,   \* whether one was replaced,
    loop        \* and which loop it is in: "first", "second", "done"

nameVars == <<word, runes, i, replaced, loop>>

Word == UNION {[1 .. n -> Rune] : n \in 0 .. MaxLength}

Lower(w) == [k \in DOMAIN w |-> ToLower[w[k]]]

(* normalizeMap, and a rune that is not in it as it is *)
ToASCII(r) ==
    IF \E a \in ASCII : r \in lookalikes[a]
    THEN CHOOSE a \in ASCII : r \in lookalikes[a] ELSE r

normalize(w) == [k \in DOMAIN w |-> ToASCII(ToLower[w[k]])]

NameTypeOK ==
    /\ word \in Word
    /\ runes \in [DOMAIN word -> Rune]
    /\ i \in 1 .. MaxLength + 1
    /\ replaced \in BOOLEAN
    /\ loop \in {"first", "second", "done"}

NameInit ==
    /\ word \in Word
    /\ runes = Lower(word)
    /\ i = 1
    /\ replaced = FALSE
    /\ loop = "first"

-----------------------------------------------------------------------------
More == i \in DOMAIN runes
Mappable == runes[i] \in ASCII

(* mutants: a byte of a lookalike, any letter's lookalike *)
ReplaceByByte(k) == runes' = [runes EXCEPT ![k] = "U+FFFD"]
ReplaceByAny(k) ==
    \E a \in ASCII : \E r \in lookalikes[a] : runes' = [runes EXCEPT ![k] = r]

Replace(k) == \E r \in lookalikes[runes[k]] : runes' = [runes EXCEPT ![k] = r]

(* rng.Float64() < 0.3 comes out either way. *)
FirstLoop ==
    /\ loop = "first"
    /\ More
    /\ \/ Mappable /\ Replace(i) /\ replaced' = TRUE
       \/ UNCHANGED <<runes, replaced>>
    /\ i' = i + 1
    /\ UNCHANGED <<word, loop>>

(* mutant: no second loop *)
NeverAgain == "done"

Again == IF replaced THEN "done" ELSE "second"

FirstLoopEnds ==
    /\ loop = "first"
    /\ ~More
    /\ loop' = Again
    /\ i' = 1
    /\ UNCHANGED <<word, runes, replaced>>

(* "guaranteeing at least one replacement": the first rune that has any *)
SecondLoop ==
    /\ loop = "second"
    /\ \/ More /\ Mappable /\ Replace(i) /\ loop' = "done" /\ UNCHANGED i
       \/ More /\ ~Mappable /\ i' = i + 1 /\ UNCHANGED <<runes, loop>>
       \/ ~More /\ loop' = "done" /\ UNCHANGED <<runes, i>>
    /\ UNCHANGED <<word, replaced>>

Returned == loop = "done" /\ UNCHANGED nameVars

NameNext == FirstLoop \/ FirstLoopEnds \/ SecondLoop \/ Returned

NameSpec == NameInit /\ [][NameNext]_nameVars

-----------------------------------------------------------------------------
(* The bot finds the channel it made: at every turn the name normalizes to *)
(* what the word given does.                                               *)
NormalizesBack == normalize(runes) = normalize(word)

(* A blacklist of the literal word does not match the name: it differs     *)
(* from the word in lower case, if any of its letters has a lookalike.     *)
IsDisguised ==
    loop = "done" /\ (\E k \in DOMAIN word : ToLower[word[k]] \in ASCII)
        => runes # Lower(word)

(* What is replaced once is not replaced again: each rune is the word's in *)
(* lower case or a lookalike of it.                                        *)
OnlyLookalikes ==
    \A k \in DOMAIN word :
        LET r == ToLower[word[k]]
        IN  runes[k] = r \/ (r \in ASCII /\ runes[k] \in lookalikes[r])
=============================================================================
