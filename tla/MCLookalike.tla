---------------------------- MODULE MCLookalike ----------------------------
(* The table of the code, and words over a few runes of it: Cyrillic and   *)
(* Greek lookalikes are named by their letter.                             *)
EXTENDS Lookalike

MCLookalikes ==
    [a |-> {"cyr a", "alpha"}, c |-> {"cyr es"}, e |-> {"cyr ie", "epsilon"},
     h |-> {"cyr shha"}, i |-> {"cyr i"}, n |-> {"arm vo"},
     o |-> {"cyr o", "omicron"}, p |-> {"cyr er"}, s |-> {"cyr dze"},
     t |-> {"cyr te"}, x |-> {"cyr ha"}, y |-> {"cyr u"}]

MCASCII == DOMAIN MCLookalikes

(* upper case letters of each kind, and a letter without lookalikes *)
MCUpper == [E |-> "e", Z |-> "z", Omicron |-> "omicron"]

MCRune ==
    MCASCII \union UNION {MCLookalikes[a] : a \in MCASCII} \union DOMAIN MCUpper \union {"z"}

MCToLower == [r \in MCRune |-> IF r \in DOMAIN MCUpper THEN MCUpper[r] ELSE r]
=============================================================================
