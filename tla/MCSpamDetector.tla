--------------------------- MODULE MCSpamDetector ---------------------------
EXTENDS SpamDetector, TLC

CONSTANTS u1, u2, p1, c1, c2, c3, m1, m2, m3, m4, m5

(* u1 posts the same images in three channels, and u2, who is exempt,      *)
(* posts them in two.                                                      *)
Blast == {m1, m2, m3, m4, m5}
BlastAuthor == [m \in Blast |-> IF m \in {m4, m5} THEN u2 ELSE u1]
BlastPlace == m1 :> c1 @@ m2 :> c2 @@ m3 :> c3 @@ m4 :> c1 @@ m5 :> c2
BlastPrint == [m \in Blast |-> p1]
=============================================================================
