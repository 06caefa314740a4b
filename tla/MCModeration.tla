---------------------------- MODULE MCModeration ----------------------------
EXTENDS Moderation, TLC

CONSTANTS u1, u2, m1, m2, m3, c1, c2

(* u1 blasts: m1 into c1, the honeypot at first, and m2, the sighting that *)
(* reaches the threshold, into c2; u2, an administrator, posts in c1.      *)
MCAuthor == m1 :> u1 @@ m2 :> u1 @@ m3 :> u2
MCPlace == m1 :> c1 @@ m2 :> c2 @@ m3 :> c1

Pair == {m1, m2}
PairAuthor == m1 :> u1 @@ m2 :> u1
PairPlace == m1 :> c1 @@ m2 :> c2

SoftbanTo(c) == [action |-> "softban", log |-> c, spam |-> TRUE]
BanTo(c) == [action |-> "ban", log |-> c, spam |-> TRUE]
Off == [action |-> "disabled", log |-> Nil, spam |-> FALSE]

MCSettings == {SoftbanTo(c2), BanTo(Nil), Off}

(* An administrator moves the log from one channel to another. *)
TwoLogs == {SoftbanTo(c1), SoftbanTo(c2)}
=============================================================================
