----------------------------- MODULE MCTTLCache -----------------------------
EXTENDS TTLCache

MCVal == 0 .. 1
MCTtl == {0, 1}
(* the two shapes of callback the code passes: grow the value, keep it *)
MCFn == {[v \in MCVal |-> 1], [v \in MCVal |-> v]}
=============================================================================
