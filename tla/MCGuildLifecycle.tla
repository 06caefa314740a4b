-------------------------- MODULE MCGuildLifecycle --------------------------
EXTENDS GuildLifecycle, TLC

CONSTANTS p1, p2, p3, c1, c2, c3

Symmetric == Permutations(Proc)
=============================================================================
