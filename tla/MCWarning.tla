------------------------------ MODULE MCWarning ------------------------------
EXTENDS Warning, TLC

CONSTANTS p1, p2, c1, c2

Symmetric == Permutations({p1, p2})
=============================================================================
