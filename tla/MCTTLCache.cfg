CONSTANTS
    Key = {k1, k2, k3}
    Val <- MCVal
    Zero = 0
    Ttl <- MCTtl
    Fn <- MCFn
    MaxTime = 3
    SweepInterval = 3
SPECIFICATION Spec
INVARIANTS TypeOK GarbageBounded
PROPERTY ImplementsTTLMap
