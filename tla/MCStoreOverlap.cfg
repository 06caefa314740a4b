CONSTANTS
    p1 = p1 p2 = p2 g1 = g1 g2 = g2 c1 = c1 c2 = c2 c3 = c3 w1 = w1 w2 = w2 w3 = w3
    Proc = {p1, p2}
    Guild = {g1, g2}
    Channel = {c1, c2, c3}
    Msg = {w1, w2, w3}
    Owner <- MCOwner
    Home <- MCHome
    LogChannel = {l1}
    Action = {"softban"}
    Nil = Nil
    NoRow = NoRow
    Idle = Idle
    MaxEvents = 1
SYMMETRY Symmetry
SPECIFICATION Spec
INVARIANT MirrorIsWriteThrough
