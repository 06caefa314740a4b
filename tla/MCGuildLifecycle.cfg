CONSTANTS
    p1 = p1 p2 = p2 p3 = p3 c1 = c1 c2 = c2 c3 = c3
    Proc = {p1, p2, p3}
    Channel = {c1, c2, c3}
    Named = {c2, c3}
    Present = {c1, c2}
    NoConfig = NoConfig
    Nil = Nil
    MaxEvents = 6
SYMMETRY Symmetric
SPECIFICATION Spec
INVARIANTS TypeOK MembershipSettles GoneIsDeregistered
PROPERTIES OnlyGoneIsRemoved ChoiceSurvivesJoin
