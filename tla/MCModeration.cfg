CONSTANTS
    u1 = u1 u2 = u2 m1 = m1 m2 = m2 m3 = m3 c1 = c1 c2 = c2
    Message = {m1, m2, m3}
    User = {u1, u2}
    Channel = {c1, c2}
    Author <- MCAuthor
    Place <- MCPlace
    Crossing = {m2}
    Exempt = {u2}
    Settings <- MCSettings
    NoConfig = NoConfig
    Nil = Nil
    Attempts = 2
    Fault = {"transient", "lost", "permanent"}
    Overrun = FALSE
    MaxChanges = 1
SPECIFICATION Spec
INVARIANTS TypeOK GuardIsLock TroubleIsReported BansAreEarned
