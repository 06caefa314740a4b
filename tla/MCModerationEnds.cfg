CONSTANTS
    u1 = u1 u2 = u2 m1 = m1 m2 = m2 m3 = m3 c1 = c1 c2 = c2
    Message <- Pair
    User = {u1}
    Channel = {c1, c2}
    Author <- PairAuthor
    Place <- PairPlace
    Crossing = {m2}
    Exempt = {}
    Settings <- MCSettings
    NoConfig = NoConfig
    Nil = Nil
    Attempts = 3
    Fault = {"transient", "lost", "permanent"}
    Overrun = TRUE
    MaxChanges = 1
SPECIFICATION FairSpec
PROPERTIES EveryModerationEnds ImplementsLock
