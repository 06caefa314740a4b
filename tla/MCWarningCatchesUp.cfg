CONSTANTS
    p1 = p1 p2 = p2 c1 = c1 c2 = c2
    Proc = {p1, p2}
    Channel = {c1}
    Nil = Nil
    NoRow = NoRow
    Page = 3
    Fault = {"fails"}
    Home = c1
    MaxPosts = 4
    MaxBans = 1
    MaxFaults = 1
    MaxChanges = 1
SPECIFICATION FairSpec
PROPERTY CatchesUp
