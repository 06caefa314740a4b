CONSTANTS
    p1 = p1 p2 = p2 c1 = c1 c2 = c2
    Proc = {p1, p2}
    Channel = {c1, c2}
    Nil = Nil
    NoRow = NoRow
    Page = 2
    Fault = {"fails", "lost"}
    Home = c1
    MaxPosts = 3
    MaxBans = 1
    MaxFaults = 1
    MaxChanges = 2
SPECIFICATION Spec
INVARIANTS OnlyOwnWarnings TypeOK SoloCallRepairs CleaningKeepsOne
SYMMETRY Symmetric
