CONSTANTS
    u1 = u1 u2 = u2 p1 = p1 c1 = c1 c2 = c2 c3 = c3
    m1 = m1 m2 = m2 m3 = m3 m4 = m4 m5 = m5
    Message <- Blast
    User = {u1, u2}
    Images = {p1}
    Channel = {c1, c2, c3}
    Author <- BlastAuthor
    Place <- BlastPlace
    Fingerprint <- BlastPrint
    TooFew = TooFew
    Exempt = {u2}
    Window = 1
    Threshold = 2
    Hold = 0
    MaxTime = 2
    MaxChanges = 1
SPECIFICATION Spec
INVARIANTS TypeOK SightingsAreFresh EvidenceSuffices BlastIsMet ExclusiveUnlessLate
PROPERTY ImplementsLock
