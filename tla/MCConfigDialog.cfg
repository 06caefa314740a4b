CONSTANTS
    d1 = d1 d2 = d2 trap = trap log = log poster = poster banner = banner
    Dialog = {d1, d2}
    Channel = {trap, log}
    Role = {poster, banner}
    Submission <- MCAnySubmission
    Malformed = Malformed
    Grants <- MCGrants
    Nil = Nil
    TTL = 1
    Patience = 0
    Fault = {"rest", "database", "lost"}
    MaxTime = 2
    MaxChanges = 1

SPECIFICATION FairSpec
INVARIANTS SavedOnHeldPermissions RefusedOnLackedPermissions RefusalIsTrue
PROPERTY EveryDialogIsAnswered
