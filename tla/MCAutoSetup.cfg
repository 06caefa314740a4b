CONSTANTS
    view = view send = send other = other
    Permission = {view, send, other}
    Needed = {view, send}
    None = None
    MaxChanges = 2
SPECIFICATION FairSpec
INVARIANT DenialIsLifted
PROPERTIES FixGivesTheNeeded IntroGoes
