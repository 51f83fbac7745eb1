CONSTANTS
    Users = {alice}
    Hosts = {h1, h2}
    Keys = {k1}
    Templates = {default, own}
    DefaultTemplate = default
    TemplateTexts <- MCTexts
    HostEntries <- MCEntries
    GlobOrder <- MCGlobOrder
    Unlisted = unlisted
    Broken = broken
    Self = self
    DaySeconds = 2
    alice = alice
    bob = bob
    h1 = h1
    h2 = h2
    k1 = k1
    k2 = k2
    MaxClock = 1
    MaxEdits = 2
SPECIFICATION MCSpec
INVARIANTS TypeOK UserCertFollowsFiles IntervalFromRequest HostKeyConfirmed ScanSound
