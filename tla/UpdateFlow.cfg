SPECIFICATION FairSpec
CONSTANTS
    h1 = h1
    h2 = h2
    Newest = 2
    Handlers = {h1, h2}
    MaxDownloads = 2
    MaxStarts = 1
INVARIANTS
    ReadyIsWhole
PROPERTIES
    InstalledIsVerified
    UpdatesForward
    FlowSettles
