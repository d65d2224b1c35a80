SPECIFICATION Spec
CONSTANTS
    Peer = {h, s}
    Honest = {h}
    MaxHeight = 3
    Start = 2
    MaxPerPeer = 1
    Window = 2
    MaxOrphans = 2
    StallChecks = 1
    TimeoutChecks = 2
    ExpireChecks = 3
    AnswerChecks = 1
    MaxBreaks = 1
    None = None
    Gone = Gone
INVARIANTS
    DownloadTypeOK
    RequestIsReal
PROPERTIES
    RequestEnds
    ReportedIsReached
