\* One trunk whose reply channel is filled by a session and the pongs.
CONSTANTS
    NTrunks = 1
    d1 = d1
    Clients = {d1}
    NoClient = NoClient
    WireCap = 1
    MaxWrites = 1
    MaxPings = 1
    Closers = {d1}
    ReplyCap = 2
    MaxReplies = 3
SPECIFICATION FairSpec
PROPERTIES TrunkDrains ReplySent
\* The run ends when the bounds are used up and nobody has anything to say.
CHECK_DEADLOCK FALSE
