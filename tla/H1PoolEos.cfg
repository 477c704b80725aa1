\* One trunk, one write, and the client is closed.
CONSTANTS
    NTrunks = 1
    d1 = d1
    Clients = {d1}
    NoClient = NoClient
    WireCap = 2
    MaxWrites = 1
    MaxPings = 0
    Closers = {d1}
    ReplyCap = 1
    MaxReplies = 1
SPECIFICATION FairSpec
PROPERTY EosClosesInstance
\* The run ends when the bounds are used up and nobody has anything to say.
CHECK_DEADLOCK FALSE
