\* Two trunks and two writes.
CONSTANTS
    NTrunks = 2
    d1 = d1
    Clients = {d1}
    NoClient = NoClient
    WireCap = 2
    MaxWrites = 2
    MaxPings = 0
    Closers = {}
    ReplyCap = 1
    MaxReplies = 0
SPECIFICATION Spec
INVARIANT InOrder
\* The run ends when the bounds are used up and nobody has anything to say.
CHECK_DEADLOCK FALSE
