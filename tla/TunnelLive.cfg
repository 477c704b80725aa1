\* Enough chunks to fill every channel of the ring both ways at once.
CONSTANTS
    TxCap = 1
    ChCap = 1
    MaxUp = 5
    MaxDown = 4
    Slices = 2
    Endings = {{}}
SPECIFICATION Spec
PROPERTY BothWaysFlow
\* Both sides have a bound on what they send.
CHECK_DEADLOCK FALSE
