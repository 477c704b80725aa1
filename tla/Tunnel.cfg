\* Every channel holds one chunk.  The application goes and the link breaks, or the link
\* breaks and the target goes, in either order or only one of them.
CONSTANTS
    TxCap = 1
    ChCap = 1
    MaxUp = 3
    MaxDown = 3
    Slices = 2
    Endings = {{"app", "link"}, {"link", "target"}}
SPECIFICATION Spec
INVARIANTS TypeOK 
PROPERTIES UpIsByteStream DownIsByteStream
\* A tunnel comes to its end.
CHECK_DEADLOCK FALSE
