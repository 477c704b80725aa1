CONSTANTS
    WireCap = 1
    Pads = {2, 255}
    UpSizes <- MCUpSizes
    DownSizes <- MCDownSizes
    ClientPsk = "psk"
    ServerPsks = {"psk", "other"}
    BufferSize = 65536
SPECIFICATION Spec
INVARIANTS TypeOK KeysAgree UpIsStream DownIsStream
PROPERTIES WriteTaken CloseEndsRelay
\* A connection comes to its end.
CHECK_DEADLOCK FALSE
