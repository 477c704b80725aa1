\* One reader, as every buffer of the program has, and two writers.
CONSTANTS
    r1 = r1
    w1 = w1
    w2 = w2
    Readers = {r1}
    Writers = {w1, w2}
    NoReader = NoReader
    ReadSizes <- MCReadSizes
    WriteSizes <- MCWriteSizes
    BufSize = 2
    BufSizeMax = 4
    MaxBytes = 6
SPECIFICATION Spec
INVARIANTS TypeOK StreamOrder OnlyEmptyWriteDeadlocks
PROPERTIES WokenReturns IsByteStream
\* A reader may sleep for ever when nobody writes any more.
CHECK_DEADLOCK FALSE
