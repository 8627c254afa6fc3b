CONSTANTS
    Passwd <- MCPasswd
    Names <- MCNames
    Starts <- MCStarts
    NumFds = 3
    Originals <- MCOriginals
    fake_packet = TRUE
SPECIFICATION Spec
INVARIANTS
    NeverHalfDropped
    DropReportsTruth
    SocketsAreOwned
    SentThroughItsSocket
