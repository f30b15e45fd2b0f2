\* Four messages, of which one is an empty line, every chunking, disconnects
\* anywhere, two calls at a time.  With the newline the second message fills the
\* buffer: it is reset or not, as the chunks fall.
SPECIFICATION SessionSpec
CONSTANTS
    Writers = {w1, w2}
    NL <- MCNL
    Bytes <- MCBytes
    MaxFrameBufferBytes = 4
    Packets <- MessageLines
    Chunks <- MCChunks
    Size <- Sizes
    MTU = 3
INVARIANTS
    Lossless
    DispatchedOnce
    PacketsAreMessages
    ErrorsExplained
    LossExplained
PROPERTIES
    MessagesDispatched
\* Everything may have been written.
CHECK_DEADLOCK FALSE
