\* Buffers of three, chunks of two, and five bytes each way: more than a buffer and what the reader has room for.
SPECIFICATION FairSpec
CONSTANTS
    MaxBuffered = 3
    Chunk = 2
    Room = 1
    Total = 5
INVARIANTS TypeOK FinishedIsComplete EndOfStreamLast
PROPERTIES DownstreamFlows EndedConnectionLeaves
\* An erased client takes no more steps.
CHECK_DEADLOCK FALSE
