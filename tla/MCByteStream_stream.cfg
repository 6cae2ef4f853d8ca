\* Three bytes, sequences longer than the buffer, a reader of the stream.
SPECIFICATION StreamSpec
CONSTANTS
    Size = 3
    Byte = {0, 1}
    MaxLen = 4
    Writes <- AllWrites
    MethodWrites <- NonEmptyWrites
    Counts <- AllCounts
    Ranges <- TheRanges
INVARIANT ObserversAgree
PROPERTIES ImplementsQueue StreamKeepsBytes
