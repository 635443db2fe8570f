SPECIFICATION FairSpec
CONSTANTS
    SequenceMax = 4
    WindowMax = 2
    Window = 2
    Starts = {3}
    Length = 2
    SegmentRoom = 2
    NoteRoom = 1
    MaxRxPending = 2
    Commands = {"upgrade_connect", "upgrade_disconnect", "set_data_endpoint"}
    QueueRoom = 2
INVARIANTS OnlyDataIndPanics HandoverOnlyWhenIdle DataWillBeRead
PROPERTIES TransferCompletes ImplementsStream
CHECK_DEADLOCK FALSE
