\* Two handlers at once, three frames of any kind, and a host that may stop taking replies.
CONSTANTS
    Calls = {c1, c2}
    MaxInFlight = 2
    MaxBody = 1
    ReplyRoom = 1
    MaxReply = 1
    MaxFrames = 3
SPECIFICATION ProcessSpec
INVARIANTS HandlersAccounted CleanExitLeavesNoHandler
PROPERTIES ContextStopsServing RestartStopsServing
CHECK_DEADLOCK FALSE
