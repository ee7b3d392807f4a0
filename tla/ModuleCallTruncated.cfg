\* Two long requests against room for one assembly.
CONSTANTS
    Callers = {a1, a2}
    CallsPer = 1
    Calls <- AllCalls
    Long <- AllCalls
    WithDeadline <- NoCalls
    CallerRoom = 2
    InboxRoom = 2
    MaxInFlight = 1
    MaxBody = 2
    ReplyRoom = 1
    MaxReply = 1
SPECIFICATION SafetySpec
INVARIANTS HandlerSeesWholeRequest
CHECK_DEADLOCK FALSE
