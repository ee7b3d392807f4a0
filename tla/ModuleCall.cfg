\* One caller, two calls in a row, the first one long: late answers, cancels, a busy
\* module, deadlines, a host restart.
CONSTANTS
    Callers = {a1}
    CallsPer = 2
    Calls <- AllCalls
    Long <- FirstCalls
    WithDeadline <- AllCalls
    CallerRoom = 1
    InboxRoom = 1
    MaxInFlight = 1
    MaxBody = 2
    ReplyRoom = 1
    MaxReply = 2
SPECIFICATION Spec
INVARIANTS DoneNeverBlocks HandlerSeesWholeRequest ResponseIsOwnAndInOrder NoOrphanAssembly
PROPERTIES CancelStopsWork CallReturns
CHECK_DEADLOCK FALSE
