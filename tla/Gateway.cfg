\* Two conversations of one identity at once, one request streamed, one without identity.
CONSTANTS
    r1 = r1
    r2 = r2
    r3 = r3
    r4 = r4
    alice = alice
    c1 = c1
    c2 = c2
    NoKey = NoKey
    Requests = {r1, r2, r3, r4}
    KeyOf <- Identities
    Conversation <- Conversations
    Opening <- Openings
    Streaming = {r3}
    Statuses = {200, 400, 429, 500}
    MaxSends = 3
SPECIFICATION Spec
INVARIANTS ResendIsPristine StateStaysInConversation
PROPERTIES BreakerTripsFairly RequestCompletes
CHECK_DEADLOCK FALSE
