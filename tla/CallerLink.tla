----------------------------- MODULE CallerLink -----------------------------
(***************************************************************************)
(* The life of a caller's link to the bus: ConnectClient and keepAlive     *)
(* (bus/client_connect.go), AttachAs and Detach (bus/client.go).           *)
(*                                                                         *)
(* The client acquires a socket, some descriptors and three mappings, any  *)
(* of which may fail, and every failing branch gives back what it names;   *)
(* then a goroutine writes a heartbeat at every tick of its ticker until   *)
(* the context ends.  The host (external) grants a slot and takes it back  *)
(* when the heartbeat is older than its window.  Time passes in ticks;     *)
(* between two of them the client does what is due, except that it may be  *)
(* Lateness ticks late.                                                    *)
(***************************************************************************)
EXTENDS Integers

CONSTANTS Interval,   \* clientHeartbeatInterval
          Window,     \* the host's stale window
          Lateness,   \* bound: how late the scheduler runs a goroutine
          MaxMissed,  \* bound: failed clock reads in a row
          MaxRights   \* descriptors the reply's buffer has room for

(* The comment at clientHeartbeatInterval: well inside the stale window.   *)
(* A tick is taken before the next one is due: the ticker's channel holds  *)
(* one, a goroutine later than that loses ticks, and every miss would then *)
(* cost the lateness again.                                                *)
ASSUME LinkAssumption ==
    /\ Interval \in Nat \ {0} /\ Window \in Nat /\ Lateness \in Nat /\ MaxMissed \in Nat
    /\ MaxRights \in Nat
    /\ Lateness < Interval
    /\ (MaxMissed + 1) * Interval + 2 * Lateness <= Window

VARIABLES pc,        \* where ConnectClient is, then what became of the client
          sock,      \* the socket is open
          open,      \* received descriptors that are open
          fds,       \* those parseRights found
          unread,    \* history: those of a control message that did not parse
          mapped,    \* mapped regions
          kept,      \* mappings the fields of the Client hold
          answer,    \* what the host's reply says
          ctxDone,   \* the context has ended
          slot,      \* the host's slot: "none", "held" or "reaped"
          age,       \* time since the heartbeat the host sees
          beating,   \* the keepAlive goroutine runs
          countdown, \* time to the next tick of its ticker
          pending,   \* a tick waits in ticker.C
          late,      \* time the client has been due to run
          missed     \* clock reads failed in a row

rights == <<open, fds, unread>>
resources == <<sock, rights, mapped, kept, answer>>
host == <<slot, age>>
ticker == <<beating, countdown, pending, late, missed>>
linkVars == <<pc, resources, ctxDone, host, ticker>>

Regions == {"control", "arena", "queue"}
Answers == {"malformed", "denied", "granted"}
Attaching == {"check", "arena", "queue", "validate", "pair", "error", "ready"}
Returned == {"failed", "attached", "detached", "crashed"}

LinkInit ==
    /\ pc = "dial"
    /\ sock = FALSE
    /\ open = {} /\ fds = {} /\ unread = {}
    /\ mapped = {} /\ kept = {}
    /\ answer = "none"
    /\ ctxDone = FALSE
    /\ slot = "none" /\ age = 0
    /\ beating = FALSE /\ countdown = 0 /\ pending = FALSE /\ late = 0 /\ missed = 0

-----------------------------------------------------------------------------
(* ConnectClient: dial until it is not refused or the context ends.        *)

OpenSocket ==
    /\ pc = "dial"
    /\ pc' = "connect"
    /\ sock' = TRUE
    /\ UNCHANGED <<rights, mapped, kept, answer, ctxDone, host, ticker>>

(* No path, or no descriptor for a socket.                                 *)
SocketFails ==
    /\ pc = "dial"
    /\ pc' = "failed"
    /\ UNCHANGED <<resources, ctxDone, host, ticker>>

Connected ==
    /\ pc = "connect"
    /\ pc' = "request"
    /\ UNCHANGED <<resources, ctxDone, host, ticker>>

(* Refused; or no socket file, no permission.  The socket is closed first. *)
ConnectFails ==
    /\ pc = "connect"
    /\ pc' \in {"retry", "failed"}
    /\ sock' = FALSE
    /\ UNCHANGED <<rights, mapped, kept, answer, ctxDone, host, ticker>>

Retry ==
    /\ pc = "retry"
    /\ pc' = "dial"
    /\ UNCHANGED <<resources, ctxDone, host, ticker>>

RetryContextNotSeen == ctxDone /\ Retry
RetryContext ==
    /\ pc = "retry"
    /\ ctxDone
    /\ pc' = "failed"
    /\ UNCHANGED <<resources, ctxDone, host, ticker>>

-----------------------------------------------------------------------------
(* AttachAs.                                                               *)

Request ==
    /\ pc = "request"
    /\ pc' \in {"reply", "error"}
    /\ UNCHANGED <<resources, ctxDone, host, ticker>>

(* The reply of the host, a blocking read, with any number of descriptors: *)
(* parseRights has all of them, or none when it cannot parse the control   *)
(* message.  A host that grants holds a slot from then on.                 *)
Reply ==
    /\ pc = "reply"
    /\ pc' = "check"
    /\ \E n \in 0 .. MaxRights :
         /\ open' = 1 .. n
         /\ \/ fds' = 1 .. n /\ unread' = {}
            \/ fds' = {} /\ unread' = 1 .. n
    /\ answer' \in Answers
    /\ IF answer' = "granted" THEN slot' = "held" /\ age' = 0 ELSE UNCHANGED host
    /\ late' = 0
    /\ UNCHANGED <<sock, mapped, kept, ctxDone, beating, countdown, pending, missed>>

ReplyFails ==
    /\ pc = "reply"
    /\ pc' = "error"
    /\ UNCHANGED <<resources, ctxDone, host, ticker>>

closeAll == open' = open \ fds /\ UNCHANGED <<fds, unread>>

(* Not a reply, not granted, or not three descriptors.                     *)
Malformed ==
    /\ pc = "check" /\ answer = "malformed"
    /\ pc' = "error"
    /\ closeAll
    /\ UNCHANGED <<sock, mapped, kept, answer, ctxDone, host, ticker>>

Denied ==
    /\ pc = "check" /\ answer = "denied"
    /\ pc' = "error"
    /\ closeAll
    /\ UNCHANGED <<sock, mapped, kept, answer, ctxDone, host, ticker>>

WrongCount ==
    /\ pc = "check" /\ answer = "granted" /\ fds # 1 .. 3
    /\ pc' = "error"
    /\ closeAll
    /\ UNCHANGED <<sock, mapped, kept, answer, ctxDone, host, ticker>>

Accepted == pc = "check" /\ answer = "granted" /\ fds = 1 .. 3

(* Control, arena and queue pair are mapped in this order; until the last  *)
(* one is there the mappings are local variables.                          *)
MapControl ==
    /\ Accepted
    /\ pc' = "arena"
    /\ mapped' = mapped \cup {"control"}
    /\ UNCHANGED <<sock, rights, kept, answer, ctxDone, host, ticker>>

ControlFails ==
    /\ Accepted
    /\ pc' = "error"
    /\ closeAll
    /\ UNCHANGED <<sock, mapped, kept, answer, ctxDone, host, ticker>>

MapArena ==
    /\ pc = "arena"
    /\ pc' = "queue"
    /\ mapped' = mapped \cup {"arena"}
    /\ UNCHANGED <<sock, rights, kept, answer, ctxDone, host, ticker>>

(* A bug one edit away: the arena's failure forgets the control page.      *)
ArenaFailsLeaks ==
    /\ pc = "arena"
    /\ pc' = "error"
    /\ closeAll
    /\ UNCHANGED <<sock, mapped, kept, answer, ctxDone, host, ticker>>

ArenaFails ==
    /\ pc = "arena"
    /\ pc' = "error"
    /\ mapped' = mapped \ {"control"}
    /\ closeAll
    /\ UNCHANGED <<sock, kept, answer, ctxDone, host, ticker>>

(* The descriptors are closed and the Client has the mappings.             *)
MapQueue ==
    /\ pc = "queue"
    /\ pc' = "validate"
    /\ mapped' = mapped \cup {"queue"}
    /\ kept' = Regions
    /\ closeAll
    /\ UNCHANGED <<sock, answer, ctxDone, host, ticker>>

QueueFails ==
    /\ pc = "queue"
    /\ pc' = "error"
    /\ mapped' = mapped \ {"control", "arena"}
    /\ closeAll
    /\ UNCHANGED <<sock, kept, answer, ctxDone, host, ticker>>

(* Detach unmaps what the Client's fields hold and clears them.            *)
unmapFields == mapped' = mapped \ kept /\ kept' = {}

(* AttachControl, then AttachQueuePair, accept the geometry or Detach.     *)
Validate ==
    /\ \/ pc = "validate" /\ pc' = "pair"
       \/ pc = "pair" /\ pc' = "ready"
    /\ UNCHANGED <<resources, ctxDone, host, ticker>>

ValidateFails ==
    /\ pc \in {"validate", "pair"}
    /\ pc' = "error"
    /\ unmapFields
    /\ UNCHANGED <<sock, rights, answer, ctxDone, host, ticker>>

-----------------------------------------------------------------------------
(* Back in ConnectClient: the socket is closed whatever AttachAs returned, *)
(* and the keepAlive goroutine started when it returned no error.          *)

AttachFailed ==
    /\ pc = "error"
    /\ pc' = "failed"
    /\ sock' = FALSE
    /\ UNCHANGED <<rights, mapped, kept, answer, ctxDone, host, ticker>>

AttachedSilently ==
    /\ pc = "ready"
    /\ pc' = "attached"
    /\ sock' = FALSE
    /\ UNCHANGED <<rights, mapped, kept, answer, ctxDone, host, ticker>>

Attached ==
    /\ pc = "ready"
    /\ pc' = "attached"
    /\ sock' = FALSE
    /\ beating' = TRUE /\ countdown' = Interval /\ pending' = FALSE /\ late' = 0
    /\ UNCHANGED <<rights, mapped, kept, answer, ctxDone, host, missed>>

-----------------------------------------------------------------------------
(* keepAlive: when the context has ended and a tick waits, select takes    *)
(* either.  A clock that reads zero skips the beat.                        *)

Beat ==
    /\ beating /\ pending
    /\ pc = "attached"
    /\ pending' = FALSE /\ late' = 0
    /\ \/ age' = 0 /\ missed' = 0
       \/ missed < MaxMissed /\ missed' = missed + 1 /\ UNCHANGED age
    /\ UNCHANGED <<pc, resources, ctxDone, slot, beating, countdown>>

(* The write goes through the mapping that Detach has removed.             *)
BeatUnmapped ==
    /\ beating /\ pending
    /\ pc = "detached"
    /\ pc' = "crashed"
    /\ beating' = FALSE /\ pending' = FALSE
    /\ UNCHANGED <<resources, ctxDone, host, countdown, late, missed>>

StopBeating ==
    /\ beating
    /\ ctxDone
    /\ beating' = FALSE /\ pending' = FALSE /\ late' = 0
    /\ UNCHANGED <<pc, resources, ctxDone, host, countdown, missed>>

(* The owner is done with the client: it has ended the context.            *)
Detach ==
    /\ pc = "attached"
    /\ ctxDone
    /\ pc' = "detached"
    /\ unmapFields
    /\ UNCHANGED <<sock, rights, answer, ctxDone, host, ticker>>

-----------------------------------------------------------------------------
EndContext ==
    /\ ~ctxDone
    /\ ctxDone' = TRUE
    /\ UNCHANGED <<pc, resources, host, ticker>>

(* The client is due from the reply to the return, and while a tick of its *)
(* ticker waits.                                                           *)
Due == pc \in Attaching \/ pending

Tick ==
    /\ slot = "held"
    /\ age <= Window
    /\ Due => late < Lateness
    /\ late' = IF Due THEN late + 1 ELSE 0
    /\ age' = age + 1
    /\ countdown' = IF ~beating THEN countdown
                    ELSE IF countdown = 1 THEN Interval ELSE countdown - 1
    /\ pending' = (pending \/ (beating /\ countdown = 1))
    /\ UNCHANGED <<pc, resources, ctxDone, slot, beating, missed>>

Reap ==
    /\ slot = "held"
    /\ age > Window
    /\ slot' = "reaped"
    /\ UNCHANGED <<pc, resources, ctxDone, age, ticker>>

-----------------------------------------------------------------------------
Dial == OpenSocket \/ SocketFails \/ Connected \/ ConnectFails \/ Retry \/ RetryContext
RefuseReply == Malformed \/ Denied \/ WrongCount
MapRegions == MapControl \/ MapArena \/ MapQueue
MapFails == ControlFails \/ ArenaFails \/ QueueFails
AttachReturns == AttachFailed \/ Attached
Attach == RefuseReply \/ MapRegions \/ MapFails \/ Validate \/ ValidateFails \/ AttachReturns
HostAnswers == Reply \/ ReplyFails
KeepAlive == Beat \/ BeatUnmapped \/ StopBeating

LinkNext == Dial \/ Request \/ HostAnswers \/ Attach \/ KeepAlive \/ Detach
        \/ EndContext \/ Tick \/ Reap

(* The client's goroutines run.  A select that finds the context finished  *)
(* before its timer, or chooses at random when both are ready, does not    *)
(* overlook it for ever.  The host need not answer.                        *)
LinkSpec == /\ LinkInit /\ [][LinkNext]_linkVars
        /\ WF_linkVars(Dial \/ Request \/ Attach)
        /\ SF_linkVars(RetryContext)
        /\ WF_linkVars(StopBeating)

-----------------------------------------------------------------------------
(* Whichever step of a connection attempt fails, the branch it takes gives *)
(* back all that was acquired before it: no socket, no mapping and no      *)
(* descriptor stays, but those of a control message parseRights could not  *)
(* parse, which nobody knows to close.  A client that was returned keeps   *)
(* its three mappings.                                                     *)
ReturnLeaksNothing ==
    pc \in Returned =>
        /\ ~sock
        /\ open = unread
        /\ mapped = IF pc = "attached" THEN Regions ELSE {}

(* An idle caller is not reaped: as long as its context lives, the host    *)
(* has its slot, also after clock reads that failed and late goroutines.   *)
IdleCallerKeepsSlot == pc = "attached" /\ ~ctxDone => slot = "held"

(* Ending the context ends the attempt to connect, also against a host     *)
(* that refuses for ever, and the heartbeat.  Only a host that accepts and *)
(* does not answer keeps ConnectClient: its read has no deadline.          *)
ContextEndsLink == ctxDone ~> pc \in Returned \cup {"reply"} /\ ~beating
=============================================================================
