---------------------------- MODULE ModuleServe ----------------------------
(***************************************************************************)
(* A module process (RunModuleProcess): it connects, attaches, runs the    *)
(* loop of ModuleRuntime and detaches.  The host may refuse the connection *)
(* or the attach, send any frames at all (valid and invalid fragments,     *)
(* fragments of a call whose handler is running, cancels at any moment),   *)
(* take replies at its own pace, restart, and end the process's context.   *)
(***************************************************************************)
EXTENDS ModuleRuntime

CONSTANT MaxFrames  \* bound: frames the host sends

VARIABLES arrived,  \* frames sent so far
          link      \* the shared mappings: "connecting", "attaching", "attached" or "detached"

serveVars == <<vars, arrived, link>>

(* Two kinds of frame stand for all of their kind, because the loop looks  *)
(* no further: an invalid fragment, last or not, and a frame of no         *)
(* interest, of whatever call.                                             *)
HostFragments == [type : {"request"}, corr : Calls, chunk : {1}, more : BOOLEAN, valid : BOOLEAN]
Inbound == {f \in HostFragments : f.valid \/ ~f.more}
           \cup [type : {"cancel"}, corr : Calls]
           \cup {[type |-> "other", corr |-> CHOOSE c \in Calls : TRUE]}

ProcessInit == RuntimeInit /\ arrived = 0 /\ link = "connecting"

-----------------------------------------------------------------------------
(* connectModule.  A refused connection is tried again, which changes      *)
(* nothing here, until one is accepted or the context ends; AttachAs then  *)
(* waits for the host's reply, with no deadline.                           *)

ConnectAccepted ==
    /\ link = "connecting"
    /\ pc = "top"
    /\ link' = "attaching"
    /\ UNCHANGED <<vars, arrived>>

Attach ==
    /\ link = "attaching"
    /\ link' = "attached"
    /\ UNCHANGED <<vars, arrived>>

ConnectEnds(why) ==
    /\ pc = "top"
    /\ pc' = "exited"
    /\ exit' = why
    /\ link' = "detached"
    /\ UNCHANGED <<reply, inbox, outbox, tables, world, now, history, arrived>>

(* The context ended while waiting to try again.                           *)
ConnectContext == link = "connecting" /\ ctxDone /\ ConnectEnds("nil")

(* No socket, a denied attach or a malformed reply; what is mapped is      *)
(* unmapped.  RunModuleProcess reports it unless the context has ended.    *)
ConnectFails(from) ==
    link = from /\ ConnectEnds(IF ctxDone THEN "nil" ELSE "ErrModuleRuntime")

Connect == ConnectAccepted \/ ConnectContext \/ ConnectFails("connecting")
HostAnswers == Attach \/ ConnectFails("attaching")

(* The deferred Detach.                                                    *)
Detach ==
    /\ pc = "exited"
    /\ link = "attached"
    /\ link' = "detached"
    /\ UNCHANGED <<vars, arrived>>

RunLoop == link = "attached" /\ ServeLoop /\ UNCHANGED <<arrived, link>>
RunHandler(c) == HandlerReturns(c) /\ UNCHANGED <<arrived, link>>

-----------------------------------------------------------------------------
(* The host (external) puts a frame in the inbound ring.                   *)
HostSends(f) ==
    /\ link = "attached"
    /\ arrived < MaxFrames
    /\ ~epochChanged
    /\ arrived' = arrived + 1
    /\ inbox' = Append(inbox, f)
    /\ UNCHANGED <<loop, outbox, tables, world, now, history, link>>

(* The host takes the oldest reply out of the outbound ring.               *)
HostTakes ==
    /\ outbox # <<>>
    /\ outbox' = Tail(outbox)
    /\ UNCHANGED <<loop, inbox, tables, world, now, history, arrived, link>>

Surroundings ==
    \/ EndContext
    \/ link = "attached" /\ HostRestart
    \/ \E c \in Calls : DeadlinePasses(c)

ProcessNext ==
    \/ Connect
    \/ HostAnswers
    \/ Detach
    \/ RunLoop
    \/ \E c \in Calls : RunHandler(c)
    \/ \E f \in Inbound : HostSends(f)
    \/ HostTakes
    \/ Surroundings /\ UNCHANGED <<arrived, link>>

(* The loop and the handlers are goroutines the Go scheduler runs, and the *)
(* first connection attempt after the context ended is the last.  Nothing  *)
(* is assumed of the host, which may refuse, may leave an attach without   *)
(* an answer and may stop taking replies.                                  *)
ProcessSafety == ProcessInit /\ [][ProcessNext]_serveVars
ProcessSpec ==
    /\ ProcessSafety
    /\ WF_serveVars(RunLoop)
    /\ WF_serveVars(ctxDone /\ Connect)
    /\ \A c \in Calls : WF_serveVars(RunHandler(c))

(* Ending the context stops the process also when the host refuses its     *)
(* connections, has stopped taking replies or keeps the inbound ring full. *)
(* A host that accepts and never answers the attach holds it up for ever.  *)
ContextStopsServing == ctxDone ~> pc = "exited" \/ link = "attaching"

(* A host restart stops it as well, also in the middle of a reply.         *)
RestartStopsServing == epochChanged ~> pc = "exited"
=============================================================================
