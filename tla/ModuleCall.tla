----------------------------- MODULE ModuleCall -----------------------------
(***************************************************************************)
(* Stage calls end to end: ModuleCaller.Call (bus/module_caller.go) on one *)
(* side, ModuleRuntime on the other, and the host that routes frames       *)
(* between their rings.  A caller issues its calls one after the other     *)
(* over its own client; several callers run concurrently.  The host is     *)
(* external: it forwards frames in order, gives each call a correlation of *)
(* its own, and answers requests for a module that is gone with            *)
(* CapabilityAbsent.                                                       *)
(***************************************************************************)
EXTENDS ModuleRuntime

CONSTANTS Callers,      \* processes that call the module
          CallsPer,     \* bound: calls each of them makes
          Long,         \* calls whose request takes two fragments
          WithDeadline, \* calls made with a deadline
          CallerRoom,   \* slots of a caller's outbound ring
          InboxRoom     \* slots of the module's inbound ring

ASSUME CallAssumption ==
    /\ CallsPer \in Nat
    /\ Calls = Callers \X (1 .. CallsPer)
    /\ Long \subseteq Calls
    /\ WithDeadline \subseteq Calls

VARIABLES callPc,       \* "idle", "sending" or "awaiting"
          correlation,  \* ModuleCaller.correlation
          sentChunks,   \* fragments of the current request sent
          body,         \* the response collected by awaitReply
          outbound,     \* each caller's outbound ring
          inbound,      \* each caller's inbound ring
          outcome,      \* how each call ended
          cancelSent    \* calls whose cancel was published

callState == <<callPc, correlation, sentChunks, body, outcome, cancelSent>>
callVars == <<callState, outbound, inbound>>
allVars == <<vars, callVars>>

(* Type correctness of the callers' state.                                 *)
CallTypeOK ==
    /\ callPc \in [Callers -> {"idle", "sending", "awaiting"}]
    /\ correlation \in [Callers -> 0 .. CallsPer]
    /\ sentChunks \in [Callers -> 0 .. 2]
    /\ outcome \in [Calls -> {"none", "OK", "failed", "sendFailed", "deadline", "left"}]
    /\ cancelSent \subseteq Calls

Init ==
    /\ RuntimeInit
    /\ callPc = [a \in Callers |-> "idle"]
    /\ correlation = [a \in Callers |-> 0]
    /\ sentChunks = [a \in Callers |-> 0]
    /\ body = [a \in Callers |-> <<>>]
    /\ outbound = [a \in Callers |-> <<>>]
    /\ inbound = [a \in Callers |-> <<>>]
    /\ outcome = [c \in Calls |-> "none"]
    /\ cancelSent = {}

Fragments(c) == IF c \in Long THEN 2 ELSE 1
Current(a) == <<a, correlation[a]>>
Request(c, k) == [type |-> "request", corr |-> c, chunk |-> k,
                  more |-> k < Fragments(c), valid |-> TRUE]
CancelFrame(c) == [type |-> "cancel", corr |-> c]

(* emit succeeds: the epoch is current and the outbound ring has a slot.   *)
CanEmit(a) == ~epochChanged /\ Len(outbound[a]) < CallerRoom

-----------------------------------------------------------------------------
(* ModuleCaller.Call and send.                                             *)

Call(a) ==
    /\ callPc[a] = "idle"
    /\ correlation[a] < CallsPer
    /\ correlation' = [correlation EXCEPT ![a] = @ + 1]
    /\ callPc' = [callPc EXCEPT ![a] = "sending"]
    /\ sentChunks' = [sentChunks EXCEPT ![a] = 0]
    /\ body' = [body EXCEPT ![a] = <<>>]
    /\ UNCHANGED <<vars, outbound, inbound, outcome, cancelSent>>

SendFragment(a) ==
    /\ callPc[a] = "sending"
    /\ CanEmit(a)
    /\ LET c == Current(a)
           k == sentChunks[a] + 1
       IN  /\ outbound' = [outbound EXCEPT ![a] = Append(@, Request(c, k))]
           /\ sentChunks' = [sentChunks EXCEPT ![a] = k]
           /\ callPc' = [callPc EXCEPT ![a] = IF k < Fragments(c) THEN "sending" ELSE "awaiting"]
    /\ UNCHANGED <<vars, inbound, correlation, body, outcome, cancelSent>>

(* send returns the error of emit; Call returns it without a cancel.       *)
SendFails(a) ==
    /\ callPc[a] = "sending"
    /\ ~CanEmit(a)
    /\ callPc' = [callPc EXCEPT ![a] = "idle"]
    /\ outcome' = [outcome EXCEPT ![Current(a)] = "sendFailed"]
    /\ UNCHANGED <<vars, outbound, inbound, correlation, sentChunks, body, cancelSent>>

-----------------------------------------------------------------------------
(* awaitReply.  Leaving with an error publishes a cancel, best effort.     *)

LeaveSilently(a, why) ==
    /\ callPc' = [callPc EXCEPT ![a] = "idle"]
    /\ outcome' = [outcome EXCEPT ![Current(a)] = why]
    /\ cancelSent' = IF CanEmit(a) THEN cancelSent \cup {Current(a)} ELSE cancelSent
    /\ outbound' = outbound
    /\ UNCHANGED <<vars, correlation, sentChunks, body>>

Leave(a, why) ==
    /\ callPc' = [callPc EXCEPT ![a] = "idle"]
    /\ outcome' = [outcome EXCEPT ![Current(a)] = why]
    /\ cancelSent' = IF CanEmit(a) THEN cancelSent \cup {Current(a)} ELSE cancelSent
    /\ outbound' = IF CanEmit(a)
                   THEN [outbound EXCEPT ![a] = Append(@, CancelFrame(Current(a)))]
                   ELSE outbound
    /\ UNCHANGED <<vars, correlation, sentChunks, body>>

(* Poll delivers the next event of the inbound ring.                       *)
Receiving(a) ==
    /\ callPc[a] = "awaiting"
    /\ ~epochChanged
    /\ inbound[a] # <<>>
    /\ inbound' = [inbound EXCEPT ![a] = Tail(@)]

MineAny(a) == TRUE
Mine(a) == Head(inbound[a]).corr = Current(a)

AwaitSkip(a) ==
    /\ Receiving(a)
    /\ ~Mine(a)
    /\ UNCHANGED <<vars, callState, outbound>>

AwaitError(a) ==
    /\ Receiving(a)
    /\ Mine(a)
    /\ Head(inbound[a]).status # "OK"
    /\ Leave(a, "failed")

AwaitFragment(a) ==
    /\ Receiving(a)
    /\ Mine(a)
    /\ LET r == Head(inbound[a]) IN
       /\ r.status = "OK"
       /\ body' = [body EXCEPT ![a] = Append(@, <<r.corr, r.part>>)]
       /\ callPc' = [callPc EXCEPT ![a] = IF r.more THEN @ ELSE "idle"]
       /\ outcome' = [outcome EXCEPT ![Current(a)] = IF r.more THEN @ ELSE "OK"]
    /\ UNCHANGED <<vars, outbound, correlation, sentChunks, cancelSent>>

(* Deadline and context are looked at only when Poll has nothing.          *)
AwaitDeadline(a) ==
    /\ callPc[a] = "awaiting"
    /\ ~epochChanged
    /\ inbound[a] = <<>>
    /\ Current(a) \in expired
    /\ Leave(a, "deadline")
    /\ UNCHANGED inbound

AwaitContext(a) ==
    /\ callPc[a] = "awaiting"
    /\ ~epochChanged
    /\ inbound[a] = <<>>
    /\ Leave(a, "left")
    /\ UNCHANGED inbound

(* A bug one edit away: keep polling a region the host has abandoned.      *)
AwaitEpochPollsAgain(a) ==
    /\ callPc[a] = "awaiting"
    /\ epochChanged
    /\ UNCHANGED allVars

AwaitEpoch(a) ==
    /\ callPc[a] = "awaiting"
    /\ epochChanged
    /\ Leave(a, "failed")
    /\ UNCHANGED inbound

-----------------------------------------------------------------------------
(* The host (external).                                                    *)

HostForward(a) ==
    /\ ~epochChanged
    /\ pc # "exited"
    /\ outbound[a] # <<>>
    /\ Len(inbox) < InboxRoom
    /\ inbox' = Append(inbox, Head(outbound[a]))
    /\ outbound' = [outbound EXCEPT ![a] = Tail(@)]
    /\ UNCHANGED <<loop, outbox, tables, world, now, history, callState, inbound>>

HostAbsent(a) ==
    /\ ~epochChanged
    /\ pc = "exited"
    /\ outbound[a] # <<>>
    /\ LET f == Head(outbound[a]) IN
       /\ outbound' = [outbound EXCEPT ![a] = Tail(@)]
       /\ inbound' = IF f.type = "request" /\ ~f.more
                     THEN [inbound EXCEPT ![a] =
                             Append(@, [corr |-> f.corr, status |-> "CapabilityAbsent",
                                        part |-> 1, more |-> FALSE])]
                     ELSE inbound
    /\ UNCHANGED <<vars, callState>>

HostReturn ==
    /\ ~epochChanged
    /\ outbox # <<>>
    /\ LET r == Head(outbox) IN
       inbound' = [inbound EXCEPT ![r.corr[1]] = Append(@, r)]
    /\ outbox' = Tail(outbox)
    /\ UNCHANGED <<loop, inbox, tables, world, now, history, callState, outbound>>

-----------------------------------------------------------------------------
CallerStep(a) ==
    \/ SendFragment(a)
    \/ SendFails(a)
    \/ AwaitSkip(a)
    \/ AwaitError(a)
    \/ AwaitFragment(a)
    \/ AwaitDeadline(a)
    \/ AwaitEpoch(a)

HostStep == (\E a \in Callers : HostForward(a) \/ HostAbsent(a)) \/ HostReturn

Serve == ServeLoop /\ UNCHANGED callVars
Handle(c) == HandlerReturns(c) /\ UNCHANGED callVars
Timer(c) == c \in WithDeadline /\ DeadlinePasses(c) /\ UNCHANGED callVars
Environment == (EndContext \/ HostRestart) /\ UNCHANGED callVars

Next ==
    \/ \E a \in Callers : Call(a)
    \/ \E a \in Callers : CallerStep(a)
    \/ \E a \in Callers : AwaitContext(a)
    \/ HostStep
    \/ Serve
    \/ \E c \in Calls : Handle(c)
    \/ \E c \in Calls : Timer(c)
    \/ Environment

SafetySpec == Init /\ [][Next]_allVars

(* Callers, host and serve loop keep running and time passes.  A handler   *)
(* may run for ever: nothing bounds it in the code.                        *)
Spec == /\ SafetySpec
        /\ \A a \in Callers : WF_allVars(CallerStep(a))
        /\ \A a \in Callers : WF_allVars(HostForward(a) \/ HostAbsent(a))
        /\ WF_allVars(HostReturn)
        /\ WF_allVars(Serve)
        /\ \A c \in Calls : WF_allVars(Timer(c))

-----------------------------------------------------------------------------
Whole(c) == [k \in 1 .. Fragments(c) |-> k]

(* A handler only ever runs on the whole request of its call: fragments in *)
(* order, none missing, none of another call.                              *)
HandlerSeesWholeRequest == \A c \in DOMAIN jobs : jobs[c].body = Whole(c)

(* A call that succeeds returns the parts of its own response, in order    *)
(* and from the first one, even when answers to earlier calls of the same  *)
(* caller arrive late.                                                     *)
ResponseIsOwnAndInOrder ==
    \A a \in Callers :
        \A i \in 1 .. Len(body[a]) : body[a][i] = <<Current(a), i>>

Coming(c) ==
    \/ callPc[c[1]] = "sending" /\ Current(c[1]) = c
    \/ \E i \in 1 .. Len(outbound[c[1]]) : outbound[c[1]][i].corr = c
    \/ \E i \in 1 .. Len(inbox) : inbox[i].corr = c

(* A partial request stays in the module only while the rest of it, or its *)
(* cancel, is on the way; the exception is a send that failed half way,    *)
(* whose Call returned without a cancel.                                   *)
NoOrphanAssembly ==
    pc # "exited" => \A c \in DOMAIN assemblies : Coming(c) \/ outcome[c] = "sendFailed"

(* A cancel that was published reaches the work: the call is not left with *)
(* a handler running that was never told to stop.                          *)
CancelStopsWork ==
    \A c \in Calls :
        c \in cancelSent ~>
            \/ ~(c \in DOMAIN jobs /\ jobs[c].running /\ ~jobs[c].cancelled)
            \/ pc = "exited"
            \/ epochChanged

(* Every call with a deadline returns, whatever happens to the handler,    *)
(* the module process, the host or the rings.                              *)
CallReturns ==
    \A a \in Callers : callPc[a] # "idle" ~> callPc[a] = "idle"
=============================================================================
