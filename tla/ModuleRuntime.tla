--------------------------- MODULE ModuleRuntime ---------------------------
(***************************************************************************)
(* The serving half of a module process (bus/module_runtime.go): the loop  *)
(* runModuleClient, the handler goroutines it starts (runHandler) and the  *)
(* reply path (replyModuleResult).                                         *)
(*                                                                         *)
(* One goroutine runs the loop; up to MaxInFlight handler goroutines run   *)
(* beside it and meet it in the buffered channel `done` and in the         *)
(* per-job cancel flag.  The clock is abstracted to the set of calls whose *)
(* deadline has passed, the payload of a fragment to its position in the   *)
(* request.  How frames arrive is left to the modules that use this one.   *)
(***************************************************************************)
EXTENDS Integers, Sequences, FiniteSets

CONSTANTS Calls,        \* correlation ids
          MaxInFlight,  \* moduleMaxInFlight
          MaxBody,      \* ModuleMessageMaxBody, in fragments
          ReplyRoom,    \* slots of the outbound ring
          MaxReply      \* bound: fragments of a response

ASSUME RuntimeAssumption ==
    /\ IsFiniteSet(Calls) /\ Calls # {}
    /\ MaxInFlight \in Nat \ {0}
    /\ MaxBody \in Nat \ {0}
    /\ ReplyRoom \in Nat \ {0}
    /\ MaxReply \in Nat \ {0}

VARIABLES pc,           \* where the serve loop is
          exit,         \* what runModuleClient returned
          inbox,        \* frames in the inbound ring
          outbox,       \* frames in the outbound ring
          assemblies,   \* correlation -> fragments collected so far
          jobs,         \* correlation -> work handed to a goroutine
          done,         \* the channel of finished work
          reply,        \* the reply being sent: <<>> or <<r>>
          ctxDone,      \* the process context has ended
          epochChanged, \* the host has restarted
          expired,      \* calls whose deadline has passed
          now,          \* the part of `expired` seen at the loop's clock read
          started,      \* history: handlers started per call
          answered      \* history: handler results replied per call

loop == <<pc, exit, reply>>
tables == <<assemblies, jobs, done>>
world == <<ctxDone, epochChanged, expired>>
history == <<started, answered>>
vars == <<loop, inbox, outbox, tables, world, now, history>>

Statuses == {"OK", "Cancelled", "DeadlineExceeded", "InvalidRequest", "Internal"}

(* A request fragment is the chunk-th of its request; `valid` is FALSE for *)
(* one that names an unknown stage, does not decode, is no invocation or   *)
(* disagrees with the header of the fragments before it.                   *)
Fragment == [type : {"request"}, corr : Calls, chunk : Nat, more : BOOLEAN, valid : BOOLEAN]
Control == [type : {"cancel", "other"}, corr : Calls]
Reply == [corr : Calls, status : Statuses, part : Nat, size : Nat, handled : BOOLEAN]

(* Type correctness of the serve loop's state.                             *)
TypeOK ==
    /\ pc \in {"top", "poll", "reply", "draining", "exited"}
    /\ exit \in {"none", "nil", "ErrEpoch", "ctxErr", "ErrModuleRuntime"}
    /\ inbox \in Seq(Fragment \cup Control)
    /\ outbox \in Seq([corr : Calls, status : Statuses, part : Nat, more : BOOLEAN])
    /\ DOMAIN assemblies \subseteq Calls
    /\ \A c \in DOMAIN assemblies : assemblies[c] \in Seq(Nat)
    /\ DOMAIN jobs \subseteq Calls
    /\ \A c \in DOMAIN jobs :
         jobs[c] \in [body : Seq(Nat), cancelled : BOOLEAN, running : BOOLEAN]
    /\ done \in Seq([corr : Calls, status : Statuses, size : Nat])
    /\ reply \in Seq(Reply) /\ Len(reply) <= 1
    /\ ctxDone \in BOOLEAN
    /\ epochChanged \in BOOLEAN
    /\ expired \subseteq Calls
    /\ now \subseteq Calls
    /\ started \in [Calls -> Nat]
    /\ answered \in [Calls -> Nat]

RuntimeInit ==
    /\ pc = "top"
    /\ exit = "none"
    /\ inbox = <<>>
    /\ outbox = <<>>
    /\ assemblies = <<>>
    /\ jobs = <<>>
    /\ done = <<>>
    /\ reply = <<>>
    /\ ctxDone = FALSE
    /\ epochChanged = FALSE
    /\ expired = {}
    /\ now = {}
    /\ started = [c \in Calls |-> 0]
    /\ answered = [c \in Calls |-> 0]

(* Go's map operations.                                                    *)
Without(map, key) == [k \in DOMAIN map \ {key} |-> map[k]]
With(map, key, value) == [k \in DOMAIN map \cup {key} |->
                            IF k = key THEN value ELSE map[k]]

-----------------------------------------------------------------------------
(* runHandler: the handler returns some status and response; a cancel flag *)
(* or a passed deadline overrides both before the result enters `done`.    *)

Outcome(c, status) ==
    IF jobs[c].cancelled THEN "Cancelled"
    ELSE IF c \in expired THEN "DeadlineExceeded"
    ELSE status

(* A handler succeeds or fails; "unknown" stands for every failure, since  *)
(* callers tell only OK from the rest.  An unknown status, or a response   *)
(* over the body limit, becomes Internal.                                  *)
Normalise(status) == IF status \in Statuses THEN status ELSE "Internal"

HandlerReturns(c) ==
    /\ c \in DOMAIN jobs
    /\ jobs[c].running
    /\ \E status \in {"OK", "unknown"}, n \in 1 .. MaxReply :
         LET outcome == Outcome(c, Normalise(status)) IN
         done' = Append(done, [corr |-> c, status |-> outcome,
                               size |-> IF outcome = "OK" THEN n ELSE 1])
    /\ jobs' = [jobs EXCEPT ![c].running = FALSE]
    /\ UNCHANGED <<loop, inbox, outbox, assemblies, world, now, history>>

-----------------------------------------------------------------------------
(* replyModuleResult: one fragment per step, waiting for ring space.  A    *)
(* non-OK reply is one fragment.                                           *)

StartReply(c, status, size, handled) ==
    /\ pc' = "reply"
    /\ reply' = <<[corr |-> c, status |-> status, part |-> 1, size |-> size,
                  handled |-> handled]>>
    /\ UNCHANGED exit

Refuse(c, status) == StartReply(c, status, 1, FALSE)

ReplyFragment ==
    /\ pc = "reply"
    /\ ~epochChanged
    /\ Len(outbox) < ReplyRoom
    /\ LET r == reply[1]
           last == r.part = r.size
       IN  /\ outbox' = Append(outbox, [corr |-> r.corr, status |-> r.status,
                                       part |-> r.part, more |-> ~last])
           /\ reply' = IF last THEN <<>> ELSE <<[r EXCEPT !.part = @ + 1]>>
           /\ pc' = IF last THEN "top" ELSE "reply"
           /\ answered' = IF last /\ r.handled
                          THEN [answered EXCEPT ![r.corr] = @ + 1] ELSE answered
    /\ UNCHANGED <<exit, inbox, tables, world, now, started>>

(* Two bugs one edit away: waiting for space without looking at the host's *)
(* epoch, or at the context.                                               *)
ReplyEpochNotSeen ==
    /\ pc = "reply"
    /\ epochChanged
    /\ UNCHANGED vars

ReplyContextNotSeen ==
    /\ pc = "reply"
    /\ ctxDone
    /\ UNCHANGED vars

(* ErrEpoch from ReplyFragment, or noticed while waiting for space.        *)
ReplyEpoch ==
    /\ pc = "reply"
    /\ epochChanged
    /\ pc' = "exited"
    /\ exit' = "ErrEpoch"
    /\ UNCHANGED <<reply, inbox, outbox, tables, world, now, history>>

(* The context ends while the outbound ring is full.                       *)
ReplyContext ==
    /\ pc = "reply"
    /\ ~epochChanged
    /\ Len(outbox) >= ReplyRoom
    /\ ctxDone
    /\ pc' = "exited"
    /\ exit' = "ctxErr"
    /\ UNCHANGED <<reply, inbox, outbox, tables, world, now, history>>

-----------------------------------------------------------------------------
(* The top of the loop: finished work first, then context, epoch, clock.   *)

FinishWork ==
    /\ pc = "top"
    /\ done # <<>>
    /\ done' = Tail(done)
    /\ jobs' = Without(jobs, Head(done).corr)
    /\ StartReply(Head(done).corr, Head(done).status, Head(done).size, TRUE)
    /\ UNCHANGED <<inbox, outbox, assemblies, world, now, history>>

ContextEndsWithoutWaiting ==
    /\ pc = "top"
    /\ done = <<>>
    /\ ctxDone
    /\ jobs' = [c \in DOMAIN jobs |-> [jobs[c] EXCEPT !.cancelled = TRUE]]
    /\ pc' = "exited"
    /\ exit' = "nil"
    /\ UNCHANGED <<reply, inbox, outbox, assemblies, done, world, now, history>>

ContextEnds ==
    /\ pc = "top"
    /\ done = <<>>
    /\ ctxDone
    /\ jobs' = [c \in DOMAIN jobs |-> [jobs[c] EXCEPT !.cancelled = TRUE]]
    /\ pc' = "draining"
    /\ UNCHANGED <<exit, reply, inbox, outbox, assemblies, done, world, now, history>>

DrainResult ==
    /\ pc = "draining"
    /\ done # <<>>
    /\ done' = Tail(done)
    /\ jobs' = Without(jobs, Head(done).corr)
    /\ UNCHANGED <<loop, inbox, outbox, assemblies, world, now, history>>

DrainEnds ==
    /\ pc = "draining"
    /\ DOMAIN jobs = {}
    /\ pc' = "exited"
    /\ exit' = "nil"
    /\ UNCHANGED <<reply, inbox, outbox, tables, world, now, history>>

(* EpochChanged at the top, or ErrEpoch from Poll just after it.           *)
EpochEnds ==
    /\ \/ pc = "top" /\ done = <<>> /\ ~ctxDone
       \/ pc = "poll"
    /\ epochChanged
    /\ pc' = "exited"
    /\ exit' = "nil"
    /\ UNCHANGED <<reply, inbox, outbox, tables, world, now, history>>

ReadClock ==
    /\ pc = "top"
    /\ done = <<>>
    /\ ~ctxDone
    /\ ~epochChanged
    /\ pc' = "poll"
    /\ now' = expired
    /\ UNCHANGED <<exit, reply, inbox, outbox, tables, world, history>>

PollNothing ==
    /\ pc = "poll"
    /\ ~epochChanged
    /\ inbox = <<>>
    /\ pc' = "top"
    /\ UNCHANGED <<exit, reply, inbox, outbox, tables, world, now, history>>

-----------------------------------------------------------------------------
(* One inbound frame.                                                      *)

Receive(type) ==
    /\ pc = "poll"
    /\ ~epochChanged
    /\ inbox # <<>>
    /\ Head(inbox).type = type
    /\ inbox' = Tail(inbox)
    /\ UNCHANGED <<outbox, done, world, now, answered>>

Cancel ==
    /\ Receive("cancel")
    /\ LET c == Head(inbox).corr IN
       /\ jobs' = IF c \in DOMAIN jobs THEN [jobs EXCEPT ![c].cancelled = TRUE] ELSE jobs
       /\ assemblies' = Without(assemblies, c)
    /\ pc' = "top"
    /\ UNCHANGED <<exit, reply, started>>

Ignore ==
    /\ Receive("other")
    /\ pc' = "top"
    /\ UNCHANGED <<exit, reply, assemblies, jobs, started>>

(* A frame the loop answers InvalidRequest: a bad one, or one for a        *)
(* correlation whose handler is still running.                             *)
InvalidAllowsBusy(f) == ~f.valid
Invalid(f) == ~f.valid \/ f.corr \in DOMAIN jobs

RejectInvalid ==
    /\ Receive("request")
    /\ Invalid(Head(inbox))
    /\ assemblies' = Without(assemblies, Head(inbox).corr)
    /\ Refuse(Head(inbox).corr, "InvalidRequest")
    /\ UNCHANGED <<jobs, started>>

(* No room for another assembly: the fragment is refused and forgotten.    *)
NoAssemblyRoom(c) ==
    c \notin DOMAIN assemblies /\ Cardinality(DOMAIN assemblies) >= MaxInFlight

RejectAssembly ==
    /\ Receive("request")
    /\ ~Invalid(Head(inbox))
    /\ NoAssemblyRoom(Head(inbox).corr)
    /\ Refuse(Head(inbox).corr, "Internal")
    /\ UNCHANGED <<assemblies, jobs, started>>

(* The assembly of c, new if there is none, with the fragment added.       *)
AssembledFresh(f) == <<f.chunk>>
Assembled(f) ==
    (IF f.corr \in DOMAIN assemblies THEN assemblies[f.corr] ELSE <<>>) \o <<f.chunk>>

Accepted(f) == ~Invalid(f) /\ ~NoAssemblyRoom(f.corr)

RejectOversize ==
    /\ Receive("request")
    /\ Accepted(Head(inbox))
    /\ Len(Assembled(Head(inbox))) > MaxBody
    /\ assemblies' = Without(assemblies, Head(inbox).corr)
    /\ Refuse(Head(inbox).corr, "Internal")
    /\ UNCHANGED <<jobs, started>>

KeepFragment ==
    /\ Receive("request")
    /\ LET f == Head(inbox) IN
       /\ Accepted(f)
       /\ Len(Assembled(f)) <= MaxBody
       /\ f.more
       /\ assemblies' = With(assemblies, f.corr, Assembled(f))
    /\ pc' = "top"
    /\ UNCHANGED <<exit, reply, jobs, started>>

(* The last fragment is here: the assembly is complete and is dropped.     *)
CompleteKeepsAssembly(f) ==
    /\ Receive("request")
    /\ Accepted(f)
    /\ Len(Assembled(f)) <= MaxBody
    /\ ~f.more
    /\ assemblies' = With(assemblies, f.corr, Assembled(f))

Complete(f) ==
    /\ Receive("request")
    /\ Accepted(f)
    /\ Len(Assembled(f)) <= MaxBody
    /\ ~f.more
    /\ assemblies' = Without(assemblies, f.corr)

RejectExpired ==
    /\ Complete(Head(inbox))
    /\ Head(inbox).corr \in now
    /\ Refuse(Head(inbox).corr, "DeadlineExceeded")
    /\ UNCHANGED <<jobs, started>>

JobsFullOffByOne == Cardinality(DOMAIN jobs) > MaxInFlight
JobsFull == Cardinality(DOMAIN jobs) >= MaxInFlight

RejectBusy ==
    /\ Complete(Head(inbox))
    /\ Head(inbox).corr \notin now
    /\ JobsFull
    /\ Refuse(Head(inbox).corr, "Internal")
    /\ UNCHANGED <<jobs, started>>

StartHandler ==
    /\ Complete(Head(inbox))
    /\ Head(inbox).corr \notin now
    /\ ~JobsFull
    /\ LET f == Head(inbox) IN
       /\ jobs' = With(jobs, f.corr,
                       [body |-> Assembled(f), cancelled |-> FALSE, running |-> TRUE])
       /\ started' = [started EXCEPT ![f.corr] = @ + 1]
    /\ pc' = "top"
    /\ UNCHANGED <<exit, reply>>

-----------------------------------------------------------------------------
HandleFrame ==
    \/ Cancel
    \/ Ignore
    \/ RejectInvalid
    \/ RejectAssembly
    \/ RejectOversize
    \/ KeepFragment
    \/ RejectExpired
    \/ RejectBusy
    \/ StartHandler

ServeLoop ==
    \/ FinishWork
    \/ ContextEnds
    \/ DrainResult
    \/ DrainEnds
    \/ EpochEnds
    \/ ReadClock
    \/ PollNothing
    \/ HandleFrame
    \/ ReplyFragment
    \/ ReplyEpoch
    \/ ReplyContext

(* What the process cannot control.                                        *)
EndContext ==
    /\ ~ctxDone
    /\ ctxDone' = TRUE
    /\ UNCHANGED <<loop, inbox, outbox, tables, epochChanged, expired, now, history>>

HostRestart ==
    /\ ~epochChanged
    /\ epochChanged' = TRUE
    /\ UNCHANGED <<loop, inbox, outbox, tables, ctxDone, expired, now, history>>

DeadlinePasses(c) ==
    /\ c \notin expired
    /\ expired' = expired \cup {c}
    /\ UNCHANGED <<loop, inbox, outbox, tables, ctxDone, epochChanged, now, history>>

-----------------------------------------------------------------------------
Corrs(results) == {results[i].corr : i \in 1 .. Len(results)}

(* `done` holds at most one result per job and only results of jobs, and   *)
(* there are at most MaxInFlight jobs: a goroutine never blocks sending    *)
(* to the channel, so shutdown can wait for all of them.                   *)
DoneNeverBlocks ==
    /\ Cardinality(DOMAIN jobs) <= MaxInFlight
    /\ Cardinality(Corrs(done)) = Len(done)
    /\ Corrs(done) = {c \in DOMAIN jobs : ~jobs[c].running}

(* Every handler ever started is accounted for: still a job, being         *)
(* replied, replied exactly once, or dropped by shutdown.                  *)
HandlersAccounted ==
    pc \notin {"draining", "exited"} =>
        \A c \in Calls :
            started[c] = answered[c]
                + (IF c \in DOMAIN jobs THEN 1 ELSE 0)
                + (IF reply # <<>> /\ reply[1].handled /\ reply[1].corr = c THEN 1 ELSE 0)

(* A clean return after the context ended leaves no goroutine running.     *)
CleanExitLeavesNoHandler ==
    exit = "nil" /\ ~epochChanged => DOMAIN jobs = {}
=============================================================================
