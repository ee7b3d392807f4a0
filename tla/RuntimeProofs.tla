--------------------------- MODULE RuntimeProofs ----------------------------
(***************************************************************************)
(* Proofs about the steps of ModuleRuntime, for any set of calls and any   *)
(* limits.  The module says how frames reach the loop nowhere, so what is  *)
(* proved first is that each step of the serve loop, of a handler and of   *)
(* the environment preserves RInv.  The end of this module puts the steps  *)
(* into the specification of a module process (ModuleServe): for any       *)
(* number of calls, any limit on concurrent handlers, any host and any     *)
(* number of frames, no result is lost or repeated and a clean exit leaves *)
(* no handler.  CallProofs puts them into the specification of calls.      *)
(*                                                                         *)
(* The argument: a job enters `done` once, when its handler returns, and   *)
(* leaves jobs and `done` together, so `done` lists the finished jobs      *)
(* without repetition (DoneInv).  With that, the handler counted when a    *)
(* call starts is found again in exactly one of jobs, reply and answered.  *)
(***************************************************************************)
EXTENDS ModuleServe, FiniteSetTheorems, TLAPS

Result == [corr : Calls, status : Statuses, size : Nat]
Job == [body : Seq(Nat), cancelled : BOOLEAN, running : BOOLEAN]

Distinct(results) ==
    \A i, j \in 1 .. Len(results) : results[i].corr = results[j].corr => i = j

DoneInv == DoneNeverBlocks /\ Distinct(done)

(* A reply is under way exactly while the loop is in replyModuleResult; a  *)
(* reply the loop gave up stays behind in a process that has exited.       *)
ReplyInv ==
    /\ pc = "reply" => Len(reply) = 1
    /\ pc \in {"top", "poll", "draining"} => reply = <<>>

ExitInv ==
    /\ exit = "none" <=> pc # "exited"
    /\ CleanExitLeavesNoHandler

RInv == TypeOK /\ DoneInv /\ ReplyInv /\ HandlersAccounted /\ ExitInv

-----------------------------------------------------------------------------
(* Go's map operations change the one key.                                 *)
LEMMA WithoutIs ==
  ASSUME NEW m, NEW k
  PROVE  /\ DOMAIN Without(m, k) = DOMAIN m \ {k}
         /\ \A j \in DOMAIN Without(m, k) : Without(m, k)[j] = m[j]
BY DEF Without

(* Taking the oldest result out of a list without repetitions removes its  *)
(* call from the calls listed.                                             *)
LEMMA CorrsTail ==
  ASSUME NEW s \in Seq(Result), s # <<>>, Distinct(s)
  PROVE  /\ Corrs(Tail(s)) = Corrs(s) \ {Head(s).corr}
         /\ Head(s).corr \in Corrs(s)
         /\ Distinct(Tail(s))
         /\ Len(Tail(s)) = Len(s) - 1
         /\ Tail(s) \in Seq(Result)
<1>1. /\ Len(s) \in Nat /\ Len(s) >= 1 /\ Head(s) = s[1]
      /\ Tail(s) \in Seq(Result) /\ Len(Tail(s)) = Len(s) - 1
      /\ \A i \in 1 .. Len(Tail(s)) : Tail(s)[i] = s[i + 1]
  OBVIOUS
<1>2. Corrs(Tail(s)) \subseteq Corrs(s) \ {Head(s).corr}
  <2> SUFFICES ASSUME NEW i \in 1 .. Len(Tail(s))
               PROVE  Tail(s)[i].corr \in Corrs(s) \ {Head(s).corr}
    BY DEF Corrs
  <2>1. i + 1 \in 1 .. Len(s) /\ 1 \in 1 .. Len(s) /\ i + 1 # 1
    BY <1>1
  <2>2. s[i + 1].corr # s[1].corr
    BY <2>1 DEF Distinct
  <2> QED BY <1>1, <2>1, <2>2 DEF Corrs
<1>3. Corrs(s) \ {Head(s).corr} \subseteq Corrs(Tail(s))
  <2> SUFFICES ASSUME NEW i \in 1 .. Len(s), s[i].corr # s[1].corr
               PROVE  s[i].corr \in Corrs(Tail(s))
    BY <1>1 DEF Corrs
  <2>1. i - 1 \in 1 .. Len(Tail(s)) /\ Tail(s)[i - 1] = s[i]
    BY <1>1
  <2> QED BY <2>1 DEF Corrs
<1>4. Head(s).corr \in Corrs(s)
  BY <1>1 DEF Corrs
<1>5. Distinct(Tail(s))
  <2> SUFFICES ASSUME NEW i \in 1 .. Len(Tail(s)), NEW j \in 1 .. Len(Tail(s)),
                      Tail(s)[i].corr = Tail(s)[j].corr
               PROVE  i = j
    BY DEF Distinct
  <2>1. i + 1 \in 1 .. Len(s) /\ j + 1 \in 1 .. Len(s)
    BY <1>1
  <2>2. i + 1 = j + 1
    BY <1>1, <2>1 DEF Distinct
  <2> QED BY <2>2
<1> QED BY <1>1, <1>2, <1>3, <1>4, <1>5

LEMMA CorrsAppend ==
  ASSUME NEW s \in Seq(Result), NEW r \in Result, Distinct(s), r.corr \notin Corrs(s)
  PROVE  /\ Corrs(Append(s, r)) = Corrs(s) \cup {r.corr}
         /\ Distinct(Append(s, r))
         /\ Len(Append(s, r)) = Len(s) + 1
         /\ Append(s, r) \in Seq(Result)
<1> DEFINE t == Append(s, r)
<1>1. /\ Len(s) \in Nat /\ t \in Seq(Result) /\ Len(t) = Len(s) + 1
      /\ t[Len(s) + 1] = r
      /\ \A i \in 1 .. Len(s) : t[i] = s[i]
  OBVIOUS
<1> HIDE DEF t
<1>2. Corrs(t) \subseteq Corrs(s) \cup {r.corr}
  <2> SUFFICES ASSUME NEW i \in 1 .. Len(t)
               PROVE  t[i].corr \in Corrs(s) \cup {r.corr}
    BY DEF Corrs
  <2>1. i \in 1 .. Len(s) \/ i = Len(s) + 1
    BY <1>1
  <2> QED BY <1>1, <2>1 DEF Corrs
<1>3. Corrs(s) \cup {r.corr} \subseteq Corrs(t)
  <2>1. r.corr \in Corrs(t)
    BY <1>1 DEF Corrs
  <2>2. ASSUME NEW i \in 1 .. Len(s) PROVE s[i].corr \in Corrs(t)
    <3>1. i \in 1 .. Len(t) /\ t[i] = s[i]
      BY <1>1
    <3> QED BY <3>1 DEF Corrs
  <2> QED BY <2>1, <2>2 DEF Corrs
<1>4. Distinct(t)
  <2> SUFFICES ASSUME NEW i \in 1 .. Len(t), NEW j \in 1 .. Len(t),
                      t[i].corr = t[j].corr
               PROVE  i = j
    BY DEF Distinct
  <2>1. CASE i \in 1 .. Len(s) /\ j \in 1 .. Len(s)
    BY <1>1, <2>1 DEF Distinct
  <2>2. CASE i = Len(s) + 1 /\ j \in 1 .. Len(s)
    BY <1>1, <2>2 DEF Corrs
  <2>3. CASE j = Len(s) + 1 /\ i \in 1 .. Len(s)
    BY <1>1, <2>3 DEF Corrs
  <2>4. CASE i = Len(s) + 1 /\ j = Len(s) + 1
    BY <2>4
  <2> QED BY <1>1, <2>1, <2>2, <2>3, <2>4
<1> QED BY <1>1, <1>2, <1>3, <1>4 DEF t

-----------------------------------------------------------------------------
(* The channel of finished work.                                           *)

LEMMA FiniteTables ==
  ASSUME TypeOK
  PROVE  /\ IsFiniteSet(DOMAIN jobs) /\ Cardinality(DOMAIN jobs) \in Nat
         /\ IsFiniteSet(Corrs(done)) /\ Cardinality(Corrs(done)) \in Nat
<1>1. DOMAIN jobs \in SUBSET Calls
  BY DEF TypeOK
<1>2. Corrs(done) \in SUBSET Calls
  <2>1. done \in Seq(Result)
    BY DEF TypeOK, Result
  <2>2. \A i \in 1 .. Len(done) : done[i] \in Result
    BY <2>1
  <2>3. \A i \in 1 .. Len(done) : done[i].corr \in Calls
    BY <2>2 DEF Result
  <2> QED BY <2>3 DEF Corrs
<1>3. IsFiniteSet(Calls)
  BY RuntimeAssumption
<1>4. IsFiniteSet(DOMAIN jobs) /\ IsFiniteSet(Corrs(done))
  BY <1>1, <1>2, <1>3, FS_Subset, SMTT(40)
<1> QED BY <1>4, FS_CardinalityType

(* The loop takes the oldest result: its job goes with it.                 *)
LEMMA TakeResult ==
  ASSUME TypeOK, DoneInv, done # <<>>, done' = Tail(done),
         jobs' = Without(jobs, Head(done).corr)
  PROVE  /\ DoneInv'
         /\ done' \in Seq(Result)
         /\ Head(done).corr \in DOMAIN jobs
         /\ Head(done) \in Result
         /\ DOMAIN jobs' = DOMAIN jobs \ {Head(done).corr}
         /\ \A c \in DOMAIN jobs' : jobs'[c] = jobs[c]
<1> DEFINE c == Head(done).corr
<1>0. /\ IsFiniteSet(DOMAIN jobs) /\ Cardinality(DOMAIN jobs) \in Nat
      /\ IsFiniteSet(Corrs(done))
  BY FiniteTables
<1>1. done \in Seq(Result) /\ Head(done) \in Result
  <2>1. done \in Seq(Result)
    BY DEF TypeOK, Result
  <2> QED BY <2>1
<1>2. /\ Corrs(Tail(done)) = Corrs(done) \ {c} /\ c \in Corrs(done)
      /\ Distinct(Tail(done)) /\ Len(Tail(done)) = Len(done) - 1
      /\ Tail(done) \in Seq(Result)
  BY <1>1, CorrsTail DEF DoneInv
<1>3. c \in DOMAIN jobs
  BY <1>2 DEF DoneInv, DoneNeverBlocks
<1>4. DOMAIN jobs' = DOMAIN jobs \ {c} /\ \A d \in DOMAIN jobs' : jobs'[d] = jobs[d]
  BY WithoutIs
<1>5. Cardinality(DOMAIN jobs') <= MaxInFlight
  <2>1. Cardinality(DOMAIN jobs \ {c}) = Cardinality(DOMAIN jobs) - 1
    BY <1>0, <1>3, FS_RemoveElement
  <2> QED BY <1>0, <1>4, <2>1, RuntimeAssumption DEF DoneInv, DoneNeverBlocks
<1>6. Cardinality(Corrs(done')) = Len(done')
  <2>1. Cardinality(Corrs(done) \ {c}) = Cardinality(Corrs(done)) - 1
    BY <1>0, <1>2, FS_RemoveElement
  <2> QED BY <1>2, <2>1 DEF DoneInv, DoneNeverBlocks
<1>7. Corrs(done') = {d \in DOMAIN jobs' : ~jobs'[d].running}
  BY <1>2, <1>4, SMTT(40) DEF DoneInv, DoneNeverBlocks
<1> QED BY <1>1, <1>2, <1>3, <1>4, <1>5, <1>6, <1>7 DEF DoneInv, DoneNeverBlocks, Distinct, Corrs

(* Setting cancel flags, or nothing, leaves the channel's promise alone.   *)
LEMMA KeepResults ==
  ASSUME DoneInv, done' = done, DOMAIN jobs' = DOMAIN jobs,
         \A c \in DOMAIN jobs : jobs'[c].running = jobs[c].running
  PROVE  DoneInv'
BY ZenonT(60) DEF DoneInv, DoneNeverBlocks, Distinct, Corrs

(* A handler's result enters the channel: the call was not in it, for its  *)
(* job was running.                                                        *)
LEMMA GiveResult ==
  ASSUME TypeOK, DoneInv, NEW c \in DOMAIN jobs, jobs[c].running,
         NEW r \in Result, r.corr = c, done' = Append(done, r),
         jobs' = [jobs EXCEPT ![c].running = FALSE]
  PROVE  DoneInv' /\ done' \in Seq(Result) /\ DOMAIN jobs' = DOMAIN jobs
<1>1. done \in Seq(Result) /\ c \notin Corrs(done)
  BY DEF TypeOK, Result, DoneInv, DoneNeverBlocks
<1>2. /\ Corrs(done') = Corrs(done) \cup {c} /\ Distinct(done')
      /\ Len(done') = Len(done) + 1 /\ done' \in Seq(Result)
  BY <1>1, CorrsAppend DEF DoneInv
<1>3. /\ DOMAIN jobs' = DOMAIN jobs
      /\ \A d \in DOMAIN jobs : d # c => jobs'[d] = jobs[d]
  OBVIOUS
<1>4. ~jobs'[c].running
  <2>1. jobs[c] \in Job
    BY DEF TypeOK, Job
  <2> QED BY <2>1 DEF Job
<1>5. Cardinality(Corrs(done')) = Len(done')
  <2>1. IsFiniteSet(Corrs(done))
    BY FiniteTables
  <2>2. Cardinality(Corrs(done) \cup {c}) = Cardinality(Corrs(done)) + 1
    BY <1>1, <2>1, FS_AddElement
  <2> QED BY <1>2, <2>2 DEF DoneInv, DoneNeverBlocks
<1>6. Corrs(done') = {d \in DOMAIN jobs' : ~jobs'[d].running}
  BY <1>2, <1>3, <1>4 DEF DoneInv, DoneNeverBlocks
<1> QED BY <1>2, <1>3, <1>5, <1>6 DEF DoneInv, DoneNeverBlocks, Distinct, Corrs

(* A new job is running and there was room for it.                         *)
LEMMA AddJob ==
  ASSUME TypeOK, DoneInv, NEW c \in Calls, c \notin DOMAIN jobs, ~JobsFull,
         NEW j \in Job, j.running, done' = done, jobs' = With(jobs, c, j)
  PROVE  /\ DoneInv' 
         /\ DOMAIN jobs' = DOMAIN jobs \cup {c}
         /\ jobs'[c] = j
         /\ \A d \in DOMAIN jobs : jobs'[d] = jobs[d]
<1>1. /\ DOMAIN jobs' = DOMAIN jobs \cup {c} /\ jobs'[c] = j
      /\ \A d \in DOMAIN jobs : jobs'[d] = jobs[d]
  BY DEF With
<1>2. Cardinality(DOMAIN jobs') <= MaxInFlight
  <2>1. IsFiniteSet(DOMAIN jobs) /\ Cardinality(DOMAIN jobs) \in Nat
    BY FiniteTables
  <2>2. Cardinality(DOMAIN jobs \cup {c}) = Cardinality(DOMAIN jobs) + 1
    BY <2>1, FS_AddElement
  <2> QED BY <1>1, <2>1, <2>2, RuntimeAssumption DEF JobsFull
<1>3. Corrs(done') = {d \in DOMAIN jobs' : ~jobs'[d].running}
  <2>1. jobs'[c].running
    BY <1>1
  <2>2. {d \in DOMAIN jobs' : ~jobs'[d].running} = {d \in DOMAIN jobs : ~jobs[d].running}
    BY <1>1, <2>1
  <2>3. Corrs(done') = Corrs(done)
    BY DEF Corrs
  <2> QED BY <2>2, <2>3 DEF DoneInv, DoneNeverBlocks
<1>4. Cardinality(Corrs(done')) = Len(done') /\ Distinct(done')
  BY DEF DoneInv, DoneNeverBlocks
<1> QED BY <1>1, <1>2, <1>3, <1>4 DEF DoneInv, DoneNeverBlocks

-----------------------------------------------------------------------------
(* Received frames and assemblies.                                         *)

Frames == Fragment \cup Control
AssembliesOK == /\ DOMAIN assemblies \subseteq Calls
                /\ \A c \in DOMAIN assemblies : assemblies[c] \in Seq(Nat)

LEMMA Received ==
  ASSUME TypeOK, inbox # <<>>
  PROVE  /\ Tail(inbox) \in Seq(Frames)
         /\ Head(inbox).corr \in Calls
         /\ Head(inbox).type = "request" => Head(inbox) \in Fragment
<1>1. inbox \in Seq(Frames)
  BY DEF TypeOK, Frames
<1>2. Tail(inbox) \in Seq(Frames) /\ Head(inbox) \in Frames
  BY <1>1
<1>3. ASSUME NEW f \in Frames
      PROVE  f.corr \in Calls /\ (f.type = "request" => f \in Fragment)
  BY DEF Frames, Fragment, Control
<1> QED BY <1>2, <1>3

LEMMA ForgetAssembly ==
  ASSUME TypeOK, NEW c, assemblies' = Without(assemblies, c)
  PROVE  AssembliesOK'
BY DEF Without, TypeOK, AssembliesOK

LEMMA AssembledType ==
  ASSUME TypeOK, NEW f \in Fragment
  PROVE  Assembled(f) \in Seq(Nat)
<1>1. f.chunk \in Nat
  BY DEF Fragment
<1>2. <<f.chunk>> \in Seq(Nat)
  BY <1>1
<1>3. (IF f.corr \in DOMAIN assemblies THEN assemblies[f.corr] ELSE <<>>) \in Seq(Nat)
  BY DEF TypeOK
<1> QED BY <1>2, <1>3 DEF Assembled

(* A frame that is answered at once: the loop goes to the reply path with  *)
(* a reply that stands for no handler.                                     *)
LEMMA RefuseStep ==
  ASSUME RInv, pc = "poll", NEW c \in Calls, NEW st \in Statuses, Refuse(c, st),
         inbox' \in Seq(Frames), AssembliesOK',
         UNCHANGED <<jobs, done, outbox, world, now, history>>
  PROVE  RInv'
<1> USE DEF RInv
<1>1. /\ pc' = "reply" /\ exit' = exit
      /\ reply' = <<[corr |-> c, status |-> st, part |-> 1, size |-> 1, handled |-> FALSE]>>
  BY DEF Refuse, StartReply
<1>2. reply' \in Seq(Reply) /\ Len(reply') = 1 /\ ~reply'[1].handled
  BY <1>1 DEF Reply
<1>3. TypeOK'
  BY <1>1, <1>2 DEF TypeOK, world, history, Frames, AssembliesOK
<1>4. DoneInv'
  BY KeepResults
<1>5. ReplyInv'
  BY <1>1, <1>2 DEF ReplyInv
<1>6. HandlersAccounted'
  BY <1>1, <1>2 DEF HandlersAccounted, ReplyInv, history, TypeOK
<1>7. ExitInv'
  BY <1>1 DEF ExitInv, CleanExitLeavesNoHandler, world
<1> QED BY <1>3, <1>4, <1>5, <1>6, <1>7

(* A frame that is taken without an answer and starts no handler.          *)
LEMMA SilentStep ==
  ASSUME RInv, pc = "poll", pc' = "top", UNCHANGED <<exit, reply>>,
         inbox' \in Seq(Frames), AssembliesOK',
         UNCHANGED <<done, outbox, world, now, history>>,
         DOMAIN jobs' = DOMAIN jobs,
         \A c \in DOMAIN jobs : jobs'[c] \in Job /\ jobs'[c].running = jobs[c].running
  PROVE  RInv'
<1> USE DEF RInv
<1>1. TypeOK'
  BY DEF TypeOK, world, history, Frames, AssembliesOK, Job
<1>2. DoneInv'
  BY KeepResults
<1>3. ReplyInv'
  BY DEF ReplyInv
<1>4. HandlersAccounted'
  BY DEF HandlersAccounted, ReplyInv, history
<1>5. ExitInv'
  BY DEF ExitInv, CleanExitLeavesNoHandler, world
<1> QED BY <1>1, <1>2, <1>3, <1>4, <1>5

LEMMA StartHandlerStep ==
  ASSUME RInv, StartHandler
  PROVE  RInv'
<1> DEFINE f == Head(inbox)
           j == [body |-> Assembled(f), cancelled |-> FALSE, running |-> TRUE]
<1>1. /\ pc = "poll" /\ pc' = "top" /\ inbox # <<>> /\ f.type = "request"
      /\ inbox' = Tail(inbox) /\ UNCHANGED <<outbox, done, world, now, answered, exit, reply>>
      /\ f.corr \notin DOMAIN jobs /\ ~JobsFull
      /\ jobs' = With(jobs, f.corr, j)
      /\ started' = [started EXCEPT ![f.corr] = @ + 1]
      /\ assemblies' = Without(assemblies, f.corr)
  BY DEF StartHandler, Complete, Receive, Accepted, Invalid
<1>2. f \in Fragment /\ f.corr \in Calls /\ inbox' \in Seq(Frames)
  BY <1>1, Received DEF RInv
<1>3. j \in Job /\ j.running
  BY <1>2, AssembledType DEF Job, RInv
<1> HIDE DEF j, f
<1>4. /\ DoneInv' /\ DOMAIN jobs' = DOMAIN jobs \cup {f.corr}
      /\ jobs'[f.corr] = j /\ \A d \in DOMAIN jobs : jobs'[d] = jobs[d]
  BY <1>1, <1>2, <1>3, AddJob DEF RInv
<1>5. AssembliesOK'
  BY <1>1, ForgetAssembly DEF RInv
<1>6. /\ started' \in [Calls -> Nat]
      /\ started'[f.corr] = started[f.corr] + 1
      /\ \A d \in Calls : d # f.corr => started'[d] = started[d]
  BY <1>1, <1>2 DEF RInv, TypeOK
<1>7. \A d \in DOMAIN jobs' : jobs'[d] \in Job
  BY <1>3, <1>4 DEF RInv, TypeOK, Job
<1>8. TypeOK'
  BY <1>1, <1>2, <1>4, <1>5, <1>6, <1>7 DEF RInv, TypeOK, world, Frames, AssembliesOK, Job
<1>9. ReplyInv'
  BY <1>1 DEF RInv, ReplyInv
<1>10. HandlersAccounted'
  <2>1. reply = <<>> /\ reply' = <<>>
    BY <1>1 DEF RInv, ReplyInv
  <2>2. \A d \in Calls : started[d] = answered[d] + (IF d \in DOMAIN jobs THEN 1 ELSE 0)
    BY <1>1, <2>1 DEF RInv, HandlersAccounted, TypeOK
  <2> QED BY <1>1, <1>2, <1>4, <1>6, <2>1, <2>2 DEF RInv, TypeOK, HandlersAccounted
<1>11. ExitInv'
  BY <1>1 DEF RInv, ExitInv, CleanExitLeavesNoHandler
<1> QED BY <1>4, <1>8, <1>9, <1>10, <1>11 DEF RInv

(* One inbound frame, whatever it is.                                      *)
LEMMA FrameStep ==
  ASSUME RInv, HandleFrame
  PROVE  RInv'
<1> DEFINE f == Head(inbox)
           Taken == /\ pc = "poll" /\ inbox # <<>> /\ inbox' = Tail(inbox)
                    /\ UNCHANGED <<outbox, done, world, now, answered>>
<1>0. ASSUME Taken
      PROVE  f.corr \in Calls /\ inbox' \in Seq(Frames)
  BY <1>0, Received DEF RInv
<1>1. ASSUME Taken, UNCHANGED <<jobs, started>>, AssembliesOK',
             NEW st \in Statuses, Refuse(f.corr, st)
      PROVE  RInv'
  <2>1. UNCHANGED <<jobs, done, outbox, world, now, history>>
    BY <1>1 DEF history
  <2> QED BY <1>0, <1>1, <2>1, RefuseStep
<1>2. AssembliesOK /\ \A c \in DOMAIN jobs : jobs[c] \in Job
  BY DEF RInv, TypeOK, AssembliesOK, Job
<1>3. CASE Cancel
  <2>1. Taken /\ UNCHANGED <<exit, reply, started>> /\ pc' = "top"
        /\ assemblies' = Without(assemblies, f.corr)
        /\ jobs' = IF f.corr \in DOMAIN jobs
                    THEN [jobs EXCEPT ![f.corr].cancelled = TRUE] ELSE jobs
    BY <1>3 DEF Cancel, Receive
  <2>2. AssembliesOK'
    BY <2>1, ForgetAssembly DEF RInv
  <2> HIDE DEF f
  <2>3. /\ DOMAIN jobs' = DOMAIN jobs
        /\ \A c \in DOMAIN jobs : jobs'[c] \in Job /\ jobs'[c].running = jobs[c].running
    BY <1>2, <2>1 DEF Job
  <2>4. UNCHANGED <<done, outbox, world, now, history>>
    BY <2>1 DEF history
  <2> QED BY <1>0, <2>1, <2>2, <2>3, <2>4, SilentStep
<1>4. CASE Ignore
  <2>1. Taken /\ UNCHANGED <<exit, reply, assemblies, jobs, started>> /\ pc' = "top"
    BY <1>4 DEF Ignore, Receive
  <2>2. UNCHANGED <<done, outbox, world, now, history>>
    BY <2>1 DEF history
  <2>3. AssembliesOK'
    BY <1>2, <2>1 DEF AssembliesOK
  <2> QED BY <1>0, <1>2, <2>1, <2>2, <2>3, SilentStep
<1>5. CASE RejectInvalid
  <2>1. Taken /\ UNCHANGED <<jobs, started>> /\ Refuse(f.corr, "InvalidRequest")
        /\ assemblies' = Without(assemblies, f.corr)
    BY <1>5 DEF RejectInvalid, Receive
  <2>2. AssembliesOK'
    BY <2>1, ForgetAssembly DEF RInv
  <2> QED BY <1>1, <2>1, <2>2 DEF Statuses
<1>6. CASE RejectAssembly
  <2>1. Taken /\ UNCHANGED <<assemblies, jobs, started>> /\ Refuse(f.corr, "Internal")
    BY <1>6 DEF RejectAssembly, Receive
  <2>2. AssembliesOK'
    BY <1>2, <2>1 DEF AssembliesOK
  <2> QED BY <1>1, <2>1, <2>2 DEF Statuses
<1>7. CASE RejectOversize
  <2>1. Taken /\ UNCHANGED <<jobs, started>> /\ Refuse(f.corr, "Internal")
        /\ assemblies' = Without(assemblies, f.corr)
    BY <1>7 DEF RejectOversize, Receive
  <2>2. AssembliesOK'
    BY <2>1, ForgetAssembly DEF RInv
  <2> QED BY <1>1, <2>1, <2>2 DEF Statuses
<1>8. CASE KeepFragment
  <2>1. /\ Taken /\ UNCHANGED <<exit, reply, jobs, started>> /\ pc' = "top"
        /\ f.type = "request"
        /\ assemblies' = With(assemblies, f.corr, Assembled(f))
    BY <1>8 DEF KeepFragment, Receive
  <2>2. f.corr \in Calls /\ Assembled(f) \in Seq(Nat)
    BY <2>1, Received, AssembledType DEF RInv
  <2> HIDE DEF f
  <2>3. AssembliesOK'
    BY <1>2, <2>1, <2>2 DEF AssembliesOK, With
  <2>4. UNCHANGED <<done, outbox, world, now, history>>
    BY <2>1 DEF history
  <2> QED BY <1>0, <1>2, <2>1, <2>3, <2>4, SilentStep
<1>9. ASSUME Complete(f), UNCHANGED <<jobs, started>>,
             NEW st \in Statuses, Refuse(f.corr, st)
      PROVE  RInv'
  <2>1. Taken /\ assemblies' = Without(assemblies, f.corr)
    BY <1>9 DEF Complete, Receive
  <2>2. AssembliesOK'
    BY <2>1, ForgetAssembly DEF RInv
  <2> QED BY <1>1, <1>9, <2>1, <2>2
<1>10. CASE RejectExpired
  <2>1. Complete(f) /\ UNCHANGED <<jobs, started>> /\ Refuse(f.corr, "DeadlineExceeded")
    BY <1>10 DEF RejectExpired
  <2> QED BY <1>9, <2>1 DEF Statuses
<1>11. CASE RejectBusy
  <2>1. Complete(f) /\ UNCHANGED <<jobs, started>> /\ Refuse(f.corr, "Internal")
    BY <1>11 DEF RejectBusy
  <2> QED BY <1>9, <2>1 DEF Statuses
<1>12. CASE StartHandler
  BY <1>12, StartHandlerStep
<1> QED
  BY <1>3, <1>4, <1>5, <1>6, <1>7, <1>8, <1>10, <1>11, <1>12 DEF HandleFrame

-----------------------------------------------------------------------------
(* The other steps of the loop.                                            *)

(* The result of a handler leaves `done`, its job leaves jobs, and it      *)
(* becomes the reply.                                                      *)
LEMMA FinishWorkStep ==
  ASSUME RInv, FinishWork
  PROVE  RInv'
<1> DEFINE h == Head(done)
<1>1. /\ pc = "top" /\ pc' = "reply" /\ UNCHANGED exit /\ done # <<>>
      /\ done' = Tail(done) /\ jobs' = Without(jobs, h.corr)
      /\ reply' = <<[corr |-> h.corr, status |-> h.status, part |-> 1, size |-> h.size,
                     handled |-> TRUE]>>
      /\ UNCHANGED <<inbox, outbox, assemblies, world, now, history>>
  BY DEF FinishWork, StartReply
<1>2. /\ DoneInv' /\ done' \in Seq(Result) /\ h.corr \in DOMAIN jobs /\ h \in Result
      /\ DOMAIN jobs' = DOMAIN jobs \ {h.corr}
      /\ \A c \in DOMAIN jobs' : jobs'[c] = jobs[c]
  BY <1>1, TakeResult DEF RInv
<1> HIDE DEF h
<1>3. /\ reply' \in Seq(Reply) /\ Len(reply') = 1 /\ reply' # <<>>
      /\ reply'[1].handled /\ reply'[1].corr = h.corr
  BY <1>1, <1>2 DEF Reply, Result
<1>4. TypeOK'
  BY <1>1, <1>2, <1>3, SMTT(40) DEF RInv, TypeOK, world, history, Result
<1>5. ReplyInv'
  BY <1>1, <1>3 DEF ReplyInv
<1>6. HandlersAccounted'
  <2>1. \A d \in Calls : started[d] = answered[d] + (IF d \in DOMAIN jobs THEN 1 ELSE 0)
    BY <1>1 DEF RInv, HandlersAccounted, ReplyInv, TypeOK
  <2> QED BY <1>1, <1>2, <1>3, <2>1, SMTT(40) DEF RInv, TypeOK, HandlersAccounted, history
<1>7. ExitInv'
  BY <1>1 DEF RInv, ExitInv, CleanExitLeavesNoHandler
<1> QED BY <1>2, <1>4, <1>5, <1>6, <1>7 DEF RInv

LEMMA DrainResultStep ==
  ASSUME RInv, DrainResult
  PROVE  RInv'
<1> DEFINE h == Head(done)
<1>1. /\ pc = "draining" /\ pc' = "draining" /\ UNCHANGED <<exit, reply>> /\ done # <<>>
      /\ done' = Tail(done) /\ jobs' = Without(jobs, h.corr)
      /\ UNCHANGED <<inbox, outbox, assemblies, world, now, history>>
  BY DEF DrainResult, loop
<1>2. /\ DoneInv' /\ done' \in Seq(Result)
      /\ DOMAIN jobs' = DOMAIN jobs \ {h.corr}
      /\ \A c \in DOMAIN jobs' : jobs'[c] = jobs[c]
  BY <1>1, TakeResult DEF RInv
<1>3. TypeOK'
  BY <1>1, <1>2 DEF RInv, TypeOK, world, history, Result
<1>4. ReplyInv' /\ HandlersAccounted' /\ ExitInv'
  BY <1>1 DEF RInv, ReplyInv, HandlersAccounted, ExitInv, CleanExitLeavesNoHandler
<1> QED BY <1>2, <1>3, <1>4 DEF RInv

(* One fragment of a reply; the last one answers the call.                 *)
LEMMA ReplyFragmentStep ==
  ASSUME RInv, ReplyFragment
  PROVE  RInv'
<1> DEFINE r == reply[1]
           last == r.part = r.size
           out == [corr |-> r.corr, status |-> r.status, part |-> r.part, more |-> ~last]
<1>1. /\ pc = "reply" /\ UNCHANGED <<exit, inbox, assemblies, jobs, done, world, now, started>>
      /\ outbox' = Append(outbox, out)
      /\ reply' = IF last THEN <<>> ELSE <<[r EXCEPT !.part = @ + 1]>>
      /\ pc' = IF last THEN "top" ELSE "reply"
      /\ answered' = IF last /\ r.handled
                     THEN [answered EXCEPT ![r.corr] = @ + 1] ELSE answered
  BY DEF ReplyFragment, tables
<1>2. Len(reply) = 1 /\ reply # <<>> /\ r \in Reply
  <2>1. Len(reply) = 1 /\ reply \in Seq(Reply)
    BY <1>1 DEF RInv, ReplyInv, TypeOK
  <2> QED BY <2>1
<1>3. out \in [corr : Calls, status : Statuses, part : Nat, more : BOOLEAN]
  BY <1>2 DEF Reply
<1> HIDE DEF out
<1>4. outbox' \in Seq([corr : Calls, status : Statuses, part : Nat, more : BOOLEAN])
  BY <1>1, <1>3 DEF RInv, TypeOK
<1>5. /\ [r EXCEPT !.part = @ + 1] \in Reply
      /\ [r EXCEPT !.part = @ + 1].corr = r.corr
      /\ [r EXCEPT !.part = @ + 1].handled = r.handled
      /\ r.corr \in Calls
  BY <1>2 DEF Reply
<1>6. /\ reply' \in Seq(Reply) /\ Len(reply') <= 1
      /\ (pc' = "reply" => Len(reply') = 1) /\ (pc' = "top" => reply' = <<>>)
  BY <1>1, <1>5
<1>7. answered' \in [Calls -> Nat]
  <2>1. answered \in [Calls -> Nat]
    BY DEF RInv, TypeOK
  <2> QED BY <1>1, <1>5, <2>1
<1>8. TypeOK'
  BY <1>1, <1>4, <1>6, <1>7 DEF RInv, TypeOK, world
<1>9. DoneInv'
  BY <1>1, KeepResults DEF RInv
<1>10. ReplyInv'
  BY <1>1, <1>6 DEF ReplyInv
<1>11. HandlersAccounted'
  <2>1. \A c \in Calls :
           started[c] = answered[c] + (IF c \in DOMAIN jobs THEN 1 ELSE 0)
                                    + (IF r.handled /\ r.corr = c THEN 1 ELSE 0)
    BY <1>1, <1>2 DEF RInv, HandlersAccounted
  <2>2. CASE last
    <3>1. reply' = <<>> /\ pc' = "top"
      BY <1>1, <2>2
    <3>2. \A c \in Calls :
            answered'[c] = answered[c] + (IF r.handled /\ r.corr = c THEN 1 ELSE 0)
      BY <1>1, <1>5, <2>2 DEF RInv, TypeOK
    <3>3. \A c \in Calls : started[c] \in Nat /\ answered[c] \in Nat
      BY DEF RInv, TypeOK
    <3>4. \A c \in Calls :
            started[c] = answered'[c] + (IF c \in DOMAIN jobs THEN 1 ELSE 0) + 0
      BY <2>1, <3>2, <3>3
    <3> QED BY <1>1, <3>1, <3>4 DEF HandlersAccounted
  <2>3. CASE ~last
    <3>1. /\ reply' # <<>> /\ reply'[1].handled = r.handled /\ reply'[1].corr = r.corr
          /\ answered' = answered /\ pc' = "reply"
      BY <1>1, <1>5, <2>3
    <3> QED BY <1>1, <2>1, <3>1 DEF HandlersAccounted
  <2> QED BY <2>2, <2>3
<1>12. ExitInv'
  BY <1>1 DEF RInv, ExitInv, CleanExitLeavesNoHandler, world
<1> QED BY <1>8, <1>9, <1>10, <1>11, <1>12 DEF RInv

(* Shutdown marks every job cancelled and waits for them.                  *)
LEMMA ContextEndsStep ==
  ASSUME RInv, ContextEnds
  PROVE  RInv'
<1>1. /\ pc = "top" /\ pc' = "draining"
      /\ jobs' = [c \in DOMAIN jobs |-> [jobs[c] EXCEPT !.cancelled = TRUE]]
      /\ UNCHANGED <<exit, reply, inbox, outbox, assemblies, done, world, now, history>>
  BY DEF ContextEnds
<1>2. /\ DOMAIN jobs' = DOMAIN jobs
      /\ \A c \in DOMAIN jobs : jobs'[c] \in Job /\ jobs'[c].running = jobs[c].running
  <2>1. \A c \in DOMAIN jobs : jobs[c] \in Job
    BY DEF RInv, TypeOK, Job
  <2> QED BY <1>1, <2>1 DEF Job
<1>3. TypeOK'
  BY <1>1, <1>2 DEF RInv, TypeOK, world, history, Job
<1>4. DoneInv'
  BY <1>1, <1>2, KeepResults DEF RInv
<1>5. ReplyInv' /\ HandlersAccounted' /\ ExitInv'
  BY <1>1 DEF RInv, ReplyInv, HandlersAccounted, ExitInv, CleanExitLeavesNoHandler
<1> QED BY <1>3, <1>4, <1>5 DEF RInv

(* Steps that move the loop and touch no job: a clean return needs the     *)
(* jobs gone, or a restart of the host seen.                               *)
LEMMA MoveStep ==
  ASSUME RInv, DrainEnds \/ EpochEnds \/ ReadClock \/ PollNothing
               \/ ReplyEpoch \/ ReplyContext
  PROVE  RInv'
<1>1. UNCHANGED <<reply, inbox, outbox, assemblies, jobs, done, world, history>>
  BY DEF DrainEnds, EpochEnds, ReadClock, PollNothing, ReplyEpoch, ReplyContext, tables
<1>2. \/ /\ pc \in {"top", "poll"} /\ pc' \in {"top", "poll"} /\ exit' = exit
      \/ /\ pc # "exited" /\ pc' = "exited"
         /\ exit' \in {"nil", "ErrEpoch", "ctxErr"}
         /\ exit' = "nil" => DOMAIN jobs = {} \/ epochChanged
  BY DEF DrainEnds, EpochEnds, ReadClock, PollNothing, ReplyEpoch, ReplyContext
<1>3. now' \subseteq Calls
  BY DEF RInv, TypeOK, DrainEnds, EpochEnds, ReadClock, PollNothing, ReplyEpoch, ReplyContext
<1>4. TypeOK'
  BY <1>1, <1>2, <1>3 DEF RInv, TypeOK, world, history
<1>5. DoneInv'
  BY <1>1, KeepResults DEF RInv
<1>6. ReplyInv' /\ ExitInv'
  BY <1>1, <1>2 DEF RInv, ReplyInv, ExitInv, CleanExitLeavesNoHandler, world
<1>7. HandlersAccounted'
  BY <1>1, <1>2 DEF RInv, HandlersAccounted, history
<1> QED BY <1>4, <1>5, <1>6, <1>7 DEF RInv

(* Every step of the serve loop preserves the invariant.                   *)
LEMMA LoopStep ==
  ASSUME RInv, ServeLoop
  PROVE  RInv'
BY FrameStep, FinishWorkStep, DrainResultStep, ReplyFragmentStep, ContextEndsStep, MoveStep
   DEF ServeLoop

(* A handler returns, at whatever point the loop is, also after its exit.  *)
LEMMA HandlerStep ==
  ASSUME RInv, NEW c \in Calls, HandlerReturns(c)
  PROVE  RInv'
<1>1. PICK st \in {"OK", "unknown"}, n \in 1 .. MaxReply :
        done' = Append(done, [corr |-> c, status |-> Outcome(c, Normalise(st)),
                       size |-> IF Outcome(c, Normalise(st)) = "OK" THEN n ELSE 1])
  BY DEF HandlerReturns
<1> DEFINE r == [corr |-> c, status |-> Outcome(c, Normalise(st)),
                 size |-> IF Outcome(c, Normalise(st)) = "OK" THEN n ELSE 1]
<1>2. r \in Result /\ r.corr = c
  <2>1. Outcome(c, Normalise(st)) \in Statuses
    BY DEF Outcome, Normalise, Statuses
  <2>2. n \in Nat
    BY RuntimeAssumption
  <2> QED BY <2>1, <2>2 DEF Result
<1>3. /\ c \in DOMAIN jobs /\ jobs[c].running /\ done' = Append(done, r)
      /\ jobs' = [jobs EXCEPT ![c].running = FALSE]
      /\ UNCHANGED <<pc, exit, reply, inbox, outbox, assemblies, world, now, history>>
  BY <1>1 DEF HandlerReturns, loop
<1> HIDE DEF r
<1>4. DoneInv' /\ done' \in Seq(Result) /\ DOMAIN jobs' = DOMAIN jobs
  BY <1>2, <1>3, GiveResult DEF RInv
<1>5. \A d \in DOMAIN jobs' : jobs'[d] \in Job
  <2>1. \A d \in DOMAIN jobs : jobs[d] \in Job
    BY DEF RInv, TypeOK, Job
  <2> QED BY <1>3, <2>1 DEF Job
<1>6. TypeOK'
  BY <1>3, <1>4, <1>5 DEF RInv, TypeOK, world, history, Result, Job
<1>7. ReplyInv' /\ ExitInv'
  BY <1>3, <1>4 DEF RInv, ReplyInv, ExitInv, CleanExitLeavesNoHandler, world
<1>8. HandlersAccounted'
  BY <1>3, <1>4 DEF RInv, HandlersAccounted, history
<1> QED BY <1>4, <1>6, <1>7, <1>8 DEF RInv

(* The context ends, the host restarts, a deadline passes, frames enter    *)
(* and leave the rings: nothing of this touches the loop's tables.         *)
LEMMA WorldStep ==
  ASSUME RInv, UNCHANGED <<loop, tables, now, history>>,
         inbox' \in Seq(Frames),
         outbox' \in Seq([corr : Calls, status : Statuses, part : Nat, more : BOOLEAN]),
         ctxDone' \in BOOLEAN, epochChanged' \in BOOLEAN, epochChanged => epochChanged',
         expired' \subseteq Calls
  PROVE  RInv'
<1>1. UNCHANGED <<pc, exit, reply, assemblies, jobs, done, now, started, answered>>
  BY DEF loop, tables, history
<1>2. TypeOK'
  BY <1>1 DEF RInv, TypeOK, Frames
<1>3. DoneInv'
  BY <1>1, KeepResults DEF RInv
<1>4. ReplyInv' /\ ExitInv'
  BY <1>1 DEF RInv, ReplyInv, ExitInv, CleanExitLeavesNoHandler
<1>5. HandlersAccounted'
  BY <1>1 DEF RInv, HandlersAccounted
<1> QED BY <1>2, <1>3, <1>4, <1>5 DEF RInv

LEMMA StutterStep ==
  ASSUME RInv, UNCHANGED vars
  PROVE  RInv'
<1>1. UNCHANGED <<loop, tables, now, history, inbox, outbox, ctxDone, epochChanged, expired>>
  BY DEF vars, world
<1>2. /\ inbox' \in Seq(Frames)
      /\ outbox' \in Seq([corr : Calls, status : Statuses, part : Nat, more : BOOLEAN])
      /\ ctxDone' \in BOOLEAN /\ epochChanged' \in BOOLEAN /\ expired' \subseteq Calls
  BY <1>1 DEF RInv, TypeOK, Frames
<1> QED BY <1>1, <1>2, WorldStep

LEMMA EnvironmentStep ==
  ASSUME RInv, EndContext \/ HostRestart \/ \E c \in Calls : DeadlinePasses(c)
  PROVE  RInv'
<1>1. UNCHANGED <<loop, tables, now, history, inbox, outbox>>
  BY DEF EndContext, HostRestart, DeadlinePasses
<1>2. /\ ctxDone' \in BOOLEAN /\ epochChanged' \in BOOLEAN
      /\ epochChanged => epochChanged' 
      /\ expired' \subseteq Calls
  BY DEF EndContext, HostRestart, DeadlinePasses, RInv, TypeOK
<1>3. inbox' \in Seq(Frames)
      /\ outbox' \in Seq([corr : Calls, status : Statuses, part : Nat, more : BOOLEAN])
  BY <1>1 DEF RInv, TypeOK, Frames
<1> QED BY <1>1, <1>2, <1>3, WorldStep

LEMMA RuntimeInitInv ==
  ASSUME RuntimeInit
  PROVE  RInv
<1> USE DEF RuntimeInit
<1>1. DOMAIN jobs = {} /\ DOMAIN assemblies = {}
  OBVIOUS
<1>2. TypeOK
  <2>1. /\ \A c \in DOMAIN assemblies : assemblies[c] \in Seq(Nat)
        /\ \A c \in DOMAIN jobs :
             jobs[c] \in [body : Seq(Nat), cancelled : BOOLEAN, running : BOOLEAN]
    BY <1>1
  <2>2. /\ started \in [Calls -> Nat] /\ answered \in [Calls -> Nat]
        /\ Len(reply) = 0
    OBVIOUS
  <2>3. ASSUME NEW S PROVE <<>> \in Seq(S)
    OBVIOUS
  <2>4. /\ inbox \in Seq(Fragment \cup Control)
        /\ outbox \in Seq([corr : Calls, status : Statuses, part : Nat, more : BOOLEAN])
        /\ done \in Seq([corr : Calls, status : Statuses, size : Nat])
        /\ reply \in Seq(Reply)
    BY <2>3
  <2>5. pc \in {"top", "poll", "reply", "draining", "exited"}
        /\ exit \in {"none", "nil", "ErrEpoch", "ctxErr", "ErrModuleRuntime"}
    OBVIOUS
  <2>6. /\ ctxDone \in BOOLEAN /\ epochChanged \in BOOLEAN
        /\ expired \subseteq Calls /\ now \subseteq Calls
    OBVIOUS
  <2>7. DOMAIN assemblies \subseteq Calls /\ DOMAIN jobs \subseteq Calls
    BY <1>1
  <2>8. Len(reply) <= 1
    BY <2>2
  <2> HIDE DEF RuntimeInit
  <2> QED BY <2>1, <2>2, <2>4, <2>5, <2>6, <2>7, <2>8 DEF TypeOK
<1>3. DoneInv
  <2>1. Len(done) = 0 /\ Corrs(done) = {}
    BY DEF Corrs
  <2> QED BY <1>1, <2>1, FS_EmptySet, RuntimeAssumption DEF DoneInv, DoneNeverBlocks, Distinct
<1>4. ReplyInv /\ ExitInv
  BY DEF ReplyInv, ExitInv, CleanExitLeavesNoHandler
<1>5. HandlersAccounted
  BY <1>1 DEF HandlersAccounted
<1> QED BY <1>2, <1>3, <1>4, <1>5 DEF RInv

-----------------------------------------------------------------------------
(* The module process of ModuleServe: its connection, before which there   *)
(* is no job, and any host.                                                *)

(* Before the attach the loop has not run.                                 *)
LinkInv ==
    /\ link \in {"connecting", "attaching", "attached", "detached"}
    /\ arrived \in Nat
    /\ link \in {"connecting", "attaching"} =>
         DOMAIN jobs = {} /\ reply = <<>> /\ pc \in {"top", "exited"}

SInv == RInv /\ LinkInv

LEMMA AtProcessInit == ProcessInit => SInv
<1> SUFFICES ASSUME ProcessInit PROVE SInv
  OBVIOUS
<1>1. RInv
  BY RuntimeInitInv DEF ProcessInit
<1>2. DOMAIN jobs = {}
  BY DEF ProcessInit, RuntimeInit
<1> QED BY <1>1, <1>2 DEF SInv, LinkInv, ProcessInit, RuntimeInit

(* What the host may put in the ring are frames of the loop's type.        *)
LEMMA InboundFrames == Inbound \subseteq Frames
<1>1. HostFragments \subseteq Fragment
  BY DEF HostFragments, Fragment
<1>2. [type : {"cancel"}, corr : Calls] \subseteq Control
  BY DEF Control
<1>3. [type |-> "other", corr |-> CHOOSE c \in Calls : TRUE] \in Control
  BY RuntimeAssumption DEF Control
<1> QED BY <1>1, <1>2, <1>3 DEF Inbound, Frames

LEMMA ServeStep == SInv /\ [ProcessNext]_serveVars => SInv'
<1> SUFFICES ASSUME SInv, [ProcessNext]_serveVars PROVE SInv'
  OBVIOUS
<1>0. RInv /\ LinkInv
  BY DEF SInv
<1>1. ASSUME UNCHANGED vars PROVE RInv'
  BY <1>0, <1>1, StutterStep
<1>2. ASSUME NEW why \in {"nil", "ErrModuleRuntime"}, ConnectEnds(why),
             link \in {"connecting", "attaching"}
      PROVE  SInv'
  <2>1. /\ pc = "top" /\ pc' = "exited" /\ exit' = why /\ link' = "detached"
        /\ UNCHANGED <<reply, inbox, outbox, assemblies, jobs, done, world, now, history, arrived>>
    BY <1>2 DEF ConnectEnds, tables
  <2>2. DOMAIN jobs = {}
    BY <1>0, <1>2 DEF LinkInv
  <2>3. TypeOK'
    BY <1>0, <1>2, <2>1 DEF RInv, TypeOK, world, history
  <2>4. DoneInv'
    BY <1>0, <2>1, KeepResults DEF RInv
  <2>5. ReplyInv' /\ HandlersAccounted' /\ ExitInv'
    BY <1>2, <2>1, <2>2 DEF ReplyInv, HandlersAccounted, ExitInv, CleanExitLeavesNoHandler
  <2> QED BY <1>0, <2>1, <2>3, <2>4, <2>5 DEF SInv, RInv, LinkInv
<1>3. CASE Connect
  <2>1. CASE ConnectAccepted
    BY <1>0, <1>1, <2>1 DEF ConnectAccepted, SInv, LinkInv, vars, loop, tables
  <2>2. CASE ConnectContext
    BY <1>2, <2>2 DEF ConnectContext
  <2>3. CASE ConnectFails("connecting")
    BY <1>2, <2>3 DEF ConnectFails
  <2> QED BY <1>3, <2>1, <2>2, <2>3 DEF Connect
<1>4. CASE HostAnswers
  <2>1. CASE Attach
    BY <1>0, <1>1, <2>1 DEF Attach, SInv, LinkInv, vars, loop, tables
  <2>2. CASE ConnectFails("attaching")
    BY <1>2, <2>2 DEF ConnectFails
  <2> QED BY <1>4, <2>1, <2>2 DEF HostAnswers
<1>5. CASE Detach
  BY <1>0, <1>1, <1>5 DEF Detach, SInv, LinkInv
<1>6. CASE RunLoop
  <2>1. RInv'
    BY <1>0, <1>6, LoopStep DEF RunLoop
  <2> QED BY <1>0, <1>6, <2>1 DEF RunLoop, SInv, LinkInv
<1>7. ASSUME NEW c \in Calls, RunHandler(c) PROVE SInv'
  <2>1. RInv'
    BY <1>0, <1>7, HandlerStep DEF RunHandler
  <2>2. UNCHANGED <<pc, reply, link, arrived>> /\ DOMAIN jobs' = DOMAIN jobs
    BY <1>7 DEF RunHandler, HandlerReturns, loop
  <2> QED BY <1>0, <2>1, <2>2 DEF SInv, LinkInv
<1>8. ASSUME NEW f \in Inbound, HostSends(f) PROVE SInv'
  <2>1. inbox \in Seq(Frames) /\ f \in Frames
    BY <1>0, InboundFrames DEF RInv, TypeOK, Frames
  <2>2. inbox' \in Seq(Frames)
    BY <1>8, <2>1 DEF HostSends
  <2>3. UNCHANGED <<loop, tables, now, history, outbox, ctxDone, epochChanged, expired>>
    BY <1>8 DEF HostSends, world
  <2>4. /\ outbox' \in Seq([corr : Calls, status : Statuses, part : Nat, more : BOOLEAN])
        /\ ctxDone' \in BOOLEAN /\ epochChanged' \in BOOLEAN /\ expired' \subseteq Calls
    BY <1>0, <2>3 DEF RInv, TypeOK
  <2>5. RInv'
    BY <1>0, <2>2, <2>3, <2>4, WorldStep
  <2> QED BY <1>0, <1>8, <2>5 DEF HostSends, SInv, LinkInv, loop, tables
<1>9. CASE HostTakes
  <2> DEFINE Out == [corr : Calls, status : Statuses, part : Nat, more : BOOLEAN]
  <2>1. outbox \in Seq(Out) /\ outbox # <<>> /\ outbox' = Tail(outbox)
    BY <1>0, <1>9 DEF RInv, TypeOK, HostTakes
  <2> HIDE DEF Out
  <2>2. outbox' \in Seq(Out)
    BY <2>1
  <2>3. UNCHANGED <<loop, tables, now, history, inbox, ctxDone, epochChanged, expired>>
    BY <1>9 DEF HostTakes, world
  <2>4. /\ inbox' \in Seq(Frames)
        /\ ctxDone' \in BOOLEAN /\ epochChanged' \in BOOLEAN /\ expired' \subseteq Calls
    BY <1>0, <2>3 DEF RInv, TypeOK, Frames
  <2>5. RInv'
    BY <1>0, <2>2, <2>3, <2>4, WorldStep DEF Out
  <2> QED BY <1>0, <1>9, <2>5 DEF HostTakes, SInv, LinkInv, loop, tables
<1>10. CASE Surroundings /\ UNCHANGED <<arrived, link>>
  <2>1. RInv'
    BY <1>0, <1>10, EnvironmentStep DEF Surroundings
  <2>2. UNCHANGED <<loop, tables>>
    BY <1>10 DEF Surroundings, EndContext, HostRestart, DeadlinePasses
  <2> QED BY <1>0, <1>10, <2>1, <2>2 DEF SInv, LinkInv, loop, tables
<1>11. CASE UNCHANGED serveVars
  BY <1>0, <1>1, <1>11 DEF serveVars, vars, loop, tables, SInv, LinkInv
<1> QED
  BY <1>3, <1>4, <1>5, <1>6, <1>7, <1>8, <1>9, <1>10, <1>11 DEF ProcessNext

(* The inductive invariant of the module process.                          *)
THEOREM ServeInvariant == ProcessSafety => []SInv
BY AtProcessInit, ServeStep, PTL DEF ProcessSafety

(* Every state of the serve loop is well typed, whatever the host sends.   *)
THEOREM ServeTypes == ProcessSafety => []TypeOK
<1>1. SInv => TypeOK
  BY DEF SInv, RInv
<1> QED BY <1>1, ServeInvariant, PTL

(* The buffered channel `done` of runModuleClient has a slot for every     *)
(* handler, for every limit and any order of results, cancels and          *)
(* shutdown.                                                               *)
THEOREM ServeDone == ProcessSafety => []DoneNeverBlocks
<1>1. SInv => DoneNeverBlocks
  BY DEF SInv, RInv, DoneInv
<1> QED BY <1>1, ServeInvariant, PTL

(* Until shutdown every handler that was started is a job, the reply being *)
(* sent, or was replied exactly once.                                      *)
THEOREM ServeAccounts == ProcessSafety => []HandlersAccounted
<1>1. SInv => HandlersAccounted
  BY DEF SInv, RInv
<1> QED BY <1>1, ServeInvariant, PTL

(* runModuleClient returns nil after its context ended only when the last  *)
(* handler has returned.                                                   *)
THEOREM ServeCleanExit == ProcessSafety => []CleanExitLeavesNoHandler
<1>1. SInv => CleanExitLeavesNoHandler
  BY DEF SInv, RInv, ExitInv
<1> QED BY <1>1, ServeInvariant, PTL
=============================================================================
