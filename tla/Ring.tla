-------------------------------- MODULE Ring --------------------------------
(***************************************************************************)
(* The single-producer single-consumer ring in shared memory (bus/ring.go) *)
(* together with the two operations that drive it: the producer's          *)
(* Client.emit and the consumer's Client.Poll (bus/client.go).             *)
(*                                                                         *)
(* Producer and consumer run in different processes.  Each owns one index  *)
(* (head, tail) and reads the other's with one atomic load, so a step here *)
(* is one such load or store; the bytes of a slot are written between the  *)
(* load and the store and are Garbage meanwhile.  The indices are machine  *)
(* words: they wrap at IndexMod (2^64 in the code).                        *)
(***************************************************************************)
EXTENDS Integers, Sequences

CONSTANTS Frames,       \* frames a producer may write
          Undecodable,  \* those of them that Decode rejects
          Garbage,      \* the bytes of a slot that holds no whole frame
          Capacity,     \* slots in the ring
          IndexMod,     \* 2^(bits of an index)
          MaxSends      \* bound: frames committed in one behaviour

ASSUME FramesAssumption ==
    /\ Undecodable \subseteq Frames
    /\ Garbage \notin Frames

ASSUME GeometryAssumption ==
    /\ Capacity \in Nat /\ Capacity >= 2
    /\ IndexMod \in Nat /\ Capacity < IndexMod
    /\ \E k \in 1 .. IndexMod : IndexMod = k * Capacity

VARIABLES slots,        \* the mapped slots
          head, tail,   \* the two shared indices
          emit,         \* the producer: "idle", "encoding" or "copied"
          emitting,     \* the frame emit is writing
          poll,         \* the consumer: "idle" or "released"
          pendingRead,  \* the consumer still holds the slot at tail
          epochChanged, \* the host has restarted since attach
          sent,         \* history: every frame committed, in order
          seen          \* history: every frame taken out, in order

producer == <<emit, emitting, sent>>
consumer == <<poll, pendingRead, seen>>
vars == <<slots, head, tail, producer, consumer, epochChanged>>

(* Type correctness; the indices stay within a machine word.               *)
TypeOK ==
    /\ slots \in [0 .. Capacity - 1 -> Frames \cup {Garbage}]
    /\ head \in 0 .. IndexMod - 1
    /\ tail \in 0 .. IndexMod - 1
    /\ emit \in {"idle", "encoding", "copied"}
    /\ emitting \in Frames \cup {Garbage}
    /\ poll \in {"idle", "released"}
    /\ pendingRead \in BOOLEAN
    /\ epochChanged \in BOOLEAN
    /\ sent \in Seq(Frames)
    /\ seen \in Seq(Frames \cup {Garbage})

-----------------------------------------------------------------------------
(* Index arithmetic, on machine words.                                     *)

SlotOf(index) == index % Capacity

Count == (head - tail) % IndexMod

FullOffByOne == Count > Capacity
Full == Count >= Capacity

NextIndex(index) == (index + 1) % IndexMod

Init ==
    /\ slots = [i \in 0 .. Capacity - 1 |-> Garbage]
    /\ head = 0
    /\ tail = 0
    /\ emit = "idle"
    /\ emitting = Garbage
    /\ poll = "idle"
    /\ pendingRead = FALSE
    /\ epochChanged = FALSE
    /\ sent = <<>>
    /\ seen = <<>>

-----------------------------------------------------------------------------
(* Client.emit.  ErrEpoch and ErrWouldBlock change nothing: they are the   *)
(* steps EmitBegin does not allow.                                         *)

EmitBegin(f) ==
    /\ emit = "idle"
    /\ Len(sent) < MaxSends
    /\ ~epochChanged
    /\ ~Full
    /\ emit' = "encoding"
    /\ emitting' = f
    /\ slots' = [slots EXCEPT ![SlotOf(head)] = Garbage]
    /\ UNCHANGED <<head, tail, sent, consumer, epochChanged>>

EmitCopy ==
    /\ emit = "encoding"
    /\ emit' = "copied"
    /\ slots' = [slots EXCEPT ![SlotOf(head)] = emitting]
    /\ UNCHANGED <<head, tail, emitting, sent, consumer, epochChanged>>

ProduceCommit ==
    /\ emit = "copied"
    /\ emit' = "idle"
    /\ head' = NextIndex(head)
    /\ sent' = Append(sent, emitting)
    /\ UNCHANGED <<slots, tail, emitting, consumer, epochChanged>>

-----------------------------------------------------------------------------
(* Client.Poll, in the two steps a concurrent producer can see: releasing  *)
(* the slot of the previous event, then taking the next one.               *)

PollReleaseKeepsPending ==
    /\ poll = "idle"
    /\ ~epochChanged
    /\ poll' = "released"
    /\ tail' = IF pendingRead THEN NextIndex(tail) ELSE tail
    /\ UNCHANGED <<slots, head, producer, pendingRead, seen, epochChanged>>

PollRelease ==
    /\ poll = "idle"
    /\ ~epochChanged
    /\ poll' = "released"
    /\ tail' = IF pendingRead THEN NextIndex(tail) ELSE tail
    /\ pendingRead' = FALSE
    /\ UNCHANGED <<slots, head, producer, seen, epochChanged>>

PollEmpty ==
    /\ poll = "released"
    /\ head = tail
    /\ poll' = "idle"
    /\ UNCHANGED <<slots, head, tail, producer, pendingRead, seen, epochChanged>>

PollDeliver ==
    /\ poll = "released"
    /\ head # tail
    /\ slots[SlotOf(tail)] \notin Undecodable \cup {Garbage}
    /\ poll' = "idle"
    /\ pendingRead' = TRUE
    /\ seen' = Append(seen, slots[SlotOf(tail)])
    /\ UNCHANGED <<slots, head, tail, producer, epochChanged>>

(* A bug one edit away: report nothing and leave the bad slot in place.    *)
PollDiscardKeepsSlot ==
    /\ poll = "released"
    /\ head # tail
    /\ slots[SlotOf(tail)] \in Undecodable \cup {Garbage}
    /\ poll' = "idle"
    /\ UNCHANGED <<slots, head, tail, producer, pendingRead, seen, epochChanged>>

PollDiscard ==
    /\ poll = "released"
    /\ head # tail
    /\ slots[SlotOf(tail)] \in Undecodable \cup {Garbage}
    /\ poll' = "idle"
    /\ tail' = NextIndex(tail)
    /\ seen' = Append(seen, slots[SlotOf(tail)])
    /\ UNCHANGED <<slots, head, producer, pendingRead, epochChanged>>

(* The host process restarts and bumps the control region's epoch.         *)
HostRestart ==
    /\ ~epochChanged
    /\ epochChanged' = TRUE
    /\ UNCHANGED <<slots, head, tail, producer, consumer>>

Poll == PollRelease \/ PollEmpty \/ PollDeliver \/ PollDiscard
Emit == (\E f \in Frames : EmitBegin(f)) \/ EmitCopy \/ ProduceCommit

Next == Emit \/ Poll \/ HostRestart

Spec == Init /\ [][Next]_vars

(* An emit that has begun runs to its commit, and the consumer polls       *)
(* again and again: both are straight-line code in their own processes.    *)
FairSpec == /\ Spec
            /\ WF_vars(EmitCopy)
            /\ WF_vars(ProduceCommit)
            /\ WF_vars(Poll)

-----------------------------------------------------------------------------
(* Frames leave the ring in the order they were committed, none of them    *)
(* lost, repeated or torn, across any number of index wraps.               *)
InOrder ==
    /\ Len(seen) <= Len(sent)
    /\ \A i \in 1 .. Len(seen) : seen[i] = sent[i]

(* While the consumer holds an event, the slot its payload aliases still   *)
(* holds that event: "The returned Payload is valid until the next Poll".  *)
HeldPayloadStable ==
    pendingRead /\ poll = "idle" => slots[SlotOf(tail)] = seen[Len(seen)]

(* The occupied slots as the consumer will read them.                      *)
Contents == [i \in 1 .. Count |-> slots[SlotOf(tail + i - 1)]]

(* The ring implements a bounded FIFO channel of Capacity places.          *)
Channel == INSTANCE FifoChannel WITH
    Frames <- Frames, Room <- Capacity, queue <- Contents, held <- pendingRead

ImplementsChannel == Channel!Spec

(* Every committed frame is taken out sooner or later, unless the host     *)
(* restarts: an undecodable frame cannot wedge the ring.                   *)
EverySentFrameIsSeen ==
    \A i \in 1 .. MaxSends :
        Len(sent) >= i ~> (Len(seen) >= i \/ epochChanged)
=============================================================================
