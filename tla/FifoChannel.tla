---------------------------- MODULE FifoChannel ----------------------------
(***************************************************************************)
(* What one direction of a queue pair promises its two users: a bounded    *)
(* first-in first-out channel whose oldest element can be held by the      *)
(* receiver.  A held element still occupies its place until it is          *)
(* released, which is what lets Client.Poll hand out a payload that        *)
(* aliases shared memory ("valid until the next Poll").                    *)
(***************************************************************************)
EXTENDS Naturals, Sequences

CONSTANTS Frames,    \* what can be sent
          Room       \* how many elements fit, the held one included

VARIABLES queue,     \* elements not released yet, the oldest first
          held       \* TRUE while the receiver holds Head(queue)

vars == <<queue, held>>

Init == queue = <<>> /\ held = FALSE

Send(f) == /\ Len(queue) < Room
           /\ queue' = Append(queue, f)
           /\ UNCHANGED held

Hold == /\ ~held
        /\ queue # <<>>
        /\ held' = TRUE
        /\ UNCHANGED queue

Release == /\ held
           /\ queue' = Tail(queue)
           /\ held' = FALSE

(* An element the receiver looks at and throws away at once.               *)
Discard == /\ ~held
           /\ queue # <<>>
           /\ queue' = Tail(queue)
           /\ UNCHANGED held

Next == \/ \E f \in Frames : Send(f)
        \/ Hold
        \/ Release
        \/ Discard

Spec == Init /\ [][Next]_vars
=============================================================================
