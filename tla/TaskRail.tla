------------------------------ MODULE TaskRail ------------------------------
(***************************************************************************)
(* The task rail (rail.go): an ordered plan whose steps are claimed and    *)
(* acknowledged, saved as JSON and restored by a later session.            *)
(*                                                                         *)
(* Objective and lock are left out: no operation reads them.  A document   *)
(* keeps what RestoreRail tells apart: whether it is an object, whether    *)
(* its steps are absent, an array or something else, and for each step     *)
(* whether it is an object, whether its state is a number and which one,   *)
(* in halves.  Titles and evidence are strings.                            *)
(***************************************************************************)
EXTENDS Integers, Sequences, SequencesExt

StepPending == 0
StepReserved == 1
StepDone == 2
NoEvidence == ""

RailStep(title) == [title |-> title, state |-> StepPending, evidence |-> NoEvidence]

(* An operation's outcome: the rail after it, and whether it succeeded.    *)
Accepted(steps) == [steps |-> steps, ok |-> TRUE]
Refused(steps) == [steps |-> steps, ok |-> FALSE]

Start(titles) == Accepted([k \in DOMAIN titles |-> RailStep(titles[k])])

Reserve(steps, i) ==
    IF i \notin DOMAIN steps \/ steps[i].state # StepPending THEN Refused(steps)
    ELSE Accepted([steps EXCEPT ![i].state = StepReserved])

Ack(steps, i, evidence) ==
    IF i \notin DOMAIN steps THEN Refused(steps)
    ELSE Accepted([steps EXCEPT ![i].state = StepDone,
                                ![i].evidence = IF evidence = NoEvidence THEN @ ELSE evidence])

(* The first step that is not done, or 0.                                  *)
NextStep(steps) == SelectInSeq(steps, LAMBDA s : s.state # StepDone)

-----------------------------------------------------------------------------
Element(step) ==
    [object |-> TRUE, title |-> step.title, evidence |-> step.evidence,
     number |-> TRUE, half |-> 2 * step.state]
NoDocument == [object |-> FALSE, list |-> "absent", steps |-> <<>>]

Serialize(steps) ==
    [object |-> TRUE, list |-> "array", steps |-> [k \in DOMAIN steps |-> Element(steps[k])]]

(* The fraction of a state is dropped; what is then none of the three is   *)
(* read as pending.                                                        *)
Truncated(half) == half \div 2
ReadStateClamped(e) ==
    IF ~e.number THEN StepPending
    ELSE IF Truncated(e.half) > StepDone THEN StepDone ELSE Truncated(e.half)
ReadState(e) ==
    IF e.number /\ Truncated(e.half) \in {StepPending, StepReserved, StepDone}
      THEN Truncated(e.half) ELSE StepPending

(* An element that is no object is skipped.                                *)
ReadElement(read, e) ==
    IF ~e.object THEN read
    ELSE Append(read, [title |-> e.title, state |-> ReadState(e), evidence |-> e.evidence])

(* All or nothing, but for the elements that are skipped; steps that are   *)
(* absent are an empty plan.                                               *)
RestoreRail(steps, doc) ==
    IF ~doc.object \/ doc.list = "other" THEN Refused(steps)
    ELSE IF doc.list = "absent" THEN Accepted(<<>>)
    ELSE Accepted(FoldLeft(ReadElement, <<>>, doc.steps))

-----------------------------------------------------------------------------
(* What may have happened to a document by the time it is read: nothing,   *)
(* it was cut, its steps are absent or no array, or its first step is no   *)
(* object, has a text for its state, or another number.                    *)
Numbers == {1, 3, 5, 14}
Damages == [to : {"none", "cut", "absent", "list", "element", "text"}, half : {0}]
           \cup [to : {"number"}, half : Numbers]

Spoiled(e, damage) ==
    CASE damage.to = "element" -> [e EXCEPT !.object = FALSE]
      [] damage.to = "text"    -> [e EXCEPT !.number = FALSE]
      [] damage.to = "number"  -> [e EXCEPT !.half = damage.half]
      [] OTHER                 -> e

Damaged(doc, damage) ==
    [object |-> doc.object /\ damage.to # "cut",
     list   |-> CASE damage.to = "absent" -> "absent"
                  [] damage.to = "list"   -> "other"
                  [] OTHER                -> doc.list,
     steps  |-> [k \in DOMAIN doc.steps |->
                   IF k = 1 THEN Spoiled(doc.steps[k], damage) ELSE doc.steps[k]]]

(* One operation on a rail and the document saved last.                    *)
Operate(at, op) ==
    LET done == CASE op.op = "start"   -> Start(op.titles)
                  [] op.op = "reserve" -> Reserve(at.steps, op.step)
                  [] op.op = "ack"     -> Ack(at.steps, op.step, op.evidence)
                  [] op.op = "save"    -> Accepted(at.steps)
                  [] op.op = "restore" -> RestoreRail(at.steps, Damaged(at.saved, op.damage))
    IN  [steps |-> done.steps, ok |-> done.ok,
         saved |-> IF op.op = "save" THEN Serialize(at.steps) ELSE at.saved]

(* The rail after each of a sequence of operations.                        *)
Operated(ops) ==
    LET after[k \in 0 .. Len(ops)] ==
          IF k = 0 THEN [steps |-> <<>>, ok |-> TRUE, saved |-> NoDocument]
          ELSE Operate(after[k - 1], ops[k])
    IN  [k \in 1 .. Len(ops) |-> after[k]]
=============================================================================
