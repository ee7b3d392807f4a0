------------------------------- MODULE Repair -------------------------------
(***************************************************************************)
(* Tool-pairing repair of a message history (repair.go), run on every      *)
(* restored request and, over a copy, as the structural check of a reduced *)
(* view.                                                                   *)
(*                                                                         *)
(* A message is abstracted to what repair reads: its wire shape and role,  *)
(* the ids of the tool calls and of the tool results it carries, whether   *)
(* its content is an array, whether it has other content, and whether the  *)
(* arguments of its calls parse.  Messages of the three shapes may be      *)
(* mixed in one history, as the code allows.                               *)
(***************************************************************************)
EXTENDS Naturals, Sequences, FiniteSets, SequencesExt

CONSTANT Ids   \* tool call ids

Message == [shape : {"text", "openai", "anthropic", "responses"},
            role : {"user", "assistant", "tool", "none"},
            calls : Seq(Ids), results : Seq(Ids),
            text : BOOLEAN, args : {"ok", "bad", "empty"}]

Plain(role) == [shape |-> "text", role |-> role, calls |-> <<>>, results |-> <<>>,
                text |-> TRUE, args |-> "ok"]
CallBy(shape, ids) == [Plain(IF shape = "responses" THEN "none" ELSE "assistant")
                         EXCEPT !.shape = shape, !.calls = ids, !.text = FALSE]
ResultOf(shape, id) == [Plain(CASE shape = "openai" -> "tool"
                                [] shape = "anthropic" -> "user"
                                [] shape = "responses" -> "none")
                          EXCEPT !.shape = shape, !.results = <<id>>, !.text = FALSE]

(* Op applied to every message.                                            *)
Each(messages, Op(_)) == [i \in 1 .. Len(messages) |-> Op(messages[i])]

(* An Anthropic user message: its content is an array of blocks.           *)
HasBlocks(m) == m.shape = "anthropic" /\ m.role = "user"

-----------------------------------------------------------------------------
(* collectToolCallIDs and collectToolResultIDs, over all three shapes.     *)

(* An idSet lists ids in the order in which they were first added.         *)
AddId(ids, id) == IF Contains(ids, id) THEN ids ELSE Append(ids, id)
AddIds(ids, more) == FoldLeft(AddId, ids, more)
IdsIn(lists) == FoldLeft(AddIds, <<>>, lists)

CallIds(messages) == IdsIn([i \in 1 .. Len(messages) |-> messages[i].calls])
ResultIds(messages) == IdsIn([i \in 1 .. Len(messages) |-> messages[i].results])

(* The first message that decides settles the format; OpenAI by default.   *)
Decides(m) ==
    \/ m.shape = "responses"
    \/ m.shape = "anthropic" /\ m.calls # <<>>
    \/ m.role = "tool"
DetectFormat(messages) ==
    LET first == SelectInSeq(messages, Decides)
    IN  IF first = 0 THEN "openai" ELSE messages[first].shape

(* SanitizeAssistantToolArguments: OpenAI tool_calls arguments that do not *)
(* parse become "{}" (here "empty").                                       *)
Sanitize(m) ==
    IF m.shape = "openai" /\ m.role = "assistant" /\ m.args = "bad"
    THEN [m EXCEPT !.args = "empty"] ELSE m

-----------------------------------------------------------------------------
(* One orphaned call is answered with a cancellation.                      *)

(* The first position from i on that is not a tool result.                 *)
AfterResults(messages, i) ==
    SelectInSubSeq(messages, i, Len(messages), LAMBDA m : m.role # "tool")

AnswerOpenAI(messages, id) ==
    LET issued == SelectInSeq(messages, LAMBDA m : m.shape = "openai" /\ Contains(m.calls, id))
        after == AfterResults(messages, issued + 1)
        cancel == ResultOf("openai", id)
    IN  IF issued = 0 \/ after = 0 THEN Append(messages, cancel)
        ELSE InsertAt(messages, after, cancel)

(* Message `at` with one more result block.                                *)
WithResult(messages, at, id) ==
    [i \in 1 .. Len(messages) |->
        IF i = at THEN [messages[i] EXCEPT !.results = Append(@, id)] ELSE messages[i]]

(* A bug one edit away: a call no user message follows stays unanswered.   *)
AnswerAnthropicOnlyInside(messages, id) ==
    LET issued == SelectInSeq(messages, LAMBDA m : m.shape = "anthropic" /\ Contains(m.calls, id))
        target == IF issued = 0 THEN 0
                  ELSE SelectInSubSeq(messages, issued + 1, Len(messages), HasBlocks)
    IN  IF target = 0 THEN messages
        ELSE WithResult(messages, target, id)

AnswerAnthropic(messages, id) ==
    LET issued == SelectInSeq(messages, LAMBDA m : m.shape = "anthropic" /\ Contains(m.calls, id))
        target == IF issued = 0 THEN 0
                  ELSE SelectInSubSeq(messages, issued + 1, Len(messages), HasBlocks)
    IN  IF target = 0 THEN Append(messages, ResultOf("anthropic", id))
        ELSE WithResult(messages, target, id)

AnswerResponses(messages, id) == Append(messages, ResultOf("responses", id))

Answer(format, messages, id) ==
    CASE format = "openai" -> AnswerOpenAI(messages, id)
      [] format = "anthropic" -> AnswerAnthropic(messages, id)
      [] format = "responses" -> AnswerResponses(messages, id)

(* A bug one edit away: a call that has its result is answered again.      *)
AnswerAgain(format, results, messages, id) == Answer(format, messages, id)

(* One step of the loop over the calls: those without a result get one.    *)
AnswerOrphan(format, results, messages, id) ==
    IF Contains(results, id) THEN messages ELSE Answer(format, messages, id)

Answered(format, messages, calls, results) ==
    FoldLeft(LAMBDA acc, id : AnswerOrphan(format, results, acc, id), messages, calls)

(* Results of the detected format whose call is gone are dropped; a block  *)
(* message left without content goes with them.                            *)
IsOrphan(format, m, calls, id) == m.shape = format /\ ~Contains(calls, id)

Keep(gone, kept, x) == IF x \in gone THEN kept ELSE Append(kept, x)
Without(seq, gone) ==
    IF gone = {} THEN seq ELSE FoldLeft(LAMBDA kept, x : Keep(gone, kept, x), <<>>, seq)

Kept(format, m, calls) ==
    [m EXCEPT !.results = Without(@, {id \in ToSet(@) : IsOrphan(format, m, calls, id)})]

Emptied(format, m) ==
    CASE format = "anthropic" -> HasBlocks(m) /\ m.results = <<>> /\ ~m.text
      [] OTHER -> m.shape = format /\ m.calls = <<>> /\ m.results = <<>> /\ ~m.text

Drop(format, messages, calls) ==
    LET kept == Each(messages, LAMBDA m : Kept(format, m, calls))
    IN  Without(kept, {m \in ToSet(kept) : Emptied(format, m)})

(* Where the repairs are: calls to be answered, and results to be dropped, *)
(* each by its message and its place there.                                *)
Missing(calls, results) == {k \in 1 .. Len(calls) : ~Contains(results, calls[k])}
Places(messages) ==
    UNION {{i} \X (1 .. Len(messages[i].results)) : i \in 1 .. Len(messages)}
ResultAt(messages, p) == messages[p[1]].results[p[2]]
Orphans(format, messages, calls) ==
    {p \in Places(messages) : IsOrphan(format, messages[p[1]], calls, ResultAt(messages, p))}

MessageHistoryRepair(messages) ==
    LET clean == Each(messages, Sanitize)
        calls == CallIds(clean)
        results == ResultIds(clean)
        format == DetectFormat(clean)
        answered == Answered(format, clean, calls, results)
    IN  IF calls = <<>> /\ results = <<>>
        THEN [messages |-> clean, repairs |-> 0]
        ELSE [messages |-> Drop(format, answered, calls),
              repairs |-> Cardinality(Missing(calls, results))
                          + Cardinality(Orphans(format, answered, calls))]
=============================================================================
