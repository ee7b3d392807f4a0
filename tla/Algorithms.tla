----------------------------- MODULE Algorithms -----------------------------
(***************************************************************************)
(* The pure algorithms of the economizer on every small input: history     *)
(* repair, cost plans and proofs, identifier nomination, closet and eager  *)
(* seam, command recognition, line filters, task rail, JSON compaction.    *)
(*                                                                         *)
(* A behaviour picks an algorithm, builds its input (element by element    *)
(* where the input is a sequence) and applies the algorithm to it.  The    *)
(* inputs that are records of settings come from constants.                *)
(***************************************************************************)
EXTENDS Repair, Planner, Nominate, Closet, Condense, JsonCompact, TaskRail

CONSTANTS MaxHistory,    \* bound: messages of a history
          MaxText,       \* bound: characters of a text
          MaxEntries,    \* bound: coordinates of a closet
          MaxLexemes,    \* bound: words of a command line
          MaxLines,      \* bound: lines of an output
          MaxOps,        \* bound: operations on a rail
          MaxChunks,     \* bound: pieces of a JSON document
          Shapes,        \* wire shapes of histories
          Entries,       \* coordinates nominated into a closet
          ClosetCaps,    \* bounds a closet is rendered under
          EagerInputs,   \* settings and sizes of tool results
          Chunks,        \* pieces JSON documents are put together from
          OpenAIInputs,  \* requests the planners are asked about
          AnthropicInputs,
          Proofs         \* proof records

(* Token counts, output limits and thresholds are uint64, money is int64.  *)
Counted(layout) == layout.tokens.count \in Nat /\ layout.limit \in Nat \cup {Unstated}
Priced(prices) == prices.input \in Int /\ prices.output \in Int

ASSUME InputsAssumption ==
    /\ \A in \in OpenAIInputs \cup AnthropicInputs :
         /\ Counted(in.baseline) /\ Counted(in.candidate)
         /\ Priced(in.prices) /\ in.margin \in Int
    /\ \A in \in OpenAIInputs : in.guard \in Nat
    /\ \A in \in AnthropicInputs :
         in.prices.threshold \in Nat /\ in.prices.longInput \in Int /\ in.prices.longOutput \in Int
    /\ \A p \in Proofs :
         /\ p.margin \in Int
         /\ \A i \in 1 .. Len(p.scenarios) :
              p.scenarios[i].candidateUpper \in Int /\ p.scenarios[i].baselineLower \in Int

(* The three wire formats repair tells apart.                              *)
ASSUME ShapesAssumption == Shapes \subseteq {"openai", "anthropic", "responses"}

(* Lines and texts have lengths, budgets may be any int; a tool result     *)
(* nominates coordinates.                                                  *)
ASSUME EntriesAssumption ==
    /\ \A e \in Entries :
         /\ e.lane \in Int /\ e.label \in Int /\ e.offset \in Int /\ e.turn \in Int
         /\ e.value \in Int /\ e.len \in Nat
    /\ ClosetCaps \subseteq Nat
    /\ \A in \in EagerInputs :
         /\ in.rawLen \in Nat /\ in.summaryLen \in Nat
         /\ in.compact.head \in Int /\ in.compact.tail \in Int
         /\ in.cap \in Int /\ in.budget \in Int
         /\ in.entries \in Seq(Entries)

VARIABLES algorithm,  \* the algorithm and what it is parameterised with
          input,      \* its input so far
          output      \* <<>>, or <<its result>>

vars == <<algorithm, input, output>>

(* A command that ran, and whether it failed.                              *)
Commands == [line : {<<"go", "test">>, <<"gcc">>, <<"make">>}, failed : BOOLEAN]

Sequential == [kind : {"repair"}, with : Shapes]
              \cup [kind : {"nominate", "recognize", "rail", "json"}, with : {"none"}]
              \cup [kind : {"closet"}, with : ClosetCaps]
              \cup [kind : {"filter"}, with : Commands]
Settings == [kind : {"openai", "anthropic", "proof", "eager"}, with : {"none"}]

Init == algorithm \in Sequential \cup Settings /\ input = <<>> /\ output = <<>>

-----------------------------------------------------------------------------
(* The messages a client sends in its shape.                               *)
Messages(wire) ==
    {Plain("user"), Plain("assistant")}
    \cup {CallBy(wire, <<id>>) : id \in Ids}
    \cup {CallBy(wire, pair) : pair \in IF wire = "responses" THEN {} ELSE Ids \X Ids}
    \cup {ResultOf(wire, id) : id \in Ids}
    \cup {[CallBy(wire, <<id>>) EXCEPT !.args = "bad"] : id \in Ids}
    \cup {[Plain("user") EXCEPT !.shape = s] : s \in {wire} \cap {"anthropic"}}

(* Operations on a rail: one plan begins it, another may replace it.       *)
RailOps ==
    [op : {"start"}, titles : {<<"a", "b">>}] \cup [op : {"save"}]
    \cup [op : {"reserve"}, step : 1 .. 2]
    \cup [op : {"ack"}, step : 1 .. 2, evidence : {NoEvidence, "e"}]
    \cup [op : {"restore"}, damage : Damages]

(* What may come next; nothing once the bound is reached, a coordinate is  *)
(* already in its lane, or a JSON document is beyond repair.               *)
Elements ==
    CASE algorithm.kind = "repair" /\ Len(input) < MaxHistory -> Messages(algorithm.with)
      [] algorithm.kind = "nominate" /\ Len(input) < MaxText -> Classes
      [] algorithm.kind = "closet" /\ Len(input) < MaxEntries ->
           {e \in Entries : \A k \in DOMAIN input : input[k].lane # e.lane \/ input[k].value # e.value}
      [] algorithm.kind = "recognize" /\ Len(input) < MaxLexemes -> Lexemes
      [] algorithm.kind = "filter" /\ Len(input) < MaxLines -> Lines
      [] algorithm.kind = "rail" /\ Len(input) < MaxOps ->
           IF input = <<>> THEN {op \in RailOps : op.op = "start"} ELSE RailOps
      [] OTHER -> {}

Extend(e) ==
    /\ output = <<>>
    /\ input' = Append(input, e)
    /\ UNCHANGED <<algorithm, output>>

ExtendJson(chunk) ==
    /\ output = <<>>
    /\ algorithm.kind = "json"
    /\ Len(input) < MaxChunks
    /\ Parsed(FlattenSeq(input)).mode # "stop"
    /\ input' = Append(input, chunk)
    /\ UNCHANGED <<algorithm, output>>

Choose(kind, inputs) ==
    /\ output = <<>>
    /\ algorithm.kind = kind
    /\ input = <<>>
    /\ \E in \in inputs : input' = <<in>>
    /\ UNCHANGED <<algorithm, output>>

Result ==
    CASE algorithm.kind = "repair"    -> MessageHistoryRepair(input)
      [] algorithm.kind = "nominate"  -> NominateInto(input, "agent", <<>>)
      [] algorithm.kind = "closet"    -> RenderCloset(input, algorithm.with)
      [] algorithm.kind = "eager"     -> CompressToolResult(input[1])
      [] algorithm.kind = "recognize" -> TCRecognize(input)
      [] algorithm.kind = "filter"    -> Condensed(algorithm.with.line, algorithm.with.failed, input)
      [] algorithm.kind = "rail"      -> Operated(input)
      [] algorithm.kind = "json"      -> JSONCompact(FlattenSeq(input))
      [] algorithm.kind = "openai"    -> OpenAIPlan(input[1])
      [] algorithm.kind = "anthropic" -> AnthropicPlan(input[1])
      [] algorithm.kind = "proof"     -> ProofEvaluate(input[1])

Apply ==
    /\ output = <<>>
    /\ input # <<>>
    /\ output' = <<Result>>
    /\ UNCHANGED <<algorithm, input>>

Next ==
    \/ \E e \in Elements : Extend(e)
    \/ \E chunk \in Chunks : ExtendJson(chunk)
    \/ Choose("openai", OpenAIInputs)
    \/ Choose("anthropic", AnthropicInputs)
    \/ Choose("proof", Proofs)
    \/ Choose("eager", EagerInputs)
    \/ Apply

Spec == Init /\ [][Next]_vars

-----------------------------------------------------------------------------
Done(kind) == output # <<>> /\ algorithm.kind = kind

Occurrences(id, messages) ==
    Cardinality({p \in Places(messages) : ResultAt(messages, p) = id})

(* A repaired history is paired: every call has a result, none was given a *)
(* second one, and a result whose call is gone is dropped.  The last part  *)
(* needs a history whose shape detectFormat recognises: an Anthropic one   *)
(* that lost all its tool_use blocks is taken for OpenAI.                  *)
RepairedIsPaired ==
    Done("repair") =>
        LET messages == output[1].messages
            calls == ToSet(CallIds(messages))
            results == ToSet(ResultIds(messages))
        IN  /\ calls \subseteq results
            /\ \A id \in Ids : Occurrences(id, messages) <= Max({1, Occurrences(id, input)})
            /\ DetectFormat(input) = algorithm.with => results \subseteq calls

(* Repairing a repaired history changes nothing and reports 0 repairs,     *)
(* which is how the gateway checks a reduced view.                         *)
RepairIsIdempotent ==
    Done("repair") =>
        MessageHistoryRepair(output[1].messages) = [output[1] EXCEPT !.repairs = 0]

(* What n input tokens cost, with exact arithmetic.                        *)
OpenAITrueInput(in, n) == n * in.prices.input * (IF n > LongThreshold THEN 2 ELSE 1)
OpenAITrueOutput(in, n, limit) ==
    (limit * in.prices.output * (IF n > LongThreshold THEN 3 ELSE 2)) \div 2
AnthropicTrueInput(in, n) ==
    n * (IF in.prices.threshold \in 1 .. n - 1 THEN in.prices.longInput ELSE in.prices.input)
AnthropicTrueOutput(in, n, limit) ==
    limit * (IF in.prices.threshold \in 1 .. n - 1 THEN in.prices.longOutput ELSE in.prices.output)

LocalCounts(in) == in.baseline.tokens.source = "local" /\ in.candidate.tokens.source = "local"

(* A plan is proven only from local counts, when the candidate with all    *)
(* the output it may produce and the margin is cheaper than the bare input *)
(* of the baseline.  Requests that state no output limit are left out: the *)
(* code counts their output as nothing.                                    *)
ProvenIsCheaper(in, trueInput(_, _), trueOutput(_, _, _)) ==
    LET c == in.candidate.tokens.count
    IN  /\ LocalCounts(in)
        /\ in.candidate.limit # Unstated =>
             trueInput(in, c) + trueOutput(in, c, in.candidate.limit) + in.margin
               < trueInput(in, in.baseline.tokens.count)

(* No count within the guard of the one given is on the other side of the  *)
(* long-context threshold.                                                 *)
TierIsCertain(in) ==
    \A n \in {in.baseline.tokens.count, in.candidate.tokens.count}, d \in -in.guard .. in.guard :
        n + d > LongThreshold <=> n > LongThreshold

(* A proof authorizes an intervention only for a registered, current key,  *)
(* when each scenario the key covers is priced exactly once and the worst  *)
(* candidate with the margin beats the best baseline.                      *)
AuthorizedIsCheaper(p) ==
    LET range == 1 .. Len(p.scenarios)
    IN  /\ p.key \in RegistryKeys /\ p.generation = RegistryGeneration
        /\ \A id \in p.key.coverage : \E i \in range :
             /\ p.scenarios[i].id = id
             /\ \A j \in range \ {i} : p.scenarios[j].id # id
        /\ \A i, j \in range :
             p.scenarios[i].candidateUpper + p.margin < p.scenarios[j].baselineLower

(* Whatever is accepted as cheaper is cheaper, in exact arithmetic: the    *)
(* two planners and the proof evaluation (proof.go, planner_*.go).         *)
AcceptedIsCheaper ==
    /\ Done("openai") /\ CostVerdict(output[1]) = "proven" =>
         /\ ProvenIsCheaper(input[1], OpenAITrueInput, OpenAITrueOutput)
         /\ TierIsCertain(input[1])
    /\ Done("anthropic") /\ CostVerdict(output[1]) = "proven" =>
         ProvenIsCheaper(input[1], AnthropicTrueInput, AnthropicTrueOutput)
    /\ Done("proof") /\ output[1] = "intervene" => AuthorizedIsCheaper(input[1])

IsSha(word) ==
    /\ Len(word) \in ShaMin .. ShaMax
    /\ \A k \in DOMAIN word : word[k] \in Hex
    /\ \E k \in DOMAIN word : word[k] = "hex"

(* A hash that stands by itself, or as the value of a key, is nominated,   *)
(* whatever surrounds it; and no nominated hash or uuid is cut out of a    *)
(* longer token (NominateInto, matchSHA, matchUUID).                       *)
IdentifiersAreWhole ==
    Done("nominate") =>
        LET found == ToSet(output[1])
            Stands(i, j) == /\ i = 1 \/ input[i - 1] \in {"space", "eq"}
                            /\ j = Len(input) \/ input[j + 1] \in {"space", "hash"}
        IN  /\ \A i, j \in DOMAIN input :
                 i <= j /\ Stands(i, j) /\ IsSha(SubSeq(input, i, j)) =>
                     \E e \in found : e.value = SubSeq(input, i, j)
            /\ \A e \in found : e.label \in {"sha", "uuid"} =>
                 /\ e.offset = 1 \/ input[e.offset - 1] \notin TokenChar
                 /\ e.offset + Len(e.value) > Len(input)
                    \/ input[e.offset + Len(e.value)] \notin TokenChar

Permuted(s, p) == [k \in DOMAIN s |-> s[p[k]]]

(* A closet stays within its bound, says so whenever a coordinate did not  *)
(* fit, keeps what the user pasted after what the agent produced, and is   *)
(* the same for every order in which coordinates were nominated.           *)
ClosetAccountsForAll ==
    Done("closet") =>
        LET closet == output[1]
            kept == closet.entries
        IN  /\ closet.len <= algorithm.with
            /\ closet.evict = "none" <=> ToSet(kept) = ToSet(input)
            /\ closet.note <=> kept # <<>> /\ ToSet(kept) # ToSet(input)
            /\ \A j, k \in DOMAIN kept : j < k => kept[j].lane <= kept[k].lane
            /\ \A p \in Bijection(DOMAIN input, DOMAIN input) :
                 RenderCloset(Permuted(input, p), algorithm.with) = closet

(* A compressed tool result with its closet stays within the cap of the    *)
(* result.  The closet needs a budget of its own and a cap above the       *)
(* reserve: a budget of zero is taken for the default one.                 *)
EagerWithinCap ==
    Done("eager") /\ ClosetBudget(input[1].budget, output[1].cap) > 0 =>
        output[1].len <= output[1].cap

(* A recognized line has, up to a redirect or the token limit, no operator *)
(* and one command, a known name without a path; what comes before it are  *)
(* assignments and wrappers (known by the last element of their path) with *)
(* their options, whose arguments are not taken for it (TCRecognize).      *)
Passed(line, k) ==
    \/ tcBase(line[k]) \in Assignments \cup Wrappers \cup Runners \cup Options
                            \cup {"env", "sudo", "run"}
    \/ k > 1 /\ line[k - 1] = "-u"
OnlySimpleCommands ==
    Done("recognize") /\ output[1].outcome = "recognized" =>
        LET at == output[1].at
            seen == SubSeq(input, 1, Min({MaxTok, Len(input)}))
            end == Min({Len(seen) + 1} \cup {k \in DOMAIN seen : seen[k] \in Redirect})
        IN  /\ at < end
            /\ \A k \in 1 .. end - 1 : input[k] \notin Compound
            /\ input[at] \in KnownCmds
            /\ \A k \in 1 .. at - 1 : Passed(input, k)
            /\ ~(at > 2 /\ input[at - 1] = "-u" /\ input[at - 2] \in {"sudo", "./sudo", "-E"})

(* A plan outlives its sessions: two claims of a step succeed only across  *)
(* a new plan or a restore, done work stays done but for these, a document *)
(* restores what was saved or, refused, changes nothing, and a step is     *)
(* done only if it was acknowledged, whatever of the above happened to the *)
(* document, but for one: a state that truncates to done is taken for it   *)
(* (rail.go:176).  A document without steps is accepted and is no plan.    *)
PlanSurvives ==
    Done("rail") =>
        LET at == output[1]
            all == 1 .. Len(input)
            Replaced(k) == input[k].op \in {"start", "restore"} /\ at[k].ok
            Claimed(k, i) == input[k].op = "reserve" /\ input[k].step = i /\ at[k].ok
            saves(k) == {j \in 1 .. k - 1 : input[j].op = "save"}
            Acknowledged(j, title) ==
                /\ input[j].op = "ack" /\ at[j].ok
                /\ at[j].steps[input[j].step].title = title
            MisreadAs(j, title) ==
                /\ input[j].op = "restore" /\ at[j].ok
                /\ input[j].damage.to = "number" /\ Truncated(input[j].damage.half) = StepDone
                /\ at[j].steps # <<>> /\ at[j].steps[1].title = title
        IN  /\ \A k, l \in all, i \in 1 .. 2 :
                 k < l /\ Claimed(k, i) /\ Claimed(l, i) => \E j \in k + 1 .. l - 1 : Replaced(j)
            /\ \A k \in all \ {1} : ~Replaced(k) =>
                 \A i \in DOMAIN at[k - 1].steps :
                     at[k - 1].steps[i].state = StepDone => at[k].steps[i].state = StepDone
            /\ \A k \in all : input[k].op = "restore" =>
                 /\ ~at[k].ok => at[k].steps = at[k - 1].steps
                 /\ input[k].damage.to = "none" /\ saves(k) # {} =>
                      at[k].steps = at[Max(saves(k))].steps
            /\ \A k \in all : \A i \in DOMAIN at[k].steps :
                 at[k].steps[i].state = StepDone =>
                   \E j \in 1 .. k : \/ Acknowledged(j, at[k].steps[i].title)
                                     \/ MisreadAs(j, at[k].steps[i].title)
            /\ \A k \in all : NextStep(at[k].steps) = 0 <=>
                 \A i \in DOMAIN at[k].steps : at[k].steps[i].state = StepDone

Total(items) ==
    LET sum[k \in 0 .. Len(items)] == IF k = 0 THEN 0 ELSE sum[k - 1] + items[k].count
    IN  sum[Len(items)]

(* Each item is the line at its place, and together they are all lines.    *)
Accounts(items, lines) ==
    /\ Total(items) = Len(lines)
    /\ \A k \in DOMAIN items :
         LET before == Total(SubSeq(items, 1, k - 1))
         IN  items[k].text # Elided =>
               \A j \in before + 1 .. before + items[k].count : lines[j] = items[k].text

(* Condensed output hides nothing silently: markers and kept lines account *)
(* for every line, failures stay with the line after them, a command that  *)
(* failed shows a failure; collapsing repeats and noise loses no text.     *)
NothingHidden ==
    Done("filter") =>
        LET items == output[1].items
            after == Context(Family(TCRecognize(algorithm.with.line))).after
            Text(lines) == SelectSeq(lines, LAMBDA l : l \notin {"blank", "redrawn"})
        IN  /\ output[1].ok =>
                 /\ Accounts(items, input)
                 /\ \A j \in DOMAIN input, k \in DOMAIN items :
                      LET before == Total(SubSeq(items, 1, k - 1))
                      IN  items[k].text = Elided /\ before < j /\ j <= before + items[k].count =>
                            /\ input[j] # "fail"
                            /\ after > 0 /\ j > 1 => input[j - 1] # "fail"
                 /\ algorithm.with.failed => \E k \in DOMAIN items : items[k].text = "fail"
            /\ Accounts(TCDedupLines(input), input)
            /\ Accounts(TCTruncateWithSignal(input, 1, 1, "fail"), input)
            /\ Text(TCStripNoise(input)) = Text(input)

(* The tokens of a document: strings whole, numbers whole, and single      *)
(* characters.                                                             *)
Tokens(doc) ==
    LET step(acc, c) ==
          CASE acc.in = "escape" -> [acc EXCEPT !.in = "string", !.toks[Len(acc.toks)] = Append(@, c)]
            [] acc.in = "string" ->
                 [in |-> CASE c = "q" -> "none" [] c = "bs" -> "escape" [] OTHER -> "string",
                  toks |-> [acc.toks EXCEPT ![Len(acc.toks)] = Append(@, c)]]
            [] OTHER ->
                 IF c \in WS THEN [acc EXCEPT !.in = "none"]
                 ELSE IF c = "d" /\ acc.in = "number"
                 THEN [acc EXCEPT !.toks[Len(acc.toks)] = Append(@, c)]
                 ELSE [in |-> CASE c = "q" -> "string" [] c = "d" -> "number" [] OTHER -> "none",
                       toks |-> Append(acc.toks, <<c>>)]
    IN  FoldLeft(step, [in |-> "none", toks |-> <<>>], doc).toks

(* A compacted document has the tokens of the original, string contents    *)
(* included and no two numbers run together, and is valid and fully        *)
(* compact itself.                                                         *)
CompactKeepsTokens ==
    Done("json") /\ output[1].result = "ok" =>
        /\ Tokens(output[1].out) = Tokens(FlattenSeq(input))
        /\ JSONCompact(output[1].out).result = "not_shorter"
=============================================================================
