------------------------------ MODULE Planner ------------------------------
(***************************************************************************)
(* The cost proofs that decide whether a request may be transformed:       *)
(* proof.go and the two local planners (planner_openai.go,                 *)
(* planner_anthropic.go).                                                  *)
(*                                                                         *)
(* Money is an int64; the model keeps the overflow checks and leaves       *)
(* MaxMoney open.  A coverage mask is the set of its bits.  Identities are *)
(* reduced to whether all their fields are set or agree, a request to the  *)
(* cache layout that is parsed from it.                                    *)
(***************************************************************************)
EXTENDS Integers, Sequences, FiniteSets, FiniteSetsExt

CONSTANTS MaxMoney,           \* math.MaxInt64
          MaxScenarios,       \* MaxScenarios
          LongThreshold,      \* OpenAIGPT56LongContextThreshold
          RegistryGeneration, \* productionRegistry.Generation
          RegistryKeys        \* productionRegistry.Keys

ASSUME PlannerAssumption ==
    /\ MaxMoney \in Nat
    /\ MaxScenarios \in Nat \ {0}
    /\ LongThreshold \in Nat

-----------------------------------------------------------------------------
(* Checked arithmetic: an amount, or the news that it does not fit.        *)
NoMoney == [ok |-> FALSE, value |-> 0]
Amount(v) == [ok |-> TRUE, value |-> v]

Wrapped(v) == ((v + MaxMoney + 1) % (2 * (MaxMoney + 1))) - MaxMoney - 1
MoneyAddWraps(a, b) == Amount(Wrapped(a + b))

MoneyAdd(a, b) ==
    IF (b > 0 /\ a > MaxMoney - b) \/ (b < 0 /\ a < -MaxMoney - 1 - b)
    THEN NoMoney ELSE Amount(a + b)

MulMoney(tokens, rate) ==
    IF rate < 0 \/ (rate # 0 /\ tokens > MaxMoney \div rate)
    THEN NoMoney ELSE Amount(tokens * rate)

-----------------------------------------------------------------------------
(* Refusals are tried in the order of the code; the first one that applies *)
(* is the answer.                                                          *)
FirstReason(refusals, otherwise) ==
    LET hits == {i \in 1 .. Len(refusals) : refusals[i][1]}
    IN  IF hits = {} THEN otherwise ELSE refusals[Min(hits)][2]

KeyValid(key) == key.complete /\ key.coverage # {}

ScenarioIds(p) == {p.scenarios[i].id : i \in 1 .. Len(p.scenarios)}

(* Each bit of the coverage mask has its scenario, once, and no other.     *)
Covers(p) ==
    /\ Cardinality(p.key.coverage) = Len(p.scenarios)
    /\ ScenarioIds(p) \subseteq 0 .. MaxScenarios - 1
    /\ Cardinality(ScenarioIds(p)) = Len(p.scenarios)
    /\ ScenarioIds(p) = p.key.coverage

ValidateProof(p) ==
    FirstReason(<<
        <<~p.identified \/ ~KeyValid(p.key),           "invalid_identity">>,
        <<Len(p.scenarios) \notin 1 .. MaxScenarios,   "invalid_scenario_count">>,
        <<~Covers(p),                                  "invalid_scenario_coverage">>,
        <<p.margin < 0,                                "invalid_money_bound">> >>,
        "proof_accepted")

BoundsValid(s) ==
    /\ 0 <= s.baselineLower /\ s.baselineLower <= s.baselineUpper
    /\ 0 <= s.candidateLower /\ s.candidateLower <= s.candidateUpper

(* The strict test of one worst case against one best case.                *)
Beats(upper, margin, lower) ==
    LET withMargin == MoneyAdd(upper, margin)
    IN  FirstReason(<< <<~withMargin.ok,            "money_overflow">>,
                       <<withMargin.value >= lower, "not_strictly_cheaper">> >>,
                    "proof_accepted")

ScenarioReason(s, margin) ==
    IF BoundsValid(s) THEN Beats(s.candidateUpper, margin, s.baselineLower)
    ELSE "invalid_money_bound"

(* The worst candidate of all scenarios against the best baseline.         *)
GlobalReason(p) ==
    LET range == 1 .. Len(p.scenarios)
    IN  Beats(Max({0} \cup {p.scenarios[i].candidateUpper : i \in range}), p.margin,
              Min({MaxMoney} \cup {p.scenarios[i].baselineLower : i \in range}))

ProofCostEvaluate(p) ==
    LET valid == ValidateProof(p)
        refused == {i \in 1 .. Len(p.scenarios) :
                      ScenarioReason(p.scenarios[i], p.margin) # "proof_accepted"}
    IN  IF valid # "proof_accepted" THEN valid
        ELSE IF refused # {} THEN ScenarioReason(p.scenarios[Min(refused)], p.margin)
        ELSE GlobalReason(p)

CostVerdict(reason) ==
    CASE reason = "proof_accepted"       -> "proven"
      [] reason = "not_strictly_cheaper" -> "rejected"
      [] OTHER                           -> "indeterminate"

(* The signature check is part of the order but always succeeds in this    *)
(* code (registrySignatureValid).                                          *)
ProofEvaluate(p) ==
    LET valid == ValidateProof(p)
        verdict == CostVerdict(ProofCostEvaluate(p))
    IN  IF valid # "proof_accepted" THEN "indeterminate"
        ELSE IF p.generation # RegistryGeneration \/ p.key \notin RegistryKeys THEN "pass_through"
        ELSE CASE verdict = "proven"   -> "intervene"
               [] verdict = "rejected" -> "pass_through"
               [] OTHER                -> "indeterminate"

-----------------------------------------------------------------------------
(* What both planners share.                                               *)

(* A count is evidence for a request when provider, endpoint, model,       *)
(* tokenizer and serialized size agree (`bound`) and it was made locally.  *)
EvidenceReason(e) ==
    IF ~e.bound THEN "tokenizer_not_local_exact"
    ELSE CASE e.source = "remote_unpriced" -> "remote_token_count_unpriced"
           [] e.source = "remote"          -> "remote_token_count"
           [] e.source = "local"           -> "none"
           [] OTHER                        -> "tokenizer_not_local_exact"

(* An output limit that the request does not state is read as zero.        *)
Unstated == -1
OutputLimit(layout) == IF layout.limit = Unstated THEN 0 ELSE layout.limit

(* One scenario, costed with the shared proof helper.                      *)
PlanCost(baselineInput, candidateInput, candidateOutput, margin) ==
    LET upper == MoneyAdd(candidateInput.value, candidateOutput.value)
        scenario == [id |-> 0,
                     baselineLower |-> baselineInput.value,
                     baselineUpper |-> baselineInput.value,
                     candidateLower |-> candidateInput.value,
                     candidateUpper |-> upper.value]
    IN  IF ~(baselineInput.ok /\ candidateInput.ok /\ candidateOutput.ok /\ upper.ok)
        THEN "money_overflow"
        ELSE ProofCostEvaluate([identified |-> TRUE, generation |-> 0,
                                key |-> [complete |-> TRUE, coverage |-> {0}],
                                scenarios |-> <<scenario>>, margin |-> margin])

(* Read is a tenth of input and a (short-lived) write 1.25 times input.    *)
CacheRatiosHold(prices, write) ==
    /\ prices.input % 10 = 0 /\ prices.read = prices.input \div 10
    /\ prices.input % 4 = 0 /\ prices.input \div 4 <= MaxMoney \div 5
    /\ write = (prices.input \div 4) * 5

-----------------------------------------------------------------------------
(* OpenAIGPT56Plan.                                                        *)

PricesValid(p) ==
    /\ p.input > 0 /\ p.read > 0 /\ p.write > 0 /\ p.output > 0
    /\ CacheRatiosHold(p, p.write)
    /\ p.output % 2 = 0

WithinGuard(tokens, guard) ==
    IF tokens >= LongThreshold THEN tokens - LongThreshold <= guard
    ELSE LongThreshold - tokens <= guard

InputCost(tokens, rate) ==
    LET base == MulMoney(tokens, rate)
    IN  IF base.ok /\ tokens > LongThreshold THEN MoneyAdd(base.value, base.value) ELSE base

OutputCost(tokens, rate, long) ==
    LET raised == MoneyAdd(rate, rate \div 2)
    IN  IF ~long THEN MulMoney(tokens, rate)
        ELSE IF rate % 2 # 0 \/ ~raised.ok THEN NoMoney
        ELSE MulMoney(tokens, raised.value)

(* The cache key of the two requests, and whether they state a lifetime.   *)
SameCache(b, c) == b.hasTtl = c.hasTtl /\ b.key = c.key

OpenAIRefusals(in) ==
    LET b == in.baseline
        c == in.candidate
    IN  <<
           <<~in.given,                                     "invalid_argument">>,
           <<~in.identified,                                "invalid_identity">>,
           <<~in.endpoint,                                  "unsupported_endpoint">>,
           <<EvidenceReason(b.tokens) # "none",             EvidenceReason(b.tokens)>>,
           <<EvidenceReason(c.tokens) # "none",             EvidenceReason(c.tokens)>>,
           <<~PricesValid(in.prices) \/ in.margin < 0,      "pricing_unavailable">>,
           <<~b.readable \/ ~c.readable,                    "invalid_request_shape">>,
           <<~b.explicit \/ ~c.explicit,                    "unsupported_cache_layout">>,
           <<~SameCache(b, c),                              "unsupported_cache_layout">>,
           <<OutputLimit(b) # OutputLimit(c),               "output_bound_unavailable">>,
           <<b.breakpoints # c.breakpoints,                 "unsupported_cache_layout">>,
           <<b.breakpoints # 0,                             "protected_prefix_unproven">>,
           <<WithinGuard(b.tokens.count, in.guard)
             \/ WithinGuard(c.tokens.count, in.guard),      "token_guard_band">> >>

OpenAIPlan(in) ==
    LET b == in.baseline
        c == in.candidate
        refusal == FirstReason(OpenAIRefusals(in), "none")
    IN  IF refusal # "none" THEN refusal
        ELSE PlanCost(InputCost(b.tokens.count, in.prices.input),
                      InputCost(c.tokens.count, in.prices.input),
                      OutputCost(OutputLimit(c), in.prices.output,
                                 c.tokens.count > LongThreshold),
                      in.margin)

-----------------------------------------------------------------------------
(* AnthropicPlanFor.                                                       *)

(* The cache markers of a document, in order: only ephemeral ones, and no  *)
(* one-hour marker after a five-minute one.                                *)
ControlsValid(controls) ==
    /\ \A i \in 1 .. Len(controls) : controls[i] \in {"5m", "1h"}
    /\ \A i, j \in 1 .. Len(controls) : i < j /\ controls[i] = "5m" => controls[j] = "5m"

Markers(controls, ttl) == Cardinality({i \in 1 .. Len(controls) : controls[i] = ttl})
SameMarkers(b, c) ==
    \A ttl \in {"5m", "1h"} : Markers(b.controls, ttl) = Markers(c.controls, ttl)

AnthropicPricesValid(p) ==
    /\ p.input > 0 /\ p.read > 0 /\ p.write5m > 0 /\ p.write1h > 0 /\ p.output > 0
    /\ p.threshold # 0 => p.longInput > 0 /\ p.longOutput > 0
    /\ CacheRatiosHold(p, p.write5m)
    /\ p.input <= MaxMoney \div 2 /\ p.write1h = p.input * 2

(* The rates of a request of so many input tokens.                         *)
Rates(tokens, p) ==
    IF p.threshold # 0 /\ tokens > p.threshold
    THEN [input |-> p.longInput, output |-> p.longOutput]
    ELSE [input |-> p.input, output |-> p.output]

AnthropicRefusals(in) ==
    LET b == in.baseline
        c == in.candidate
    IN  <<
           <<~in.given,                                       "invalid_argument">>,
           <<~in.identified,                                  "invalid_identity">>,
           <<EvidenceReason(b.tokens) # "none",               EvidenceReason(b.tokens)>>,
           <<EvidenceReason(c.tokens) # "none",               EvidenceReason(c.tokens)>>,
           <<in.beta,                                         "invalid_request_shape">>,
           <<~AnthropicPricesValid(in.prices) \/ in.margin < 0, "pricing_unavailable">>,
           <<~b.readable \/ ~ControlsValid(b.controls)
             \/ ~c.readable \/ ~ControlsValid(c.controls),    "invalid_cache_control">>,
           <<OutputLimit(b) # OutputLimit(c),                 "output_bound_unavailable">>,
           <<b.automatic \/ c.automatic \/ b.tools \/ c.tools, "unsupported_cache_layout">>,
           <<~SameMarkers(b, c),                              "unsupported_cache_layout">>,
           <<b.controls # <<>>,                               "protected_prefix_unproven">> >>

AnthropicPlan(in) ==
    LET b == in.baseline
        c == in.candidate
        refusal == FirstReason(AnthropicRefusals(in), "none")
        cost(tokens) == MulMoney(tokens, Rates(tokens, in.prices).input)
    IN  IF refusal # "none" THEN refusal
        ELSE PlanCost(cost(b.tokens.count), cost(c.tokens.count),
                      MulMoney(OutputLimit(c), Rates(c.tokens.count, in.prices).output),
                      in.margin)
=============================================================================
