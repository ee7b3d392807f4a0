---------------------------- MODULE MCAlgorithms ----------------------------
(* The inputs the algorithms are applied to.                               *)
EXTENDS Algorithms

Uuid == <<"hex", "dash", "hex">>
Handle == <<"alpha", "colon">>

(* Two tied in all but their value, one of the same value in the other     *)
(* lane, a secret, and two more labels.                                    *)
Coord(lane, label, turn, value, len) ==
    [lane |-> lane, label |-> label, offset |-> 1, turn |-> turn, value |-> value, len |-> len,
     secret |-> value = 3, sensitive |-> label = 3]
Coordinates == {Coord(0, 1, 1, 1, 2), Coord(0, 1, 1, 2, 3), Coord(1, 1, 1, 1, 2),
                Coord(0, 2, 1, 3, 6), Coord(1, 3, 2, 2, 3)}

CompactSettings ==
    [enabled : BOOLEAN, perTool : {NoOverride, -1, 0, 12}, threshold : {8}, head : {2, 6},
     tail : {3}]
ToolResults ==
    [rawLen : {5, 12, 40}, summaryLen : {0, 6, 30}, compact : CompactSettings,
     cap : {0, 2, 8, 14, 60}, closet : BOOLEAN, budget : {0, 9, 50}, ratio : {0, 50},
     entries : {<<>>, <<Coord(0, 1, 1, 1, 2)>>, <<Coord(0, 1, 1, 1, 2), Coord(0, 1, 1, 2, 3)>>}]

(* Single characters, and members of an object whose names differ in bytes *)
(* or only in their spelling.                                              *)
JsonChunks ==
    {<<c>> : c \in {"sp", "nl", "q", "bs", "d", "x", "bad", "[", "]", "{", "}", ",", "t"}}
    \cup {<<"q", "x", "q", ":", "d">>, <<"q", "u", "q", "sp", ":", "d">>, <<"bs", "q">>}

-----------------------------------------------------------------------------
Count(n) == [bound |-> TRUE, source |-> "local", count |-> n]
Counts == {Count(n) : n \in 0 .. 6}
          \cup {[Count(3) EXCEPT !.source = s] : s \in {"remote", "remote_unpriced", "unknown"}}
          \cup {[Count(1) EXCEPT !.bound = FALSE]}

OpenAILayout == [readable |-> TRUE, explicit |-> TRUE, hasTtl |-> FALSE, key |-> 1, breakpoints |-> 0,
                 limit |-> 1, tokens |-> Count(2)]
OpenAILayouts ==
    {[OpenAILayout EXCEPT !.readable = FALSE], [OpenAILayout EXCEPT !.explicit = FALSE],
     [OpenAILayout EXCEPT !.hasTtl = TRUE], [OpenAILayout EXCEPT !.key = 2],
     [OpenAILayout EXCEPT !.breakpoints = 1]}
    \cup {[OpenAILayout EXCEPT !.limit = n] : n \in {Unstated, 0, 1, 2}}

Price(in, rd, wr, out) ==
    [input |-> in, read |-> rd, write |-> wr, output |-> out]
OpenAIBase == [given |-> TRUE, identified |-> TRUE, endpoint |-> TRUE, margin |-> 0, guard |-> 0,
               prices |-> Price(20, 2, 25, 30), baseline |-> [OpenAILayout EXCEPT !.tokens = Count(5)],
               candidate |-> OpenAILayout]
OpenAIRequests ==
    {[OpenAIBase EXCEPT !.baseline.tokens = b, !.candidate.tokens = c, !.margin = m, !.guard = g,
                        !.baseline.limit = l, !.candidate.limit = l] :
        b, c \in Counts, m \in {-1, 0, 11, 150}, g \in 0 .. 1, l \in {0, 1, 3}}
    \cup {[OpenAIBase EXCEPT !.baseline = [b EXCEPT !.tokens = Count(5)], !.candidate = c] :
            b, c \in OpenAILayouts}
    \cup {[OpenAIBase EXCEPT !.prices = p] :
            p \in {Price(0, 2, 25, 30), Price(20, 1, 25, 30), Price(20, 2, 24, 30),
                   Price(10, 1, 12, 30), Price(20, 2, 25, 31)}}
    \cup {[OpenAIBase EXCEPT !.given = FALSE], [OpenAIBase EXCEPT !.identified = FALSE],
          [OpenAIBase EXCEPT !.endpoint = FALSE]}

AnthropicLayout == [readable |-> TRUE, controls |-> <<>>, automatic |-> FALSE, tools |-> FALSE,
                    limit |-> 1, tokens |-> Count(2)]
AnthropicLayouts ==
    {[AnthropicLayout EXCEPT !.readable = FALSE], [AnthropicLayout EXCEPT !.automatic = TRUE],
     [AnthropicLayout EXCEPT !.tools = TRUE]}
    \cup {[AnthropicLayout EXCEPT !.limit = n] : n \in {Unstated, 0, 2}}
    \cup {[AnthropicLayout EXCEPT !.controls = s] :
            s \in {<<>>, <<"5m">>, <<"1h">>, <<"1h", "5m">>, <<"5m", "1h">>, <<"persistent">>}}

AnthropicPrice(threshold, longInput) ==
    [input |-> 20, read |-> 2, write5m |-> 25, write1h |-> 40, output |-> 30,
     longInput |-> longInput, longOutput |-> 45, threshold |-> threshold]
AnthropicBase == [given |-> TRUE, identified |-> TRUE, beta |-> FALSE, margin |-> 0,
                  prices |-> AnthropicPrice(3, 40),
                  baseline |-> [AnthropicLayout EXCEPT !.tokens = Count(5)],
                  candidate |-> AnthropicLayout]
AnthropicRequests ==
    {[AnthropicBase EXCEPT !.baseline.tokens = b, !.candidate.tokens = c, !.margin = m,
                           !.baseline.limit = l, !.candidate.limit = l, !.prices = p] :
        b, c \in Counts, m \in {-1, 0, 11, 150}, l \in {0, 1, 3},
        p \in {AnthropicPrice(0, 0), AnthropicPrice(3, 40), AnthropicPrice(3, 0)}}
    \cup {[AnthropicBase EXCEPT !.baseline = [b EXCEPT !.tokens = Count(5)], !.candidate = c] :
            b, c \in AnthropicLayouts}
    \cup {[AnthropicBase EXCEPT !.given = FALSE], [AnthropicBase EXCEPT !.identified = FALSE],
          [AnthropicBase EXCEPT !.beta = TRUE]}

-----------------------------------------------------------------------------
Keys == {[complete |-> TRUE, coverage |-> {0, 1}], [complete |-> TRUE, coverage |-> {0}]}
Unregistered == [complete |-> TRUE, coverage |-> {1}]
Invalid == [complete |-> TRUE, coverage |-> {}]

Scenarios == [id : {0, 1}, baselineLower : {1, 3}, baselineUpper : {2, 3}, candidateLower : {0},
              candidateUpper : {0, 2, MaxMoney}]
ProofRecords ==
    [identified : {TRUE}, generation : {RegistryGeneration}, key : Keys,
     scenarios : BoundedSeq(Scenarios, 2), margin : {-1, 0, 1}]
    \cup [identified : BOOLEAN, generation : {RegistryGeneration, RegistryGeneration + 1},
          key : Keys \cup {Unregistered, Invalid},
          scenarios : {<<>>} \cup {<<s, t, t>> : s, t \in Scenarios} \cup {<<s>> : s \in Scenarios},
          margin : {0}]
=============================================================================
