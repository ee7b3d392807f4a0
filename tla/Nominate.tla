------------------------------ MODULE Nominate ------------------------------
(***************************************************************************)
(* Finding the identifiers of a text that must survive it verbatim: the    *)
(* matchers and the scan of NominateInto (closet.go).                      *)
(*                                                                         *)
(* A text is a sequence of character classes, which is all the matchers    *)
(* look at; the fixed lengths (8-4-4-4-12 digits of a uuid, 7 to 64 of a   *)
(* hash, the words "handle:" and "memory:") are parameters.  Positions     *)
(* start at 1, and a matcher returns where its match ends.                 *)
(***************************************************************************)
EXTENDS Integers, Sequences, SequencesExt

CONSTANTS UuidShape,     \* "hex" and "dash" in the order of a uuid
          HandlePrefix,  \* the classes of "handle:"
          ShaMin,        \* 7
          ShaMax         \* 64

ASSUME NominateAssumption == ShaMin \in Nat \ {0} /\ ShaMax \in Nat

Classes == {"digit", "hex", "alpha", "under", "dot", "slash", "dash", "colon", "eq", "hash", "space"}
Hex == {"digit", "hex"}
Letter == {"hex", "alpha"}
Alnum == Hex \cup Letter
Word == Alnum \cup {"under"}
TokenChar == Word \cup {"dash"}                              \* tokenContinues
IdentBoundary == Classes \ (TokenChar \cup {"dot", "slash", "colon"})

(* The end of the run of characters of a class that begins at i: the first *)
(* position past it.                                                       *)
RunEnd(s, i, class) == Min({k \in i .. Len(s) + 1 : k > Len(s) \/ s[k] \notin class})

Has(s, i, end, class) == \E k \in i .. end - 1 : s[k] \in class

(* A trailing dot is punctuation.                                          *)
Trimmed(s, i, end) == Max({i} \cup {k + 1 : k \in {j \in i .. end - 1 : s[j] # "dot"}})

(* Text that continues the token makes a match a mere prefix of one.       *)
EndsAnywhere(s, end) == TRUE
EndsToken(s, end) == end > Len(s) \/ s[end] \notin TokenChar

(* A match at i ends before `end`; its value lies in [from, to).           *)
NoMatch == [label |-> "none", at |-> 0, end |-> 0, from |-> 0, to |-> 0]
Plainly(label, i, end) == [label |-> label, at |-> i, end |-> end, from |-> i, to |-> end]

-----------------------------------------------------------------------------
FitsShape(s, i, shape, class(_)) ==
    /\ i + Len(shape) - 1 <= Len(s)
    /\ \A k \in 1 .. Len(shape) : s[i + k - 1] \in class(shape[k])

MatchUUID(s, i) ==
    LET end == i + Len(UuidShape)
    IN  IF FitsShape(s, i, UuidShape, LAMBDA c : IF c = "dash" THEN {"dash"} ELSE Hex)
             /\ EndsToken(s, end)
        THEN Plainly("uuid", i, end) ELSE NoMatch

MatchHandle(s, i) ==
    LET start == i + Len(HandlePrefix)
        end == RunEnd(s, start, TokenChar)
    IN  IF FitsShape(s, i, HandlePrefix, LAMBDA c : {c}) /\ end > start
        THEN Plainly("handle", i, end) ELSE NoMatch

(* key=value with a digit in the value, which alone is conserved.          *)
MatchKV(s, i) ==
    LET key == RunEnd(s, i, Word)
        start == key + 1
        end == RunEnd(s, start, TokenChar \cup {"dot", "colon"})
    IN  IF s[i] \in Letter \cup {"under"} /\ key <= Len(s) /\ s[key] = "eq"
             /\ start <= Len(s) /\ Has(s, start, end, {"digit"})
        THEN [label |-> "kv", at |-> i, end |-> end,
              from |-> start, to |-> Trimmed(s, start, end)]
        ELSE NoMatch

(* An anchored path, or a bare one with a letter and either a dot in its   *)
(* last segment or two slashes.                                            *)
MatchPath(s, i) ==
    LET run == RunEnd(s, i, TokenChar \cup {"slash", "dot"})
        slashes == {k \in i .. run - 1 : s[k] = "slash"}
        end == Trimmed(s, i, run)
        up == RunEnd(s, i, {"dot"})
        anchored == up - i <= 2 /\ up < run /\ s[up] = "slash"
        bare == /\ Has(s, i, run, Letter)
                /\ Has(s, Max(slashes) + 1, end, {"dot"}) \/ Cardinality(slashes) >= 2
    IN  IF slashes # {} /\ run - i >= 3 /\ (anchored \/ bare)
        THEN Plainly("path", i, end) ELSE NoMatch

MatchSHA(s, i) ==
    LET end == RunEnd(s, i, Hex)
    IN  IF end - i \in ShaMin .. ShaMax /\ Has(s, i, end, {"hex"}) /\ EndsToken(s, end)
        THEN Plainly("sha", i, end) ELSE NoMatch

MatchRef(s, i) ==
    LET end == RunEnd(s, i + 1, {"digit"})
    IN  IF s[i] = "hash" /\ end > i + 1 THEN Plainly("ref", i, end) ELSE NoMatch

-----------------------------------------------------------------------------
(* The matchers in their fixed priority, at the start of an identifier.    *)
AtBoundary(s, i) == i = 1 \/ s[i - 1] \in IdentBoundary

FirstMatch(s, i) ==
    LET tries == <<MatchUUID(s, i), MatchHandle(s, i), MatchKV(s, i),
                   MatchPath(s, i), MatchSHA(s, i), MatchRef(s, i)>>
        hits == {k \in 1 .. 6 : tries[k] # NoMatch}
    IN  IF ~AtBoundary(s, i) \/ hits = {} THEN NoMatch ELSE tries[Min(hits)]

(* One scan from left to right: the next position to try after i.          *)
Advance(s, i) == IF FirstMatch(s, i) = NoMatch THEN i + 1 ELSE FirstMatch(s, i).end

Scan(s) ==
    LET from[i \in 1 .. Len(s) + 1] ==
          IF i > Len(s) THEN <<>>
          ELSE (IF FirstMatch(s, i) = NoMatch THEN <<>> ELSE <<FirstMatch(s, i)>>)
               \o from[Advance(s, i)]
    IN  from[1]

(* CoordSet.add keeps the first occurrence of a value in its lane.         *)
AddCoord(set, value, label, lane, offset) ==
    IF value = <<>> \/ \E k \in 1 .. Len(set) : set[k].value = value /\ set[k].lane = lane THEN set
    ELSE Append(set, [value |-> value, label |-> label, lane |-> lane, offset |-> offset])

NominateInto(s, lane, set) ==
    FoldLeft(LAMBDA acc, m : AddCoord(acc, SubSeq(s, m.from, m.to - 1), m.label, lane, m.at),
             set, Scan(s))
=============================================================================
