---------------------------- MODULE JsonCompact ----------------------------
(***************************************************************************)
(* Whitespace compaction of a JSON document (json_compact.go): a complete  *)
(* validation, then a copy that leaves out whitespace between tokens.      *)
(*                                                                         *)
(* The recursive descent of the parser is one step per character over an   *)
(* explicit stack of open containers.  Characters that the code treats     *)
(* alike are one: "sp" a blank, "nl" a raw control character that is       *)
(* whitespace, "q" and "bs" quote and backslash, "d" part of a number (a   *)
(* run of them is well formed), "x" ordinary text and, after a backslash,  *)
(* an escape letter, "u" the escape \u0078 of the same text, "t" a literal *)
(* (true, false, null).  The byte-level checks of UTF-8 and surrogates are *)
(* one bad character, "bad"; the size limit is left out.                   *)
(***************************************************************************)
EXTENDS Integers, Sequences, SequencesExt

CONSTANTS MaxDepth,    \* JSONMaxDepth
          MaxMembers   \* JSONMaxObjectMembers

ASSUME JsonAssumption == MaxDepth \in Nat /\ MaxMembers \in Nat

WS == {"sp", "nl"}

(* The parser: what it expects next, the containers that are open (an      *)
(* object with the names seen so far), the string being read, and why it   *)
(* stopped.                                                                *)
ParseStart == [mode |-> "value", stack |-> <<>>, text |-> <<>>, key |-> FALSE, result |-> "ok"]

Stop(st, why) == [st EXCEPT !.mode = "stop", !.result = why]
Become(st, mode) == [st EXCEPT !.mode = mode]
Open(st, kind, mode) == [st EXCEPT !.mode = mode, !.stack = Append(@, [kind |-> kind, names |-> <<>>])]
Close(st) == [st EXCEPT !.mode = "after", !.stack = Front(@)]
OpenString(st, key) == [st EXCEPT !.mode = "string", !.text = <<>>, !.key = key]
Inside(st, kind) == st.stack # <<>> /\ Last(st.stack).kind = kind

-----------------------------------------------------------------------------
(* parseString, with the decoded text of a name.                           *)
Decoded(c) == IF c = "u" THEN "x" ELSE c
Unescaped(c) == CASE c = "x" -> "control" [] c = "t" -> "control t" [] OTHER -> c

EndString(st) ==
    IF ~st.key THEN Become(st, "after")
    ELSE IF Len(Last(st.stack).names) >= MaxMembers THEN Stop(st, "too_deep")
    ELSE [st EXCEPT !.mode = "colon", !.stack[Len(st.stack)].names = Append(@, st.text)]

InString(st, c) ==
    CASE c = "q"   -> EndString(st)
      [] c = "nl"  -> Stop(st, "invalid_syntax")
      [] c = "bad" -> Stop(st, "invalid_utf8")
      [] c = "bs"  -> Become(st, "escape")
      [] OTHER     -> [st EXCEPT !.text = Append(@, Decoded(c))]

InEscape(st, c) ==
    IF c \in {"q", "bs", "x", "t"} THEN [st EXCEPT !.mode = "string", !.text = Append(@, Unescaped(c))]
    ELSE Stop(st, "invalid_syntax")

(* parseValue; after "[" the array may also end.                           *)
AtValue(st, c) ==
    IF st.mode = "first" /\ c = "]" THEN Close(st)
    ELSE IF Len(st.stack) >= MaxDepth THEN Stop(st, "too_deep")
    ELSE CASE c = "{" -> Open(st, "object", "firstKey")
           [] c = "[" -> Open(st, "array", "first")
           [] c = "q" -> OpenString(st, FALSE)
           [] c = "t" -> Become(st, "after")
           [] c = "d" -> Become(st, "number")
           [] OTHER   -> Stop(st, "invalid_syntax")

(* parseObject up to a name; after "{" the object may also end.            *)
AtKey(st, c) ==
    CASE st.mode = "firstKey" /\ c = "}" -> Close(st)
      [] c = "q"                         -> OpenString(st, TRUE)
      [] OTHER                           -> Stop(st, "invalid_syntax")

AtColon(st, c) == IF c = ":" THEN Become(st, "value") ELSE Stop(st, "invalid_syntax")

(* keysUnique.                                                             *)
NamesUnique(names) == Cardinality(ToSet(names)) = Len(names)

(* After a value: the next one, the end of its container, or nothing.      *)
AfterValue(st, c) ==
    CASE Inside(st, "array") /\ c = ","  -> Become(st, "value")
      [] Inside(st, "array") /\ c = "]"  -> Close(st)
      [] Inside(st, "object") /\ c = "," -> Become(st, "key")
      [] Inside(st, "object") /\ c = "}" ->
           IF NamesUnique(Last(st.stack).names) THEN Close(st) ELSE Stop(st, "duplicate_key")
      [] OTHER                           -> Stop(st, "invalid_syntax")

(* One character.  Whitespace separates tokens everywhere but in strings;  *)
(* it ends a number.                                                       *)
ParseStep(st, c) ==
    CASE st.mode = "stop"   -> st
      [] st.mode = "string" -> InString(st, c)
      [] st.mode = "escape" -> InEscape(st, c)
      [] OTHER ->
           IF c \in WS THEN IF st.mode = "number" THEN Become(st, "after") ELSE st
           ELSE CASE st.mode \in {"number", "after"} ->
                       IF st.mode = "number" /\ c = "d" THEN st ELSE AfterValue(st, c)
                  [] st.mode \in {"value", "first"}  -> AtValue(st, c)
                  [] st.mode \in {"key", "firstKey"} -> AtKey(st, c)
                  [] st.mode = "colon"               -> AtColon(st, c)

Parsed(input) == FoldLeft(ParseStep, ParseStart, input)

Validate(input) ==
    LET st == Parsed(input)
    IN  CASE st.mode = "stop" -> st.result
          [] st.mode \in {"after", "number"} /\ st.stack = <<>> -> "ok"
          [] st.mode \in {"value", "first"} /\ Len(st.stack) >= MaxDepth -> "too_deep"
          [] OTHER -> "invalid_syntax"

-----------------------------------------------------------------------------
(* The copy.                                                               *)
EscapedNever(at, c) == FALSE
Escaped(at, c) == at.inString /\ ~at.escaped /\ c = "bs"

CopyStep(at, c) ==
    IF ~at.inString /\ c \in WS THEN at
    ELSE [out |-> Append(at.out, c),
          escaped |-> Escaped(at, c),
          inString |-> IF c = "q" /\ ~at.escaped THEN ~at.inString ELSE at.inString]

Copied(input) ==
    FoldLeft(CopyStep, [out |-> <<>>, escaped |-> FALSE, inString |-> FALSE], input).out

JSONCompact(input) ==
    LET valid == Validate(input)
        out == Copied(input)
    IN  IF valid # "ok" THEN [result |-> valid, out |-> <<>>]
        ELSE IF Len(out) >= Len(input) THEN [result |-> "not_shorter", out |-> <<>>]
        ELSE [result |-> "ok", out |-> out]
=============================================================================
