------------------------------ MODULE Condense ------------------------------
(***************************************************************************)
(* Tool-output condensation as pure functions: which command a line runs   *)
(* (condense_recognize.go), the line filters (condense_primitives.go), the *)
(* families built on them (condense_family.go) and the choice TCApply      *)
(* makes among them before it spills (condense_apply.go).                  *)
(*                                                                         *)
(* A command line is a sequence of words and operators, each word standing *)
(* for those the code treats alike; a word in quotes is a word.  A line of *)
(* output is reduced to what the filters look for in it.                   *)
(***************************************************************************)
EXTENDS Integers, Sequences, SequencesExt

CONSTANTS MaxTok,      \* TCMaxTok
          HeadLines,   \* lines a family keeps at the start
          TailLines,   \* lines it keeps at the end
          CtxBefore,   \* lines the test family keeps above a failure
          CtxAfter     \* lines it keeps below it

ASSUME CondenseAssumption ==
    MaxTok \in Nat /\ HeadLines \in Nat /\ TailLines \in Nat /\ CtxBefore \in Nat /\ CtxAfter \in Nat

(* Operators that make a line compound: | ; & newline ` and $( .           *)
Compound == {"|", "$("}
Redirect == {">"}
Assignments == {"A=1"}
Options == {"-E", "-u"}
Wrappers == {"time"}                  \* time nice nohup stdbuf npx
Runners == {"uv", "npm"}              \* with "run": uv poetry pipenv; bun x; npm pnpm yarn exec
KnownCmds == {"go", "npm", "gcc"}
SubcommandCmds == {"go", "npm"}
OpaqueCmds == {"make"}                \* xargs make bash sh zsh
PathWords == {"./go", "./time", "./env", "./sudo", "./uv"}
Lexemes == Compound \cup Redirect \cup Assignments \cup Options \cup Wrappers \cup Runners
           \cup KnownCmds \cup OpaqueCmds \cup PathWords \cup {"env", "sudo", "run", "test"}

-----------------------------------------------------------------------------
(* tcTokenize: words up to a redirect or the limit; a compound operator    *)
(* before that refuses the line.                                           *)
Tokenize(line) ==
    LET stop == Min({Len(line) + 1, MaxTok + 1}
                    \cup {k \in 1 .. Len(line) : line[k] \in Redirect})
        words == SubSeq(line, 1, stop - 1)
        looked == SubSeq(line, 1, Min({stop, Len(line)}))
    IN  [ok |-> \A k \in 1 .. Len(looked) : looked[k] \notin Compound, words |-> words]

tcBase(word) ==
    CASE word = "./go"   -> "go"
      [] word = "./time" -> "time"
      [] word = "./env"  -> "env"
      [] word = "./sudo" -> "sudo"
      [] word = "./uv"   -> "uv"
      [] OTHER           -> word

(* The position after the assignments from i on.                           *)
PastAssignments(toks, i) ==
    Min({k \in i .. Len(toks) + 1 : k > Len(toks) \/ toks[k] \notin Assignments})

(* The position after the options of sudo; -u takes the next word along.   *)
PastOptionsAlone(toks, i) ==
    Min({k \in i .. Len(toks) + 1 : k > Len(toks) \/ toks[k] \notin Options})
PastOptions(toks, i) ==
    LET past[k \in 1 .. Len(toks) + 1] ==
          IF k > Len(toks) \/ toks[k] \notin Options THEN k
          ELSE past[IF toks[k] = "-u" THEN Min({k + 2, Len(toks) + 1}) ELSE k + 1]
    IN  past[i]

(* Past one assignment, env, sudo or wrapper, or i if there is none.  All  *)
(* but an assignment are known by the last element of their path.          *)
PastWrapper(toks, i) ==
    LET b == tcBase(toks[i]) IN
    CASE b \in Assignments -> i + 1
      [] b = "env"         -> PastAssignments(toks, i + 1)
      [] b = "sudo"        -> PastOptions(toks, i + 1)
      [] b \in Wrappers    -> i + 1
      [] b \in Runners /\ i < Len(toks) /\ toks[i + 1] = "run" -> i + 2
      [] OTHER             -> i

CommandAt(toks) ==
    LET inner[i \in 1 .. Len(toks) + 1] ==
          IF i > Len(toks) \/ PastWrapper(toks, i) = i THEN i
          ELSE inner[PastWrapper(toks, i)]
    IN  inner[1]

NotRecognized(outcome) == [outcome |-> outcome, cmd |-> "none", sub |-> "none", at |-> 0]

(* The first bare word after the command.                                  *)
Subcommand(toks, at) ==
    LET bare == {k \in at + 1 .. Len(toks) : toks[k] \notin Options \cup Assignments \cup PathWords}
    IN  IF toks[at] \notin SubcommandCmds \/ bare = {} THEN "none" ELSE toks[Min(bare)]

TCRecognize(line) ==
    LET toks == Tokenize(line).words
        at == CommandAt(toks)
    IN  IF ~Tokenize(line).ok \/ at > Len(toks) THEN NotRecognized("unrecognized")
        ELSE IF tcBase(toks[at]) \in OpaqueCmds \/ toks[at] \in PathWords THEN NotRecognized("opaque")
        ELSE IF toks[at] \in KnownCmds
             THEN [outcome |-> "recognized", cmd |-> toks[at], sub |-> Subcommand(toks, at),
                   at |-> at]
        ELSE NotRecognized("unrecognized")

(* The family whose rule applies to a recognized command.                  *)
Family(reco) ==
    CASE reco.cmd \in SubcommandCmds /\ reco.sub = "test" -> "test"
      [] reco.cmd = "gcc" -> "diag"
      [] OTHER -> "none"

-----------------------------------------------------------------------------
(* Lines of output: a failure, a summary line, a passing case, a blank     *)
(* one, one that a carriage return or an escape leaves blank.              *)
Lines == {"fail", "summary", "pass", "blank", "redrawn"}

Cleaned(line) == IF line = "redrawn" THEN "blank" ELSE line

(* TCStripNoise: runs of blank lines become one.                           *)
TCStripNoise(lines) ==
    LET clean == [k \in DOMAIN lines |-> Cleaned(lines[k])]
        noise(k) == k > 1 /\ clean[k] = "blank" /\ clean[k - 1] = "blank"
    IN  FoldLeftDomain(LAMBDA acc, k : IF noise(k) THEN acc ELSE Append(acc, clean[k]),
                       <<>>, clean)

(* An item of condensed output: a line and how often it stood there, or a  *)
(* marker for lines left out.                                              *)
Item(text, count) == [text |-> text, count |-> count]
Elided == "elided"

(* TCDedupLines: immediate repeats become one item.                        *)
TCDedupLines(lines) ==
    FoldLeft(LAMBDA acc, line :
               IF acc # <<>> /\ Last(acc).text = line
               THEN [acc EXCEPT ![Len(acc)].count = @ + 1] ELSE Append(acc, Item(line, 1)),
             <<>>, lines)

(* The lines to keep, and a marker for each run of others.                 *)
FlushNothing(out, elided) == out
Flush(out, elided) == IF elided > 0 THEN Append(out, Item(Elided, elided)) ELSE out

Elide(lines, keep) ==
    LET step(acc, k) == IF k \in keep
                        THEN [out |-> Append(Flush(acc.out, acc.elided), Item(lines[k], 1)),
                              elided |-> 0]
                        ELSE [acc EXCEPT !.elided = @ + 1]
        end == FoldLeftDomain(step, [out |-> <<>>, elided |-> 0], lines)
    IN  Flush(end.out, end.elided)

TCTruncateWithSignal(lines, head, tail, signal) ==
    LET n == Len(lines)
        keep == {k \in 1 .. n : k <= head \/ k > n - tail \/ lines[k] = signal}
    IN  Elide(lines, IF head + tail >= n THEN 1 .. n ELSE keep)

(* tcSignalFilter: the ends, the summary lines and each failure with the   *)
(* lines around it.  A command that failed without a failure line is       *)
(* passed through.                                                         *)
Context(family) == IF family = "test" THEN [before |-> CtxBefore, after |-> CtxAfter]
                   ELSE [before |-> 0, after |-> 0]

KeptLines(lines, ctx) ==
    LET n == Len(lines)
    IN  {k \in 1 .. n : \/ k <= HeadLines \/ k > n - TailLines
                        \/ lines[k] = "summary"
                        \/ \E j \in 1 .. n : /\ lines[j] = "fail"
                                             /\ j - ctx.before <= k /\ k <= j + ctx.after}

Declines(failed, lines) == failed /\ ~Contains(lines, "fail")

SignalFilter(failed, lines, ctx) ==
    IF Declines(failed, lines) THEN [ok |-> FALSE, items |-> <<>>]
    ELSE [ok |-> TRUE, items |-> Elide(lines, KeptLines(lines, ctx))]

(* What TCApply would ship, before the gain gate and the spill.            *)
Condensed(line, failed, lines) ==
    LET reco == TCRecognize(line)
    IN  IF reco.outcome # "recognized" \/ Family(reco) = "none"
        THEN [ok |-> FALSE, items |-> <<>>]
        ELSE SignalFilter(failed, lines, Context(Family(reco)))
=============================================================================
