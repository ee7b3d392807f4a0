--------------------------- MODULE ReduceSession ---------------------------
(***************************************************************************)
(* One conversation through the reduce stage: the client's transcript      *)
(* grows turn by turn, each request loads the reducer state of the         *)
(* conversation, runs Reduce (reduce.go), asks GWShouldApply (gateway.go)  *)
(* for the verdict and saves the state again (module.go, state.go).        *)
(*                                                                         *)
(* Comparisons of token estimates are left open: enough gain to fold, a    *)
(* net shrink.                                                             *)
(***************************************************************************)
EXTENDS Fold

CONSTANTS Levers,       \* configurations: which levers and the closet are on
          Rates,        \* prices of models and settings of the freeze guard
          MaxMsgs,      \* bound: messages of the transcript
          MaxTurns,     \* bound: requests
          MaxRewrites   \* bound: rewrites of the history and losses of state

ASSUME LeversAssumption ==
    Levers \subseteq [compress : BOOLEAN, fold : BOOLEAN, closet : BOOLEAN]

ASSUME RatesAssumption ==
    Rates \subseteq [guard : BOOLEAN, priced : BOOLEAN, horizon : Int,
                     input : Nat, write : Nat, read : Nat]

VARIABLES levers,       \* the configuration of this conversation
          transcript,   \* the client's messages
          stored,       \* the freeze in the conversation's saved state
          turn,         \* requests so far
          view,         \* the reduced messages of the last request, or <<>>
          split,        \* the boundary of its fold, 0 if it did not fold
          reused,       \* its ReusedBoundary
          guarded,      \* its FreezeGuarded
          verdict,      \* its Bypass: "none" means the view is dispatched
          held,         \* history: the folded prefix of the view that pinned `stored`
          faithful,     \* history: nothing but appends since it was pinned
          rewrites      \* bounded count

result == <<view, split, reused, guarded, verdict>>
vars == <<levers, transcript, stored, turn, result, held, faithful, rewrites>>

(* Type correctness.                                                       *)
TypeOK ==
    /\ levers \in [compress : BOOLEAN, fold : BOOLEAN, closet : BOOLEAN]
    /\ Len(transcript) <= MaxMsgs
    /\ stored.split \in 0 .. MaxMsgs + 2 /\ stored.epochs \in 0 .. MaxTurns
    /\ Len(stored.digest) = stored.split
    /\ turn \in 0 .. MaxTurns
    /\ split \in 0 .. MaxMsgs + 2
    /\ reused \in BOOLEAN /\ guarded \in BOOLEAN /\ faithful \in BOOLEAN
    /\ verdict \in {"none", "no_op", "structural_violation"}

Init ==
    /\ levers \in Levers
    /\ transcript = <<>>
    /\ stored = NoFreeze
    /\ turn = 0
    /\ view = <<>>
    /\ split = 0
    /\ reused = FALSE
    /\ guarded = FALSE
    /\ verdict = "no_op"
    /\ held = <<>>
    /\ faithful = TRUE
    /\ rewrites = 0

-----------------------------------------------------------------------------
(* The client (external): user turns, tool calls and their results, and    *)
(* turns that interrupt a tool call.                                       *)

Says(role) == Carry(Plain(role), 0, "small", <<>>)
CallsTool(id) == Carry(CallBy("anthropic", <<id>>), 0, "small", <<>>)
Returns(id) == Carry(ResultOf("anthropic", id), 0, "raw", <<>>)

Follows(messages) ==
    LET n == Len(messages) IN
    IF n = 0 \/ (messages[n].role = "assistant" /\ messages[n].calls = <<>>)
    THEN {Says("user")}
    ELSE IF messages[n].role = "assistant"
    THEN {Says("user"), Returns(n)}
    ELSE {Says("assistant"), CallsTool(n + 1)}

Grow ==
    /\ Len(transcript) < MaxMsgs
    /\ \E m \in Follows(transcript) : transcript' = Append(transcript, m)
    /\ UNCHANGED <<levers, stored, turn, result, held, faithful, rewrites>>

(* The client edits an earlier message.                                    *)
Rewrite ==
    /\ rewrites < MaxRewrites
    /\ rewrites' = rewrites + 1
    /\ \E i \in 1 .. Len(transcript) : transcript' = [transcript EXCEPT ![i].rev = @ + 1]
    /\ faithful' = FALSE
    /\ UNCHANGED <<levers, stored, turn, result, held>>

(* The client goes back to an earlier message and goes on from there.      *)
Rewind ==
    /\ rewrites < MaxRewrites
    /\ rewrites' = rewrites + 1
    /\ \E n \in 1 .. Len(transcript) - 1 : transcript' = SubSeq(transcript, 1, n)
    /\ faithful' = FALSE
    /\ UNCHANGED <<levers, stored, turn, result, held>>

(* The saved state is gone or cannot be restored: a cold start.            *)
LoseState ==
    /\ rewrites < MaxRewrites
    /\ rewrites' = rewrites + 1
    /\ stored' = NoFreeze
    /\ UNCHANGED <<levers, transcript, turn, result, held, faithful>>

-----------------------------------------------------------------------------
(* Reduce: compress first, then fold what compression left.                *)

Compressed(messages) ==
    IF levers.compress THEN CompressView(messages, levers.closet) ELSE [folded |-> FALSE, messages |-> messages]

(* A fee for writing the cache is worth paying when the reads that follow  *)
(* save as much; without a discount on reads nothing is.                   *)
FreezeGuardMaxHorizon == 5
FreezeFavorableRates(r) ==
    LET horizon == Max({1, Min({r.horizon, FreezeGuardMaxHorizon})})
        saving  == r.input - r.read
        premium == r.write - r.input
    IN  saving > 0 /\ (premium <= 0 \/ horizon * saving >= premium)

FreezeGuarded(r) == r.guard /\ r.priced /\ ~FreezeFavorableRates(r)

(* What a comparison of token estimates may say.                           *)
Estimate == BOOLEAN

(* A guarded fold neither reads nor pins the boundary.                     *)
Folded(messages, freeze, unfavourable) ==
    LET f == FoldView(messages, IF unfavourable THEN NoFreeze ELSE freeze)
    IN  IF unfavourable THEN [f EXCEPT !.freeze = freeze] ELSE f

(* recallTrack surfaced a coordinate (module RecallTable): recallInject    *)
(* puts its hint at the end of a folded view.                              *)
Injected(f, hint) == IF f.folded /\ hint THEN Append(f.messages, RecallNote) ELSE f.messages

Reduce(messages, freeze, gain, unfavourable, hint) ==
    LET c == Compressed(messages)
        f == IF levers.fold /\ gain THEN Folded(c.messages, freeze, unfavourable)
             ELSE NotFolded(c.messages, freeze)
    IN  [mutated |-> c.folded \/ f.folded, messages |-> Injected(f, hint), split |-> f.split,
         reused |-> f.reused, freeze |-> f.freeze]

GWShouldApply(r, shrunk) ==
    IF ~r.mutated \/ ~shrunk THEN "no_op"
    ELSE IF MessageHistoryRepair(r.messages).repairs # 0 THEN "structural_violation"
    ELSE "none"

(* handleReduce, with the save that follows it: it may fail, and then the  *)
(* next request finds the previous state.                                  *)
Request ==
    /\ turn < MaxTurns
    /\ transcript # <<>>
    /\ Last(transcript).role = "user"
    /\ \E gain \in IF levers.fold THEN Estimate ELSE {FALSE} :
       \E unfavourable \in IF gain THEN {FreezeGuarded(r) : r \in Rates} ELSE {FALSE} :
       \E hint \in IF gain THEN BOOLEAN ELSE {FALSE} :
         LET r == Reduce(transcript, stored, gain, unfavourable, hint) IN
         /\ view' = IF r.mutated THEN r.messages ELSE <<>>
         /\ split' = r.split
         /\ reused' = r.reused
         /\ guarded' = unfavourable
         /\ \E shrunk \in Estimate : verdict' = GWShouldApply(r, shrunk)
         /\ \E saved \in BOOLEAN :
              LET pinned == saved /\ r.freeze # stored IN
              /\ stored' = IF saved THEN r.freeze ELSE stored
              /\ held' = IF pinned THEN r.messages[1].of ELSE held
              /\ faithful' = (faithful \/ pinned)
    /\ turn' = turn + 1
    /\ UNCHANGED <<levers, transcript, rewrites>>

Next == Grow \/ Rewrite \/ Rewind \/ LoseState \/ Request

Spec == Init /\ [][Next]_vars

-----------------------------------------------------------------------------
Paired(messages) == MessageHistoryRepair(messages).repairs = 0

(* Reduction never breaks a tool pair: a request is refused for its        *)
(* structure only when its transcript was not well formed to begin with.   *)
PairsSurvive ==
    [][turn' # turn /\ verdict' = "structural_violation" => ~Paired(transcript)]_vars

Added(m) == m.body \in {"note", "bridge", "recall"}

(* Trailing messages are kept at full fidelity: whatever the levers did,   *)
(* the last Retained messages of the transcript are in the view, verbatim, *)
(* in order and followed by nothing but notes the reducer added.  Behind a *)
(* reused boundary there may be fewer, when the client has gone back.      *)
KeptVerbatim == IF reused' THEN Min({Retained, Len(transcript) - split'}) ELSE Retained
RetainedVerbatim ==
    [][turn' # turn /\ view' # <<>> =>
         LET first == Max({1, Len(transcript) - KeptVerbatim + 1})
             tail == SubSeq(transcript, first, Len(transcript))
         IN  \E k \in 0 .. 3 :
                /\ \A i \in Len(view') - k + 1 .. Len(view') : Added(view'[i])
                /\ IsSuffix(tail, SubSeq(view', 1, Len(view') - k))]_vars

(* A reused boundary is honest: the folded prefix is the one that the view *)
(* that pinned the boundary carried, whatever the client did to its        *)
(* history in between.                                                     *)
ReuseIsHonest == reused => view[1].of = held

(* The freeze holds: with nothing but appends since the boundary was       *)
(* pinned, and the tail within its cap, the next fold is a reuse.          *)
FreezeHolds ==
    [][/\ turn' # turn
       /\ stored.active
       /\ faithful
       /\ split' > 0
       /\ ~guarded'
       /\ Len(transcript) - stored.split <= Cap
       => reused']_vars
=============================================================================
