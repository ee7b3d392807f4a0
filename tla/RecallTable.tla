---------------------------- MODULE RecallTable ----------------------------
(***************************************************************************)
(* The recall page table of a conversation (recall.go): coordinates that   *)
(* folds have taken out of the prompt.  Each request restores the table    *)
(* from the saved state, adds what its fold evicts, hints at what its      *)
(* newest turn mentions, and serialises the table again (state.go), as     *)
(* handleReduce and Reduce do.                                             *)
(*                                                                         *)
(* A coordinate is a model value; which ones a text holds is chosen        *)
(* freely.  The byte limit of the serialised state is a number of keys:    *)
(* all keys are taken to have one length.                                  *)
(***************************************************************************)
EXTENDS Integers, Sequences, FiniteSets, SequencesExt

CONSTANTS Coords,     \* coordinates that occur in texts
          TTL,        \* RecallTTLTurns
          MaxKeys,    \* keys that fit ReduceStateSerialMax
          MaxTurns    \* bound: turns of the conversation

ASSUME RecallAssumption ==
    /\ IsFiniteSet(Coords)
    /\ TTL \in Nat \ {0}
    /\ MaxKeys \in Nat
    /\ MaxTurns \in Nat

VARIABLES stored,     \* the saved state: its turn and its table
          hints,      \* coordinates the last request surfaced
          hintedAt,   \* history: the turn of the last hint of each on record, or -1
          recent,     \* history: what the last TTL - 1 requests hinted, on record or not
          evicted     \* history: coordinates whose eviction is on record

recallVars == <<stored, hints, hintedAt, recent, evicted>>

(* A hint or an eviction is on record if its request's state was saved and *)
(* the row was not lost since.                                             *)

(* What is there before the first request, and after the state is lost.    *)
Cold == [turn |-> -1, table |-> <<>>]

Entry == [key : Coords, last : -1 .. MaxTurns]
KeysOf(table) == {table[i].key : i \in 1 .. Len(table)}

(* Type correctness; no key is in the table twice.                         *)
TypeOK ==
    /\ stored.turn \in -1 .. MaxTurns
    /\ Len(stored.table) <= MaxKeys
    /\ \A i \in 1 .. Len(stored.table) : stored.table[i] \in Entry
    /\ Cardinality(KeysOf(stored.table)) = Len(stored.table)
    /\ hints \subseteq Coords
    /\ evicted \subseteq Coords
    /\ hintedAt \in [Coords -> -1 .. MaxTurns]
    /\ Len(recent) < TTL
    /\ \A i \in 1 .. Len(recent) :
         recent[i] \in [turn : 0 .. MaxTurns, hints : SUBSET Coords, kept : BOOLEAN]

RecallInit ==
    /\ stored = Cold
    /\ hints = {}
    /\ hintedAt = [k \in Coords |-> -1]
    /\ recent = <<>>
    /\ evicted = {}

-----------------------------------------------------------------------------
(* RecallIndex.Add: a key that is there keeps its residency.               *)
AddAgain(table, k) ==
    Append(SelectSeq(table, LAMBDA e : e.key # k), [key |-> k, last |-> -1])
Add(table, k) ==
    IF k \in KeysOf(table) THEN table ELSE Append(table, [key |-> k, last |-> -1])

(* RecallIndex.Detect on the newest turn.                                  *)
Rested(e, turn) == e.last < 0 \/ turn - e.last >= TTL
Surfaces(table, touched, turn) ==
    {table[i].key : i \in {j \in 1 .. Len(table) :
        table[j].key \in touched /\ Rested(table[j], turn)}}
Marked(table, surfaced, turn) ==
    [i \in 1 .. Len(table) |->
        IF table[i].key \in surfaced THEN [table[i] EXCEPT !.last = turn] ELSE table[i]]

(* SerializeState: most recently surfaced first, equals in their order,    *)
(* and as many as fit.                                                     *)
Warmer(table, i, j) == table[i].last > table[j].last \/ (table[i].last = table[j].last /\ i < j)
Place(table, i) == 1 + Cardinality({j \in 1 .. Len(table) : Warmer(table, j, i)})
Ranked(table) ==
    [k \in 1 .. Len(table) |-> table[CHOOSE i \in 1 .. Len(table) : Place(table, i) = k]]
FirstKeys(table, n) == SubSeq(table, 1, IF Len(table) < n THEN Len(table) ELSE n)
FitTooFew(table) == FirstKeys(table, MaxKeys - 1)
Fit(table) == FirstKeys(table, MaxKeys)
SerializeState(table) == Fit(Ranked(table))

(* gw_state_next_turn.                                                     *)
NextTurn == stored.turn + 1

(* The last TTL - 1 requests, with one more.                               *)
Remembered(request) ==
    IF Len(recent) < TTL - 1 THEN Append(recent, request) ELSE Tail(Append(recent, request))

(* A request: what its fold evicts comes in the order of the texts; one    *)
(* that does not fold leaves the table alone.  Its state may not be saved. *)
Request(folds, found, touched, saved) ==
    LET added == FoldLeft(Add, stored.table, found)
        surfaced == IF folds THEN Surfaces(added, touched, NextTurn) ELSE {}
        table == IF folds THEN Marked(added, surfaced, NextTurn) ELSE stored.table
    IN  /\ hints' = surfaced
        /\ recent' = Remembered([turn |-> NextTurn, hints |-> surfaced, kept |-> saved])
        /\ IF saved
           THEN /\ stored' = [turn |-> NextTurn, table |-> SerializeState(table)]
                /\ hintedAt' = [k \in Coords |-> IF k \in surfaced THEN NextTurn
                                                 ELSE hintedAt[k]]
                /\ evicted' = IF folds THEN evicted \cup ToSet(found) ELSE evicted
           ELSE UNCHANGED <<stored, hintedAt, evicted>>

(* The row is gone, or cannot be restored: all or nothing.                 *)
LoseState ==
    /\ stored # Cold
    /\ stored' = Cold
    /\ hints' = {}
    /\ hintedAt' = [k \in Coords |-> -1]
    /\ recent' = [i \in DOMAIN recent |-> [recent[i] EXCEPT !.kept = FALSE]]
    /\ evicted' = {}

(* What an evicted prefix may mention, in any order.                       *)
Texts == UNION {SetToSeqs(s) : s \in SUBSET Coords}

(* What the newest turn may contain as a whole token.                      *)
Mentions == SUBSET Coords

RecallNext ==
    \/ /\ NextTurn <= MaxTurns
       /\ \E saved \in BOOLEAN :
            \/ \E found \in Texts, touched \in Mentions : Request(TRUE, found, touched, saved)
            \/ Request(FALSE, <<>>, {}, saved)
    \/ LoseState

RecallSpec == RecallInit /\ [][RecallNext]_recallVars

-----------------------------------------------------------------------------
(* Anti-thrash: none of the last TTL - 1 requests hinted at what a request *)
(* hints at, but for a hint that is not on record (the code keeps no other *)
(* memory of it), or that the size cap pushed out, which takes more than   *)
(* MaxKeys coordinates hinted no earlier.  While a hint is on record,      *)
(* evicting its coordinate again, saving and restoring the table do not    *)
(* reset its clock (RecallIndex.Add, Detect, SerializeState).              *)
AntiThrash ==
    [][\A k \in hints', i \in DOMAIN recent :
         k \in recent[i].hints =>
           \/ ~recent[i].kept
           \/ Cardinality({j \in Coords : hintedAt[j] >= recent[i].turn}) > MaxKeys]_recallVars

(* A coordinate whose eviction is on record is in the table, or the row is *)
(* full (RecallIndex.Add, SerializeState).                                 *)
ForgottenOnlyWhenFull ==
    evicted \subseteq KeysOf(stored.table) \/ Len(stored.table) = MaxKeys
=============================================================================
