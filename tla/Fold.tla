-------------------------------- MODULE Fold --------------------------------
(***************************************************************************)
(* The two levers of the reducer as operators on a transcript: the         *)
(* boundary-free compression of tool-result bodies (CompressView) and the  *)
(* rolling history fold with its frozen boundary (FoldView), both of       *)
(* fold.go.                                                                *)
(*                                                                         *)
(* A message is a message of module Repair with three more fields: `rev`   *)
(* tells apart versions of its text, `body` is the size class of what it   *)
(* carries, and `of` is what a synthetic message summarises.  Text that    *)
(* the code renders from other messages (skeleton, Coordinate Closet) is a *)
(* function of them and is represented by them.  prefixDigest is           *)
(* represented by the digested messages: hash collisions are left out.     *)
(***************************************************************************)
EXTENDS Repair, FiniteSetsExt

CONSTANTS Retained,   \* RetainedMsgs
          MinFold,    \* MinFoldMsgs
          TailCap     \* TailCapMsgs

ASSUME FoldAssumption ==
    /\ Retained \in Nat \ {0}
    /\ MinFold \in Nat \ {0}
    /\ TailCap \in Nat

Carry(m, rev, body, of) ==
    [shape |-> m.shape, role |-> m.role, calls |-> m.calls, results |-> m.results,
     text |-> m.text, args |-> m.args, rev |-> rev, body |-> body, of |-> of]

(* Messages the levers add.                                                *)
FoldNote(prefix) == Carry(Plain("user"), 0, "fold", prefix)
FoldAck == Carry(Plain("assistant"), 0, "ack", <<>>)
CompressNote(bodies) == Carry(Plain("user"), 0, "note", bodies)
CompressAck == Carry(Plain("assistant"), 0, "bridge", <<>>)
RecallNote == Carry(Plain("user"), 0, "recall", <<>>)

IsCleanUserTurnByRole(m) == m.role = "user"
IsCleanUserTurn(m) == m.role = "user" /\ m.results = <<>>

-----------------------------------------------------------------------------
(* compressMessageBodies: an oversized tool-result body is cut down.       *)
Oversized(m) == m.results # <<>> /\ m.body = "raw"
CompressBody(m) == IF Oversized(m) THEN Carry(m, m.rev, "compressed", m.of) ELSE m

(* The first messages, up to the retained band.                            *)
Limit(messages) == Len(messages) - Retained

(* The messages before the retained band are shrunk.  When the closet has  *)
(* something to say a note with the conserved identifiers is appended,     *)
(* after an assistant turn if the transcript ends with the user's.         *)
CompressView(messages, closet) ==
    LET limit == Limit(messages)
        bodies == SelectSeq(SubSeq(messages, 1, limit), Oversized)
        shrunk == [i \in 1 .. Len(messages) |->
                      IF i <= limit THEN CompressBody(messages[i]) ELSE messages[i]]
        bridge == IF Last(messages).role = "user" THEN <<CompressAck>> ELSE <<>>
    IN  IF \E i \in 1 .. limit : Oversized(messages[i])
        THEN [folded |-> TRUE,
              messages |-> shrunk \o (IF closet THEN Append(bridge, CompressNote(bodies))
                                      ELSE <<>>)]
        ELSE [folded |-> FALSE, messages |-> messages]

-----------------------------------------------------------------------------
(* FoldFreeze.  NoFreeze is also what RestoreState leaves of a lost state. *)
NoFreeze == [active |-> FALSE, split |-> 0, digest |-> <<>>, epochs |-> 0]

Cap == IF TailCap < Retained THEN Retained ELSE TailCap

(* The pinned boundary may be used again: still clean, tail within its     *)
(* cap, and the folded prefix unchanged.                                   *)
CanReuseUnchecked(messages, freeze) ==
    /\ freeze.active
    /\ freeze.split >= MinFold
    /\ freeze.split < Len(messages)
    /\ Len(messages) - freeze.split <= Cap
    /\ IsCleanUserTurn(messages[freeze.split + 1])

CanReuseBelowCap(messages, freeze) ==
    /\ CanReuseUnchecked(messages, freeze)
    /\ Len(messages) - freeze.split < Cap
    /\ SubSeq(messages, 1, freeze.split) = freeze.digest

CanReuse(messages, freeze) ==
    /\ freeze.active
    /\ freeze.split >= MinFold
    /\ freeze.split < Len(messages)
    /\ Len(messages) - freeze.split <= Cap
    /\ IsCleanUserTurn(messages[freeze.split + 1])
    /\ SubSeq(messages, 1, freeze.split) = freeze.digest

(* Boundaries a fresh fold may choose, the latest of which it takes: the   *)
(* retained band stays behind them.                                        *)
BoundariesOffByOne(messages) ==
    {s \in MinFold .. Len(messages) - Retained + 1 : IsCleanUserTurn(messages[s + 1])}

Boundaries(messages) ==
    {s \in MinFold .. Len(messages) - Retained : IsCleanUserTurn(messages[s + 1])}

Pin(freeze, split, prefix, reused) ==
    LET advanced == ~reused /\ (~freeze.active \/ freeze.split # split \/ freeze.digest # prefix)
    IN  [active |-> TRUE, split |-> split, digest |-> prefix,
         epochs |-> freeze.epochs + (IF advanced THEN 1 ELSE 0)]

NotFolded(messages, freeze) ==
    [folded |-> FALSE, messages |-> messages, split |-> 0, reused |-> FALSE, freeze |-> freeze]

FoldView(messages, freeze) ==
    LET reused == CanReuse(messages, freeze)
        split == IF reused THEN freeze.split ELSE Max(Boundaries(messages))
        prefix == SubSeq(messages, 1, split)
    IN  IF Limit(messages) < MinFold \/ (~reused /\ Boundaries(messages) = {})
        THEN NotFolded(messages, freeze)
        ELSE [folded |-> TRUE,
              messages |-> <<FoldNote(prefix), FoldAck>>
                             \o SubSeq(messages, split + 1, Len(messages)),
              split |-> split, reused |-> reused,
              freeze |-> Pin(freeze, split, prefix, reused)]
=============================================================================
