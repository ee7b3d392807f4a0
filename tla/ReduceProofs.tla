---------------------------- MODULE ReduceProofs ----------------------------
(***************************************************************************)
(* The reduce stage over the turns of a conversation (ReduceSession), for  *)
(* transcripts, retained bands, folds, tail caps and histories of any      *)
(* length.                                                                 *)
(*                                                                         *)
(* A boundary is pinned together with what it folds: the digest stored is  *)
(* that of the view that pinned it (StoredInv).  While the client only     *)
(* appends, that is still what the levers would make of its first          *)
(* messages, for compression reaches no further than the retained band and *)
(* the boundary lies before it (FrozenInv). Another part follows the tail  *)
(* of the transcript through compression, fold and the notes behind.       *)
(*                                                                         *)
(* Tool pairs: in what the client says a result answers a call of the      *)
(* message right before it (Adjacent), and the first message after the     *)
(* boundary begins a user's turn; so no pair lies across it, and the last  *)
(* part finds every call with its result in the reduced view.              *)
(***************************************************************************)
EXTENDS ReduceSession, RepairProofs

(* The closet's note is at the end of what the fold counts as messages, so *)
(* what is proved of the tail and the frozen boundary is proved for        *)
(* configurations that do not turn all three on.  (With all on, TLC shows  *)
(* a boundary that is not reused.)                                         *)
NoteAfterFold == \A l \in Levers : ~(l.compress /\ l.fold /\ l.closet)

(* A message of the client.                                                *)
Said == [shape : {"text", "anthropic"}, role : {"user", "assistant"},
         calls : Seq(Nat), results : Seq(Nat), text : BOOLEAN, args : {"ok"},
         rev : Nat, body : {"small", "raw"}, of : {<<>>}]

-----------------------------------------------------------------------------
(* The greatest of a set of numbers.                                       *)

LEMMA MaxOfPair ==
  ASSUME NEW a \in Int, NEW b \in Int
  PROVE  Max({a, b}) = IF a >= b THEN a ELSE b
<1> DEFINE m == IF a >= b THEN a ELSE b
<1>1. m \in {a, b} /\ \A y \in {a, b} : m >= y
  OBVIOUS
<1>2. \A x \in {a, b} : (\A y \in {a, b} : x >= y) => x = m
  OBVIOUS
<1> QED BY <1>1, <1>2 DEF Max

LEMMA MinOfPair ==
  ASSUME NEW a \in Int, NEW b \in Int
  PROVE  Min({a, b}) = IF a >= b THEN b ELSE a
<1> DEFINE m == IF a >= b THEN b ELSE a
<1>1. m \in {a, b} /\ \A y \in {a, b} : m =< y
  OBVIOUS
<1>2. \A x \in {a, b} : (\A y \in {a, b} : x =< y) => x = m
  OBVIOUS
<1> QED BY <1>1, <1>2 DEF Min

LEMMA MaxBelow ==
  ASSUME NEW n \in Nat, NEW S, S \subseteq 0 .. n, S # {}
  PROVE  Max(S) \in S
<1> DEFINE T == {k \in Nat : n - k \in S}
           R == {p \in Nat \X Nat : p[1] < p[2]}
<1>1. IsWellFoundedOn(R, Nat)
  BY NatLessThanWellFounded DEF OpToRel
<1>2. T \subseteq Nat /\ T # {}
  <2> PICK x \in S : TRUE
    OBVIOUS
  <2>1. n - x \in Nat /\ n - (n - x) = x
    OBVIOUS
  <2> QED BY <2>1
<1> HIDE DEF R
<1>3. PICK t \in T : \A y \in T : ~ (<<y, t>> \in R)
  BY <1>1, <1>2, WFMin, Zenon
<1>4. \A y \in T : y >= t
  <2> SUFFICES ASSUME NEW y \in T, y < t PROVE FALSE
    BY <1>2
  <2>1. <<y, t>> \in R
    BY <1>2 DEF R
  <2> QED BY <1>3, <2>1
<1>5. PICK x \in S : t = n - x
  <2>1. n - t \in S /\ t = n - (n - t)
    BY <1>2
  <2> QED BY <2>1
<1>6. \A y \in S : x >= y
  <2> SUFFICES ASSUME NEW y \in S PROVE x >= y
    OBVIOUS
  <2>1. n - y \in Nat /\ n - (n - y) = y
    OBVIOUS
  <2>2. n - y >= t
    BY <1>4, <2>1
  <2> QED BY <1>5, <2>2
<1> QED BY <1>5, <1>6 DEF Max

-----------------------------------------------------------------------------
(* The levers.                                                             *)

LEMMA Parameters ==
  /\ Retained \in Nat /\ Retained >= 1 /\ MinFold \in Nat /\ MinFold >= 1
  /\ TailCap \in Nat /\ Cap \in Nat /\ Cap >= Retained
BY FoldAssumption DEF Cap

(* Two sequences, one after the other.                                     *)
LEMMA Joined ==
  ASSUME NEW S, NEW a \in Seq(S), NEW b \in Seq(S), NEW c, c = a \o b,
         NEW n, n = Len(a)
  PROVE  /\ c \in Seq(S) /\ Len(c) = n + Len(b)
         /\ \A i \in 1 .. n : c[i] = a[i]
         /\ \A i \in n + 1 .. Len(c) : i - n \in 1 .. Len(b) /\ c[i] = b[i - n]
OBVIOUS

LEMMA JoinedToTwo ==
  ASSUME NEW S, NEW rest \in Seq(S), NEW x \in S, NEW y \in S, NEW n, n = Len(rest)
  PROVE  /\ <<x, y>> \o rest \in Seq(S) /\ Len(<<x, y>> \o rest) = n + 2
         /\ (<<x, y>> \o rest)[1] = x /\ (<<x, y>> \o rest)[2] = y
         /\ \A i \in 3 .. n + 2 : i - 2 \in 1 .. n /\ (<<x, y>> \o rest)[i] = rest[i - 2]
OBVIOUS

LEMMA AtMostTwoMore ==
  ASSUME NEW n \in Nat, NEW k \in 0 .. 2, NEW m, m = n + k
  PROVE  m \in n .. n + 2 /\ (k = 0 => m = n)
OBVIOUS

LEMMA OfOne ==
  ASSUME NEW S, NEW x \in S, NEW a, a = <<x>>
  PROVE  a \in Seq(S) /\ Len(a) = 1 /\ a[1] = x
OBVIOUS

LEMMA Appended ==
  ASSUME NEW S, NEW s \in Seq(S), NEW x \in S, NEW c, c = Append(s, x)
  PROVE  /\ c \in Seq(S) /\ Len(c) = Len(s) + 1 /\ c[Len(s) + 1] = x
         /\ \A i \in 1 .. Len(s) : c[i] = s[i]
OBVIOUS

(* What the compression makes of message i of n.                           *)
Shrunk(messages, i) == IF i <= Limit(messages) THEN CompressBody(messages[i]) ELSE messages[i]

(* A message that calls nothing and answers nothing.                       *)
IsQuiet(m) == m.shape = "text" /\ m.calls = <<>> /\ m.results = <<>>

IsNote(m) == Added(m) /\ IsQuiet(m)

(* What follows the compressed messages.                                   *)
LEMMA CompressedTail ==
  ASSUME NEW closet \in BOOLEAN, NEW ends \in BOOLEAN, NEW x, NEW y,
         NEW bridge, bridge = IF ends THEN <<x>> ELSE <<>>,
         NEW a, a = IF closet THEN Append(bridge, y) ELSE <<>>
  PROVE  /\ a \in Seq({x, y}) /\ Len(a) \in 0 .. 2
         /\ ~closet => Len(a) = 0
<1>1. CASE ~closet
  <2>1. a = <<>>
    BY <1>1
  <2> QED BY <1>1, <2>1
<1>2. CASE closet /\ ends
  <2>1. bridge = <<x>>
    BY <1>2
  <2>2. bridge \in Seq({x, y}) /\ Len(bridge) = 1
    BY <2>1, OfOne
  <2>3. a = Append(bridge, y)
    BY <1>2
  <2>4. y \in {x, y}
    OBVIOUS
  <2>5. a \in Seq({x, y}) /\ Len(a) = Len(bridge) + 1
    BY <2>2, <2>3, <2>4, Appended
  <2> QED BY <1>2, <2>2, <2>5
<1>3. CASE closet /\ ~ends
  <2>1. bridge = <<>>
    BY <1>3
  <2>2. bridge \in Seq({x, y}) /\ Len(bridge) = 0
    BY <2>1
  <2>3. a = Append(bridge, y)
    BY <1>3
  <2>4. y \in {x, y}
    OBVIOUS
  <2>5. a \in Seq({x, y}) /\ Len(a) = Len(bridge) + 1
    BY <2>2, <2>3, <2>4, Appended
  <2> QED BY <1>3, <2>2, <2>5
<1> QED BY <1>1, <1>2, <1>3

LEMMA CompressedIs ==
  ASSUME NEW S, NEW messages \in Seq(S), messages # <<>>, NEW closet \in BOOLEAN,
         NEW c, c = CompressView(messages, closet),
         NEW n, n = Len(messages)
  PROVE  /\ \E T : c.messages \in Seq(T)
         /\ Len(c.messages) \in n .. n + 2
         /\ ~closet => Len(c.messages) = n
         /\ \A i \in 1 .. n : c.messages[i] = Shrunk(messages, i)
         /\ \A i \in n + 1 .. Len(c.messages) : IsNote(c.messages[i])
<1>1. n \in Nat /\ n >= 1 /\ Limit(messages) = n - Retained /\ Limit(messages) \in Int
  BY Parameters DEF Limit
<1>2. PICK limit : limit = Limit(messages)
  OBVIOUS
<1>3. PICK y : y = CompressNote(SelectSeq(SubSeq(messages, 1, limit), Oversized))
  OBVIOUS
<1>4. PICK x : x = CompressAck
  OBVIOUS
<1>5. PICK shrunk : shrunk = [i \in 1 .. n |-> Shrunk(messages, i)]
  OBVIOUS
<1>6. PICK bridge : bridge = IF Last(messages).role = "user" THEN <<x>> ELSE <<>>
  OBVIOUS
<1>7. PICK after : after = IF closet THEN Append(bridge, y) ELSE <<>>
  OBVIOUS
<1>8. c = IF \E i \in 1 .. limit : Oversized(messages[i])
          THEN [folded |-> TRUE, messages |-> shrunk \o after]
          ELSE [folded |-> FALSE, messages |-> messages]
  BY <1>2, <1>3, <1>4, <1>5, <1>6, <1>7, Zenon DEF CompressView, Shrunk
<1>9. CASE \E i \in 1 .. limit : Oversized(messages[i])
  <2> DEFINE T == {shrunk[i] : i \in 1 .. n} \cup {x, y}
  <2>1. c.messages = shrunk \o after
    BY <1>8, <1>9
  <2>2. shrunk \in Seq(T) /\ Len(shrunk) = n /\ \A i \in 1 .. n : shrunk[i] = Shrunk(messages, i)
    BY <1>1, <1>5
  <2>3. after \in Seq({x, y}) /\ Len(after) \in 0 .. 2 /\ (~closet => Len(after) = 0)
    BY <1>6, <1>7, CompressedTail
  <2>4. after \in Seq(T)
    BY <2>3
  <2>5. IsNote(x) /\ IsNote(y)
    BY <1>3, <1>4 DEF IsNote, Added, IsQuiet, CompressAck, CompressNote, Carry, Plain
  <2> HIDE DEF T
  <2>6. /\ c.messages \in Seq(T) /\ Len(c.messages) = n + Len(after)
        /\ \A i \in 1 .. n : c.messages[i] = shrunk[i]
        /\ \A i \in n + 1 .. Len(c.messages) : i - n \in 1 .. Len(after) /\ c.messages[i] = after[i - n]
    <3>1. PICK d : d = shrunk \o after
      OBVIOUS
    <3>2. shrunk \in Seq(T) /\ n = Len(shrunk)
      BY <2>2
    <3>3. /\ d \in Seq(T) /\ Len(d) = n + Len(after)
          /\ \A i \in 1 .. n : d[i] = shrunk[i]
          /\ \A i \in n + 1 .. Len(d) : i - n \in 1 .. Len(after) /\ d[i] = after[i - n]
      BY <2>4, <3>1, <3>2, Joined
    <3> QED BY <2>1, <3>1, <3>3, Zenon
  <2>7. \A i \in n + 1 .. Len(c.messages) : IsNote(c.messages[i])
    <3> SUFFICES ASSUME NEW i \in n + 1 .. Len(c.messages) PROVE IsNote(c.messages[i])
      OBVIOUS
    <3>1. after[i - n] \in {x, y}
      BY <2>3, <2>6
    <3>2. c.messages[i] = x \/ c.messages[i] = y
      BY <2>6, <3>1
    <3> QED BY <2>5, <3>2
  <2>8. Len(c.messages) \in n .. n + 2 /\ (~closet => Len(c.messages) = n)
    <3> SUFFICES ASSUME NEW m, m = Len(c.messages), NEW k, k = Len(after)
                 PROVE  m \in n .. n + 2 /\ (~closet => m = n)
      BY Zenon
    <3>1. m = n + k
      BY <2>6
    <3>2. k \in 0 .. 2
      BY <2>3
    <3>3. m \in n .. n + 2 /\ (k = 0 => m = n)
      BY <1>1, <3>1, <3>2, AtMostTwoMore, Zenon
    <3> QED BY <2>3, <3>3, Zenon
  <2> QED BY <2>2, <2>6, <2>7, <2>8
<1>10. CASE ~\E i \in 1 .. limit : Oversized(messages[i])
  <2>1. c.messages = messages
    BY <1>8, <1>10
  <2>2. \A i \in 1 .. n : messages[i] = Shrunk(messages, i)
    <3> SUFFICES ASSUME NEW i \in 1 .. n, i <= limit PROVE CompressBody(messages[i]) = messages[i]
      BY <1>2 DEF Shrunk
    <3>1. ~Oversized(messages[i])
      BY <1>1, <1>2, <1>10
    <3> QED BY <3>1 DEF CompressBody
  <2> QED BY <1>1, <2>1, <2>2
<1> QED BY <1>9, <1>10

(* A folded view: the note, the acknowledgement and what follows the       *)
(* boundary.                                                               *)
IsFoldedAt(c, messages, k, note, ack) ==
  /\ \E T : c \in Seq(T)
  /\ Len(c) = Len(messages) - k + 2
  /\ c[1] = note /\ c[2] = ack
  /\ \A i \in 3 .. Len(c) : c[i] = messages[k + i - 2]

LEMMA FoldedAt ==
  ASSUME NEW S, NEW messages \in Seq(S), NEW k \in 0 .. Len(messages),
         NEW x, NEW y,
         NEW rest \in Seq(S), Len(rest) = Len(messages) - k,
         \A i \in 1 .. Len(messages) - k : rest[i] = messages[k + i],
         NEW c, c = <<x, y>> \o rest
  PROVE  IsFoldedAt(c, messages, k, x, y)
<1>1. PICK n : n = Len(rest)
  OBVIOUS
<1>2. rest \in Seq(S) /\ n = Len(messages) - k /\ n \in Nat
      /\ \A i \in 1 .. n : rest[i] = messages[k + i]
  BY <1>1
<1>3. PICK T : T = S \cup {x, y}
  OBVIOUS
<1>4. rest \in Seq(T) /\ x \in T /\ y \in T
  BY <1>2, <1>3
<1>5. /\ <<x, y>> \o rest \in Seq(T) /\ Len(<<x, y>> \o rest) = n + 2
      /\ (<<x, y>> \o rest)[1] = x /\ (<<x, y>> \o rest)[2] = y
      /\ \A i \in 3 .. n + 2 : i - 2 \in 1 .. n /\ (<<x, y>> \o rest)[i] = rest[i - 2]
  BY <1>1, <1>4, JoinedToTwo
<1>6. /\ c \in Seq(T) /\ Len(c) = n + 2 /\ c[1] = x /\ c[2] = y
      /\ \A i \in 3 .. n + 2 : i - 2 \in 1 .. n /\ c[i] = rest[i - 2]
  BY <1>5, Zenon
<1>7. \A i \in 3 .. Len(c) : c[i] = messages[k + i - 2]
  <2> SUFFICES ASSUME NEW i \in 3 .. Len(c) PROVE c[i] = messages[k + i - 2]
    OBVIOUS
  <2>1. k + (i - 2) = k + i - 2
    BY <1>2, <1>6
  <2>2. c[i] = rest[i - 2] /\ i - 2 \in 1 .. n
    BY <1>6
  <2> QED BY <1>2, <2>1, <2>2, Zenon
<1>8. Len(c) = Len(messages) - k + 2
  BY <1>2, <1>6, Zenon
<1> QED BY <1>6, <1>7, <1>8 DEF IsFoldedAt

(* What a folded view f of the messages is, whatever became of the freeze. *)
IsFoldOf(f, messages, n) ==
  /\ f.split \in MinFold .. n - 1 /\ IsCleanUserTurn(messages[f.split + 1])
  /\ ~f.reused => f.split <= Limit(messages)
  /\ \E T : f.messages \in Seq(T)
  /\ Len(f.messages) = n - f.split + 2
  /\ f.messages[1].of = SubSeq(messages, 1, f.split)
  /\ IsQuiet(f.messages[1]) /\ IsQuiet(f.messages[2])
  /\ \A i \in 3 .. Len(f.messages) : f.messages[i] = messages[f.split + i - 2]

LEMMA FoldedIs ==
  ASSUME NEW S, NEW messages \in Seq(S), NEW freeze, freeze.split \in Nat,
         NEW f, f = FoldView(messages, freeze),
         NEW n, n = Len(messages)
  PROVE  /\ f.folded \in BOOLEAN /\ f.reused \in BOOLEAN
         /\ f = [folded |-> f.folded, messages |-> f.messages, split |-> f.split,
                 reused |-> f.reused, freeze |-> f.freeze]
         /\ ~f.folded => f = NotFolded(messages, freeze)
         /\ f.folded =>
              /\ IsFoldOf(f, messages, n)
              /\ f.reused => CanReuse(messages, freeze) /\ f.split = freeze.split
              /\ CanReuse(messages, freeze) => f.reused
              /\ f.freeze = Pin(freeze, f.split, SubSeq(messages, 1, f.split), f.reused)
<1>1. PICK again : again = CanReuse(messages, freeze)
  OBVIOUS
<1>2. PICK k : k = IF again THEN freeze.split ELSE Max(Boundaries(messages))
  OBVIOUS
<1>3. PICK prefix : prefix = SubSeq(messages, 1, k)
  OBVIOUS
<1> DEFINE stays == Limit(messages) < MinFold \/ (~again /\ Boundaries(messages) = {})
           view_ == <<FoldNote(prefix), FoldAck>> \o SubSeq(messages, k + 1, Len(messages))
           g == [folded |-> TRUE, messages |-> view_,
                 split |-> k, reused |-> again, freeze |-> Pin(freeze, k, prefix, again)]
<1>4. f = IF stays THEN NotFolded(messages, freeze) ELSE g
  BY <1>1, <1>2, <1>3, Zenon DEF FoldView
<1>5. n \in Nat /\ Limit(messages) = n - Retained /\ Limit(messages) \in Int
  BY Parameters DEF Limit
<1>6. again \in BOOLEAN
  BY <1>1 DEF CanReuse
<1>7. CASE stays
  <2>1. f = NotFolded(messages, freeze)
    BY <1>4, <1>7
  <2>2. /\ f.folded = FALSE /\ f.reused = FALSE
        /\ f = [folded |-> f.folded, messages |-> f.messages, split |-> f.split,
                reused |-> f.reused, freeze |-> f.freeze]
    BY <2>1 DEF NotFolded
  <2> QED BY <2>1, <2>2
<1>8. CASE ~stays
  <2>1. f = g
    BY <1>4, <1>8
  <2>2. again => CanReuse(messages, freeze) /\ k = freeze.split
    BY <1>1, <1>2
  <2>3. ~again => k \in Boundaries(messages)
    <3> SUFFICES ASSUME ~again PROVE k \in Boundaries(messages)
      OBVIOUS
    <3>1. Boundaries(messages) # {}
      BY <1>8
    <3>2. Boundaries(messages) \subseteq 0 .. n
      BY <1>5, Parameters DEF Boundaries
    <3>3. Max(Boundaries(messages)) \in Boundaries(messages)
      BY <1>5, <3>1, <3>2, MaxBelow
    <3> QED BY <1>2, <3>3
  <2>4. k \in MinFold .. n - 1 /\ IsCleanUserTurn(messages[k + 1])
    <3>1. CASE again
      BY <1>5, <2>2, <3>1, Parameters DEF CanReuse
    <3>2. CASE ~again
      BY <1>5, <2>3, <3>2, Parameters DEF Boundaries
    <3> QED BY <1>6, <3>1, <3>2
  <2>5. ~again => k <= Limit(messages)
    BY <1>5, <2>3, Parameters DEF Boundaries
  <2>6. f.folded = TRUE /\ f.split = k /\ f.reused = again
        /\ f.messages = view_ /\ f.freeze = Pin(freeze, k, prefix, again)
    <3> HIDE DEF view_, stays
    <3> QED BY <2>1
  <2>7. f.freeze = Pin(freeze, f.split, prefix, f.reused)
    BY <2>6
  <2>8. FoldNote(prefix).of = prefix /\ IsQuiet(FoldNote(prefix)) /\ IsQuiet(FoldAck)
    BY DEF FoldNote, FoldAck, Carry, Plain, IsQuiet
  <2>9. k \in 0 .. Len(messages)
    BY <1>5, <2>4, Parameters
  <2>10. /\ \E T : f.messages \in Seq(T)
         /\ Len(f.messages) = n - k + 2
         /\ f.messages[1] = FoldNote(prefix) /\ f.messages[2] = FoldAck
         /\ \A i \in 3 .. Len(f.messages) : f.messages[i] = messages[k + i - 2]
    <3>1. f.messages = view_
      BY <2>6
    <3>2. PICK x : x = FoldNote(prefix)
      OBVIOUS
    <3>3. PICK y : y = FoldAck
      OBVIOUS
    <3>4. PICK rest : rest = SubSeq(messages, k + 1, Len(messages))
      OBVIOUS
    <3>5. f.messages = <<x, y>> \o rest
      BY <3>1, <3>2, <3>3, <3>4, Zenon
    <3> HIDE DEF view_
    <3>6. /\ \E T : f.messages \in Seq(T)
          /\ Len(f.messages) = Len(messages) - k + 2
          /\ f.messages[1] = x /\ f.messages[2] = y
          /\ \A i \in 3 .. Len(f.messages) : f.messages[i] = messages[k + i - 2]
      <4>1. rest \in Seq(S) /\ Len(rest) = Len(messages) - k
        BY <2>9, <3>4
      <4>2. \A i \in 1 .. Len(messages) - k : rest[i] = messages[k + i]
        BY <2>9, <3>4
      <4>3. IsFoldedAt(f.messages, messages, k, x, y)
        BY <2>9, <3>5, <4>1, <4>2, FoldedAt
      <4> QED BY <4>3 DEF IsFoldedAt
    <3> QED BY <3>2, <3>3, <3>6
  <2> HIDE DEF view_, g
  <2>11. f.messages[1].of = prefix /\ IsQuiet(f.messages[1]) /\ IsQuiet(f.messages[2])
    BY <2>8, <2>10
  <2>12. f.folded => f.split = k /\ f.reused = again
    BY <2>6
  <2>13. CanReuse(messages, freeze) => f.reused
    BY <1>1, <2>6
  <2> HIDE DEF stays
  <2>14. IsFoldOf(f, messages, n)
    BY <1>3, <2>4, <2>5, <2>10, <2>11, <2>12, <2>6 DEF IsFoldOf
  <2>15. f = [folded |-> f.folded, messages |-> f.messages, split |-> f.split,
              reused |-> f.reused, freeze |-> f.freeze]
    BY <2>1 DEF g
  <2> QED BY <1>3, <1>6, <2>2, <2>6, <2>7, <2>13, <2>14, <2>15
<1> QED BY <1>7, <1>8

-----------------------------------------------------------------------------
(* The transcript holds messages of the client, the freeze is a freeze.    *)

IsFreeze(freeze) ==
  /\ freeze.active \in BOOLEAN /\ freeze.split \in Nat /\ freeze.epochs \in Nat
  /\ freeze = [active |-> freeze.active, split |-> freeze.split, digest |-> freeze.digest,
                epochs |-> freeze.epochs]

ReduceTypes ==
  /\ levers \in Levers
  /\ transcript \in Seq(Said)
  /\ IsFreeze(stored)

LEMMA IsSaid ==
  ASSUME NEW shape \in {"text", "anthropic"}, NEW role \in {"user", "assistant"},
         NEW calls \in Seq(Nat), NEW results \in Seq(Nat), NEW text \in BOOLEAN,
         NEW rev \in Nat, NEW body \in {"small", "raw"}
  PROVE  [shape |-> shape, role |-> role, calls |-> calls, results |-> results, text |-> text,
          args |-> "ok", rev |-> rev, body |-> body, of |-> <<>>] \in Said
BY DEF Said

LEMMA SaidByClient ==
  /\ \A role \in {"user", "assistant"} : Says(role) \in Said
  /\ \A id \in Nat : CallsTool(id) \in Said /\ Returns(id) \in Said
<1>1. ASSUME NEW role \in {"user", "assistant"} PROVE Says(role) \in Said
  <2>1. Says(role) = [shape |-> "text", role |-> role, calls |-> <<>>, results |-> <<>>, text |-> TRUE,
                      args |-> "ok", rev |-> 0, body |-> "small", of |-> <<>>]
    BY DEF Says, Carry, Plain
  <2>2. <<>> \in Seq(Nat)
    OBVIOUS
  <2> QED BY <2>1, <2>2, IsSaid, ZenonT(60)
<1>2. ASSUME NEW id \in Nat PROVE CallsTool(id) \in Said /\ Returns(id) \in Said
  <2>1. PICK one : one = <<id>>
    OBVIOUS
  <2>2. one \in Seq(Nat) /\ <<>> \in Seq(Nat)
    BY <2>1
  <2>3. CallsTool(id) = [shape |-> "anthropic", role |-> "assistant", calls |-> one,
                         results |-> <<>>, text |-> FALSE, args |-> "ok",
                         rev |-> 0, body |-> "small", of |-> <<>>]
    BY <2>1 DEF CallsTool, Carry, CallBy, Plain
  <2>4. Returns(id) = [shape |-> "anthropic", role |-> "user", calls |-> <<>>,
                       results |-> one, text |-> FALSE, args |-> "ok",
                       rev |-> 0, body |-> "raw", of |-> <<>>]
    BY <2>1 DEF Returns, Carry, ResultOf, Plain
  <2>5. CallsTool(id) \in Said
    BY <2>2, <2>3, IsSaid, ZenonT(60)
  <2> QED BY <2>2, <2>4, <2>5, IsSaid, ZenonT(60)
<1> QED BY <1>1, <1>2

LEMMA EditedIsSaid ==
  ASSUME NEW m \in Said
  PROVE  [m EXCEPT !.rev = @ + 1] \in Said
<1> SUFFICES ASSUME NEW shape, shape = m.shape, NEW role, role = m.role,
                    NEW calls, calls = m.calls, NEW results, results = m.results,
                    NEW text, text = m.text, NEW rev, rev = m.rev, NEW body, body = m.body
             PROVE  [m EXCEPT !.rev = @ + 1] \in Said
  OBVIOUS
<1>1. /\ shape \in {"text", "anthropic"} /\ role \in {"user", "assistant"}
      /\ calls \in Seq(Nat) /\ results \in Seq(Nat) /\ text \in BOOLEAN
      /\ rev \in Nat /\ body \in {"small", "raw"}
      /\ m = [shape |-> shape, role |-> role, calls |-> calls, results |-> results, text |-> text,
              args |-> "ok", rev |-> rev, body |-> body, of |-> <<>>]
  BY DEF Said
<1>2. PICK next \in Nat : next = rev + 1
  BY <1>1
<1>3. ASSUME NEW q, q = [shape |-> shape, role |-> role, calls |-> calls, results |-> results,
                         text |-> text, args |-> "ok", rev |-> next, body |-> body, of |-> <<>>]
      PROVE  q \in Said /\ [m EXCEPT !.rev = next] = q
  <2>1. q \in Said
    BY <1>1, <1>3 DEF Said
  <2>2. [m EXCEPT !.rev = next] = q
    BY <1>1, <1>3
  <2> QED BY <2>1, <2>2
<1>4. [m EXCEPT !.rev = @ + 1] = [m EXCEPT !.rev = next]
  BY <1>2
<1> QED BY <1>3, <1>4

LEMMA FollowsSaid ==
  ASSUME NEW messages \in Seq(Said)
  PROVE  Follows(messages) \subseteq Said
BY SaidByClient DEF Follows

LEMMA ClientSteps ==
  ASSUME transcript \in Seq(Said), Grow \/ Rewrite \/ Rewind
  PROVE  transcript' \in Seq(Said)
<1>1. CASE Grow
  BY <1>1, FollowsSaid DEF Grow
<1>2. CASE Rewrite
  <2>1. PICK i \in 1 .. Len(transcript) : transcript' = [transcript EXCEPT ![i].rev = @ + 1]
    BY <1>2 DEF Rewrite
  <2>2. transcript[i] \in Said
    OBVIOUS
  <2>3. [transcript[i] EXCEPT !.rev = @ + 1] \in Said
    BY <2>2, EditedIsSaid
  <2>4. transcript' = [transcript EXCEPT ![i] = [transcript[i] EXCEPT !.rev = @ + 1]]
    BY <2>1
  <2> QED BY <2>3, <2>4
<1>3. CASE Rewind
  BY <1>3 DEF Rewind
<1> QED BY <1>1, <1>2, <1>3

-----------------------------------------------------------------------------
(* The reduction.                                                          *)

LEMMA FoldedOf ==
  ASSUME NEW S, NEW messages \in Seq(S), NEW freeze, IsFreeze(freeze),
         NEW unfavourable \in BOOLEAN,
         NEW f, f = Folded(messages, freeze, unfavourable),
         NEW n, n = Len(messages)
  PROVE  /\ f.folded \in BOOLEAN /\ f.reused \in BOOLEAN
         /\ ~f.folded => f = NotFolded(messages, freeze)
         /\ f.folded =>
              /\ IsFoldOf(f, messages, n)
              /\ f.reused => ~unfavourable /\ CanReuse(messages, freeze) /\ f.split = freeze.split
              /\ ~unfavourable /\ CanReuse(messages, freeze) => f.reused
              /\ \/ f.freeze = freeze
                 \/ f.freeze = Pin(freeze, f.split, SubSeq(messages, 1, f.split), f.reused)
<1>1. CASE ~unfavourable
  <2>1. f = FoldView(messages, freeze)
    BY <1>1 DEF Folded
  <2>2. freeze.split \in Nat
    BY DEF IsFreeze
  <2> QED BY <1>1, <2>1, <2>2, FoldedIs
<1>2. CASE unfavourable
  <2>1. PICK g : g = FoldView(messages, NoFreeze)
    OBVIOUS
  <2>2. NoFreeze.split \in Nat /\ ~CanReuse(messages, NoFreeze)
    BY DEF NoFreeze, CanReuse
  <2>3. /\ g.folded \in BOOLEAN /\ g.reused \in BOOLEAN
        /\ g = [folded |-> g.folded, messages |-> g.messages, split |-> g.split,
                reused |-> g.reused, freeze |-> g.freeze]
        /\ ~g.folded => g = NotFolded(messages, NoFreeze)
        /\ g.folded => IsFoldOf(g, messages, n) /\ ~g.reused
    BY <2>1, <2>2, FoldedIs
  <2>4. f = [g EXCEPT !.freeze = freeze]
    BY <1>2, <2>1 DEF Folded
  <2>5. f = [folded |-> g.folded, messages |-> g.messages, split |-> g.split,
             reused |-> g.reused, freeze |-> freeze]
    BY <2>3, <2>4
  <2>6. /\ f.folded = g.folded /\ f.messages = g.messages /\ f.split = g.split
        /\ f.reused = g.reused /\ f.freeze = freeze
    BY <2>5
  <2>7. ~g.folded => f = NotFolded(messages, freeze)
    <3> SUFFICES ASSUME ~g.folded PROVE f = NotFolded(messages, freeze)
      OBVIOUS
    <3>1. g = NotFolded(messages, NoFreeze)
      BY <2>3
    <3>2. g.folded = FALSE /\ g.messages = messages /\ g.split = 0 /\ g.reused = FALSE
      BY <3>1 DEF NotFolded
    <3> QED BY <2>5, <3>2 DEF NotFolded
  <2>8. g.folded => IsFoldOf(f, messages, n)
    BY <2>3, <2>6 DEF IsFoldOf
  <2> QED BY <1>2, <2>3, <2>6, <2>7, <2>8
<1> QED BY <1>1, <1>2

(* What the compression, if it is on, leaves of the messages: c.           *)
Rendered(messages, i) == IF levers.compress THEN Shrunk(messages, i) ELSE messages[i]

IsRendered(c, messages, n) ==
  /\ \E T : c \in Seq(T)
  /\ Len(c) \in n .. n + 2
  /\ ~(levers.compress /\ levers.closet) => Len(c) = n
  /\ \A i \in 1 .. n : c[i] = Rendered(messages, i)
  /\ \A i \in n + 1 .. Len(c) : IsNote(c[i])

LEMMA CompressedOf ==
  ASSUME levers \in Levers, NEW S, NEW messages \in Seq(S), messages # <<>>,
         NEW c, c = Compressed(messages).messages,
         NEW n, n = Len(messages)
  PROVE  IsRendered(c, messages, n)
<1>1. levers.compress \in BOOLEAN /\ levers.closet \in BOOLEAN
  BY LeversAssumption
<1>2. CASE levers.compress
  <2>1. PICK d : d = CompressView(messages, levers.closet)
    OBVIOUS
  <2>2. c = d.messages
    BY <1>2, <2>1 DEF Compressed
  <2>3. /\ \E T : d.messages \in Seq(T)
        /\ Len(d.messages) \in n .. n + 2
        /\ ~levers.closet => Len(d.messages) = n
        /\ \A i \in 1 .. n : d.messages[i] = Shrunk(messages, i)
        /\ \A i \in n + 1 .. Len(d.messages) : IsNote(d.messages[i])
    BY <1>1, <2>1, CompressedIs
  <2> QED BY <1>2, <2>2, <2>3, Zenon DEF IsRendered, Rendered
<1>3. CASE ~levers.compress
  <2>1. c = messages
    BY <1>3 DEF Compressed
  <2>2. n \in Nat /\ Len(messages) = n /\ n \in n .. n + 2
    OBVIOUS
  <2>3. \A i \in n + 1 .. n : FALSE
    BY <2>2
  <2> QED BY <1>3, <2>1, <2>2, <2>3, Zenon DEF IsRendered, Rendered
<1> QED BY <1>1, <1>2, <1>3

(* What a reduction that folded c, n messages, is.                         *)
IsReduced(r, c, n) ==
  /\ r.split \in MinFold .. n - 1 /\ IsCleanUserTurn(c[r.split + 1])
  /\ ~r.reused => r.split <= Limit(c)
  /\ r.messages[1].of = SubSeq(c, 1, r.split)
  /\ IsQuiet(r.messages[1]) /\ IsQuiet(r.messages[2])
  /\ \E k : /\ k = n - r.split + 2
            /\ \E T : r.messages \in Seq(T)
            /\ Len(r.messages) \in k .. k + 1
            /\ \A i \in 3 .. k : r.messages[i] = c[r.split + i - 2]
            /\ \A i \in k + 1 .. Len(r.messages) : IsNote(r.messages[i])

LEMMA InjectedIs ==
  ASSUME NEW c, NEW n \in Nat, NEW f, f.folded, IsFoldOf(f, c, n), NEW hint \in BOOLEAN,
         NEW r, r.messages = Injected(f, hint), r.split = f.split, r.reused = f.reused
  PROVE  IsReduced(r, c, n)
<1>1. PICK m : m = f.messages
  OBVIOUS
<1>2. PICK k : k = n - f.split + 2
  OBVIOUS
<1>3. PICK T : m \in Seq(T)
  BY <1>1 DEF IsFoldOf
<1>4. /\ f.split \in MinFold .. n - 1 /\ Len(m) = k /\ m[1].of = SubSeq(c, 1, f.split)
      /\ IsQuiet(m[1]) /\ IsQuiet(m[2])
      /\ \A i \in 3 .. k : m[i] = c[f.split + i - 2]
  BY <1>1, <1>2 DEF IsFoldOf
<1>5. k \in Nat /\ k >= 3
  BY <1>2, <1>4, Parameters
<1>6. CASE ~hint
  <2>1. r.messages = m
    BY <1>1, <1>6 DEF Injected
  <2>2. k \in k .. k + 1 /\ \A i \in k + 1 .. k : FALSE
    BY <1>5
  <2> QED BY <1>2, <1>3, <1>4, <2>1, <2>2, Zenon DEF IsFoldOf, IsReduced
<1>7. CASE hint
  <2>1. PICK x : x = RecallNote
    OBVIOUS
  <2>2. PICK d : d = Append(m, x)
    OBVIOUS
  <2>3. r.messages = d
    BY <1>1, <1>7, <2>1, <2>2 DEF Injected
  <2>4. PICK U : U = T \cup {x}
    OBVIOUS
  <2>5. m \in Seq(U) /\ x \in U
    BY <1>3, <2>4
  <2>6. d \in Seq(U) /\ Len(d) = k + 1 /\ d[k + 1] = x /\ \A i \in 1 .. k : d[i] = m[i]
    BY <1>4, <2>2, <2>5, Appended
  <2>7. IsNote(x)
    BY <2>1 DEF RecallNote, Carry, Plain, IsNote, Added, IsQuiet
  <2>8. /\ d[1] = m[1] /\ d[2] = m[2] /\ Len(d) \in k .. k + 1
        /\ \A i \in 3 .. k : d[i] = m[i]
        /\ \A i \in k + 1 .. Len(d) : i = k + 1
    BY <1>5, <2>6
  <2>9. /\ r.split \in MinFold .. n - 1 /\ IsCleanUserTurn(c[r.split + 1])
        /\ ~r.reused => r.split <= Limit(c)
    BY DEF IsFoldOf
  <2>10. \A i \in k + 1 .. Len(d) : IsNote(d[i])
    BY <2>6, <2>7, <2>8
  <2>11. \A i \in 3 .. k : d[i] = c[f.split + i - 2]
    BY <1>4, <2>8, Zenon
  <2>12. /\ k = n - r.split + 2
         /\ \E V : r.messages \in Seq(V)
         /\ Len(r.messages) \in k .. k + 1
         /\ \A i \in 3 .. k : r.messages[i] = c[r.split + i - 2]
         /\ \A i \in k + 1 .. Len(r.messages) : IsNote(r.messages[i])
    BY <1>2, <2>3, <2>6, <2>8, <2>10, <2>11, ZenonT(60)
  <2>13. r.messages[1].of = SubSeq(c, 1, r.split) /\ IsQuiet(r.messages[1]) /\ IsQuiet(r.messages[2])
    BY <1>4, <2>3, <2>8, Zenon
  <2> QED BY <2>9, <2>12, <2>13, Zenon DEF IsReduced
<1> QED BY <1>6, <1>7

(* A reuse pins the boundary it found.                                     *)
LEMMA ReuseKeepsFreeze ==
  ASSUME NEW c, NEW freeze, IsFreeze(freeze), CanReuse(c, freeze)
  PROVE  Pin(freeze, freeze.split, SubSeq(c, 1, freeze.split), TRUE) = freeze
<1>1. freeze.active = TRUE /\ freeze.digest = SubSeq(c, 1, freeze.split) /\ freeze.epochs + 0 = freeze.epochs
  BY DEF IsFreeze, CanReuse
<1>2. Pin(freeze, freeze.split, SubSeq(c, 1, freeze.split), TRUE) =
        [active |-> TRUE, split |-> freeze.split, digest |-> freeze.digest, epochs |-> freeze.epochs]
  BY <1>1 DEF Pin
<1> QED BY <1>1, <1>2 DEF IsFreeze

(* The freeze that a fold pins when it did not reuse one.                  *)
FreshPin(freeze, k, prefix) == Pin(freeze, k, prefix, FALSE)

(* The result r of a reduction that compression left c, n messages, for.   *)
IsReduction(r, c, n, freeze, gain, unfavourable) ==
  \/ /\ r.split = 0 /\ r.reused = FALSE /\ r.freeze = freeze /\ r.messages = c
  \/ /\ levers.fold /\ gain /\ r.mutated = TRUE /\ IsReduced(r, c, n)
     /\ r.reused \in BOOLEAN
     /\ r.reused => ~unfavourable /\ CanReuse(c, freeze) /\ r.split = freeze.split
     /\ ~unfavourable /\ CanReuse(c, freeze) => r.reused
     /\ \/ r.freeze = freeze
        \/ /\ r.reused = FALSE
           /\ r.freeze = FreshPin(freeze, r.split, SubSeq(c, 1, r.split))

LEMMA ReducedIs ==
  ASSUME levers \in Levers, NEW S, NEW messages \in Seq(S), messages # <<>>,
         NEW freeze, IsFreeze(freeze),
         NEW gain \in BOOLEAN, NEW unfavourable \in BOOLEAN, NEW hint \in BOOLEAN,
         NEW r, r = Reduce(messages, freeze, gain, unfavourable, hint),
         NEW c, c = Compressed(messages).messages,
         NEW n, n = Len(c)
  PROVE  IsReduction(r, c, n, freeze, gain, unfavourable)
<1>1. PICK d : d = Compressed(messages)
  OBVIOUS
<1>2. PICK f : f = IF levers.fold /\ gain THEN Folded(d.messages, freeze, unfavourable)
                   ELSE NotFolded(d.messages, freeze)
  OBVIOUS
<1>3. r = [mutated |-> d.folded \/ f.folded, messages |-> Injected(f, hint), split |-> f.split,
           reused |-> f.reused, freeze |-> f.freeze]
  BY <1>1, <1>2, Zenon DEF Reduce
<1>4. /\ r.mutated = (d.folded \/ f.folded) /\ r.messages = Injected(f, hint)
      /\ r.split = f.split /\ r.reused = f.reused /\ r.freeze = f.freeze
  BY <1>3
<1>5. c = d.messages
  BY <1>1
<1>6. IsRendered(c, messages, Len(messages))
  BY CompressedOf
<1>7. PICK T : c \in Seq(T)
  BY <1>6 DEF IsRendered
<1>8. n \in Nat
  BY <1>7
<1>9. CASE f = NotFolded(c, freeze)
  <2>1. f.folded = FALSE /\ f.messages = c /\ f.split = 0 /\ f.reused = FALSE /\ f.freeze = freeze
    BY <1>9 DEF NotFolded
  <2> QED BY <1>4, <2>1 DEF Injected, IsReduction
<1>10. CASE f # NotFolded(c, freeze)
  <2>1. levers.fold /\ gain /\ f = Folded(c, freeze, unfavourable)
    BY <1>2, <1>5, <1>10
  <2>2. /\ f.folded \in BOOLEAN /\ f.reused \in BOOLEAN /\ f.folded
        /\ IsFoldOf(f, c, n)
        /\ f.reused => ~unfavourable /\ CanReuse(c, freeze) /\ f.split = freeze.split
        /\ ~unfavourable /\ CanReuse(c, freeze) => f.reused
        /\ \/ f.freeze = freeze
           \/ f.freeze = Pin(freeze, f.split, SubSeq(c, 1, f.split), f.reused)
    BY <1>7, <1>10, <2>1, FoldedOf
  <2>3. IsReduced(r, c, n)
    BY <1>4, <1>8, <2>2, InjectedIs
  <2>4. f.reused = TRUE => f.freeze = freeze
    BY <2>2, ReuseKeepsFreeze
  <2>5. \/ r.freeze = freeze
        \/ /\ r.reused = FALSE
           /\ r.freeze = FreshPin(freeze, r.split, SubSeq(c, 1, r.split))
    <3>1. CASE f.reused = TRUE
      BY <1>4, <2>4, <3>1
    <3>2. CASE f.reused = FALSE
      <4>1. f.freeze # freeze => f.freeze = FreshPin(freeze, f.split, SubSeq(c, 1, f.split))
        BY <2>2, <3>2 DEF FreshPin
      <4> QED BY <1>4, <3>2, <4>1
    <3> QED BY <2>2, <3>1, <3>2
  <2>6. r.mutated = TRUE
    BY <1>4, <2>2
  <2>7. /\ r.reused \in BOOLEAN
        /\ r.reused => ~unfavourable /\ CanReuse(c, freeze) /\ r.split = freeze.split
        /\ ~unfavourable /\ CanReuse(c, freeze) => r.reused
    BY <1>4, <2>2
  <2> QED BY <2>1, <2>3, <2>5, <2>6, <2>7, Zenon DEF IsReduction
<1> QED BY <1>9, <1>10

-----------------------------------------------------------------------------
(* A boundary is pinned together with what it folds.                       *)

StoredInv == stored.active => stored.digest = held

ReduceInv == ReduceTypes /\ StoredInv /\ ReuseIsHonest

(* What a request does with the result r of its reduction.                 *)
Stores(r, saved) ==
  /\ view' = IF r.mutated THEN r.messages ELSE <<>>
  /\ split' = r.split
  /\ reused' = r.reused
  /\ stored' = IF saved THEN r.freeze ELSE stored
  /\ held' = IF saved /\ r.freeze # stored THEN r.messages[1].of ELSE held
  /\ faithful' = (faithful \/ (saved /\ r.freeze # stored))
  /\ levers' = levers /\ transcript' = transcript

Answers(gain, unfavourable, hint) ==
  LET r == Reduce(transcript, stored, gain, unfavourable, hint) IN
  /\ view' = IF r.mutated THEN r.messages ELSE <<>>
  /\ split' = r.split
  /\ reused' = r.reused
  /\ guarded' = unfavourable
  /\ \E shrunk \in Estimate : verdict' = GWShouldApply(r, shrunk)
  /\ \E saved \in BOOLEAN :
       LET pinned == saved /\ r.freeze # stored IN
       /\ stored' = IF saved THEN r.freeze ELSE stored
       /\ held' = IF pinned THEN r.messages[1].of ELSE held
       /\ faithful' = (faithful \/ pinned)

LEMMA RequestAnswers ==
  ASSUME Request
  PROVE  \E gain, unfavourable, hint \in BOOLEAN : Answers(gain, unfavourable, hint)
<1>1. /\ \A r \in Rates : FreezeGuarded(r) \in BOOLEAN
      /\ Estimate = BOOLEAN
  BY DEF FreezeGuarded, Estimate
<1>2. PICK gain \in IF levers.fold THEN Estimate ELSE {FALSE} :
      \E unfavourable \in IF gain THEN {FreezeGuarded(r) : r \in Rates} ELSE {FALSE} :
      \E hint \in IF gain THEN BOOLEAN ELSE {FALSE} : Answers(gain, unfavourable, hint)
  BY Zenon DEF Request, Answers
<1>3. PICK unfavourable \in IF gain THEN {FreezeGuarded(r) : r \in Rates} ELSE {FALSE} :
      \E hint \in IF gain THEN BOOLEAN ELSE {FALSE} : Answers(gain, unfavourable, hint)
  BY <1>2, Zenon
<1>4. PICK hint \in IF gain THEN BOOLEAN ELSE {FALSE} : Answers(gain, unfavourable, hint)
  BY <1>3, Zenon
<1>5. gain \in BOOLEAN
  BY <1>1
<1>6. unfavourable \in BOOLEAN
  BY <1>1, <1>5
<1>7. hint \in BOOLEAN
  BY <1>5
<1> QED BY <1>4, <1>5, <1>6, <1>7, Zenon

LEMMA RequestReduces ==
  ASSUME Request
  PROVE  /\ transcript # <<>>
         /\ \E gain, unfavourable, hint, saved \in BOOLEAN :
              /\ guarded' = unfavourable
              /\ Stores(Reduce(transcript, stored, gain, unfavourable, hint), saved)
<1>2. PICK gain \in BOOLEAN, unfavourable \in BOOLEAN, hint \in BOOLEAN :
        Answers(gain, unfavourable, hint)
  BY RequestAnswers
<1>3. transcript # <<>> /\ levers' = levers /\ transcript' = transcript
  BY DEF Request
<1>4. PICK r : r = Reduce(transcript, stored, gain, unfavourable, hint)
  OBVIOUS
<1>5. PICK saved \in BOOLEAN :
        LET pinned == saved /\ r.freeze # stored IN
        /\ stored' = IF saved THEN r.freeze ELSE stored
        /\ held' = IF pinned THEN r.messages[1].of ELSE held
        /\ faithful' = (faithful \/ pinned)
  BY <1>2, <1>4, Zenon DEF Answers
<1>6. Stores(r, saved) /\ guarded' = unfavourable
  BY <1>2, <1>3, <1>4, <1>5, Zenon DEF Answers, Stores
<1> QED BY <1>2, <1>3, <1>4, <1>6, Zenon

LEMMA ReduceInitially == Init => ReduceInv
<1> SUFFICES ASSUME Init PROVE ReduceInv
  OBVIOUS
<1>1. levers \in Levers /\ transcript = <<>> /\ stored = NoFreeze /\ reused = FALSE
  BY DEF Init
<1>2. IsFreeze(NoFreeze) /\ NoFreeze.active = FALSE
  BY DEF IsFreeze, NoFreeze
<1>3. <<>> \in Seq(Said)
  OBVIOUS
<1> QED BY <1>1, <1>2, <1>3 DEF ReduceInv, ReduceTypes, StoredInv, ReuseIsHonest

(* A pinned freeze is a freeze.                                            *)
IsPinned(p, k, prefix) ==
  IsFreeze(p) /\ p.active = TRUE /\ p.split = k /\ p.digest = prefix

LEMMA PinIs ==
  ASSUME NEW freeze, IsFreeze(freeze), NEW k \in Nat, NEW prefix
  PROVE  IsPinned(FreshPin(freeze, k, prefix), k, prefix)
<1> SUFFICES ASSUME NEW p, p = FreshPin(freeze, k, prefix) PROVE IsPinned(p, k, prefix)
  OBVIOUS
<1>1. PICK e \in Nat : p = [active |-> TRUE, split |-> k, digest |-> prefix, epochs |-> e]
  <2>1. PICK e : e = freeze.epochs + (IF ~FALSE /\ (~freeze.active \/ freeze.split # k \/ freeze.digest # prefix)
                                      THEN 1 ELSE 0)
    OBVIOUS
  <2>2. p = [active |-> TRUE, split |-> k, digest |-> prefix, epochs |-> e]
    BY <2>1, Zenon DEF FreshPin, Pin
  <2>3. e = freeze.epochs + 1 \/ e = freeze.epochs + 0
    BY <2>1
  <2>4. e \in Nat
    BY <2>3 DEF IsFreeze
  <2> QED BY <2>2, <2>4
<1>2. p.active = TRUE /\ p.split = k /\ p.digest = prefix /\ p.epochs = e
  BY <1>1
<1> QED BY <1>1, <1>2 DEF IsFreeze, IsPinned

LEMMA RequestKeeps ==
  ASSUME ReduceInv, Request
  PROVE  ReduceInv'
<1>1. PICK gain \in BOOLEAN, unfavourable \in BOOLEAN, hint \in BOOLEAN, saved \in BOOLEAN :
        Stores(Reduce(transcript, stored, gain, unfavourable, hint), saved)
  BY RequestReduces
<1>2. PICK r : r = Reduce(transcript, stored, gain, unfavourable, hint)
  OBVIOUS
<1>3. PICK c : c = Compressed(transcript).messages
  OBVIOUS
<1>4. PICK n : n = Len(c)
  OBVIOUS
<1>5. levers \in Levers /\ transcript \in Seq(Said) /\ transcript # <<>> /\ IsFreeze(stored)
  BY RequestReduces DEF ReduceInv, ReduceTypes
<1>6. \/ r.split = 0 /\ r.reused = FALSE /\ r.freeze = stored /\ r.messages = c
      \/ /\ r.mutated = TRUE /\ IsReduced(r, c, n)
         /\ r.reused \in BOOLEAN
         /\ r.reused => CanReuse(c, stored) /\ r.split = stored.split
         /\ \/ r.freeze = stored
            \/ r.reused = FALSE /\ r.freeze = FreshPin(stored, r.split, SubSeq(c, 1, r.split))
  <2>1. IsReduction(r, c, n, stored, gain, unfavourable)
    BY <1>2, <1>3, <1>4, <1>5, ReducedIs
  <2> QED BY <2>1, Zenon DEF IsReduction
<1>7. Stores(r, saved)
  BY <1>1, <1>2
<1>8. CASE r.freeze = stored
  <2>1. stored' = stored /\ held' = held
    BY <1>7, <1>8 DEF Stores
  <2>2. ReduceTypes' /\ StoredInv'
    BY <1>7, <2>1 DEF Stores, ReduceInv, ReduceTypes, StoredInv
  <2>3. ReuseIsHonest'
    <3> SUFFICES ASSUME reused' PROVE view'[1].of = held'
      BY DEF ReuseIsHonest
    <3>1. r.reused
      BY <1>7 DEF Stores
    <3>2. r.mutated = TRUE /\ IsReduced(r, c, n) /\ CanReuse(c, stored) /\ r.split = stored.split
      BY <1>6, <3>1
    <3>3. view' = r.messages
      BY <1>7, <3>2 DEF Stores
    <3>4. r.messages[1].of = SubSeq(c, 1, stored.split)
      BY <3>2 DEF IsReduced
    <3>5. stored.active /\ SubSeq(c, 1, stored.split) = stored.digest
      BY <3>2 DEF CanReuse
    <3> QED BY <2>1, <3>3, <3>4, <3>5 DEF ReduceInv, StoredInv
  <2> QED BY <2>2, <2>3 DEF ReduceInv
<1>9. CASE r.freeze # stored
  <2>1. /\ r.mutated = TRUE /\ IsReduced(r, c, n) /\ r.reused = FALSE
        /\ r.freeze = FreshPin(stored, r.split, SubSeq(c, 1, r.split))
    BY <1>6, <1>9
  <2>2. reused' = FALSE
    BY <1>7, <2>1 DEF Stores
  <2>3. ReuseIsHonest'
    BY <2>2 DEF ReuseIsHonest
  <2>4. CASE ~saved
    <3>1. stored' = stored /\ held' = held
      BY <1>7, <2>4 DEF Stores
    <3> QED BY <1>7, <2>3, <3>1 DEF Stores, ReduceInv, ReduceTypes, StoredInv
  <2>5. CASE saved
    <3>1. stored' = r.freeze /\ held' = r.messages[1].of
      BY <1>7, <1>9, <2>5 DEF Stores
    <3>2. r.split \in Nat /\ r.messages[1].of = SubSeq(c, 1, r.split)
      <4>1. r.split \in MinFold .. n - 1 /\ r.messages[1].of = SubSeq(c, 1, r.split)
        BY <2>1 DEF IsReduced
      <4> QED BY <4>1, Parameters
    <3>3. IsFreeze(r.freeze) /\ r.freeze.digest = SubSeq(c, 1, r.split)
      <4>1. PICK k : k = r.split
        OBVIOUS
      <4>2. PICK prefix : prefix = SubSeq(c, 1, r.split)
        OBVIOUS
      <4>3. PICK q : q = FreshPin(stored, k, prefix)
        OBVIOUS
      <4>4. IsFreeze(q) /\ q.digest = prefix
        <5>1. k \in Nat /\ IsFreeze(stored)
          BY <1>5, <3>2, <4>1
        <5>2. IsPinned(FreshPin(stored, k, prefix), k, prefix)
          BY <5>1, PinIs, Zenon
        <5> QED BY <4>3, <5>2 DEF IsPinned
      <4>5. q = r.freeze
        BY <2>1, <4>1, <4>2, <4>3, Zenon
      <4> QED BY <4>2, <4>4, <4>5
    <3>4. IsFreeze(stored')
      BY <3>1, <3>3
    <3>5. ReduceTypes'
      BY <1>5, <1>7, <3>4 DEF Stores, ReduceTypes, IsFreeze
    <3>6. StoredInv'
      BY <3>1, <3>2, <3>3 DEF StoredInv
    <3> QED BY <2>3, <3>5, <3>6 DEF ReduceInv
  <2> QED BY <2>4, <2>5
<1> QED BY <1>8, <1>9

LEMMA ReduceKeeps ==
  ASSUME ReduceInv, [Next]_vars
  PROVE  ReduceInv'
<1>1. CASE Grow \/ Rewrite \/ Rewind
  <2>1. transcript' \in Seq(Said)
    BY <1>1, ClientSteps DEF ReduceInv, ReduceTypes
  <2>2. UNCHANGED <<levers, stored, view, reused, held>>
    BY <1>1 DEF Grow, Rewrite, Rewind, result
  <2> QED BY <2>1, <2>2 DEF ReduceInv, ReduceTypes, IsFreeze, StoredInv, ReuseIsHonest
<1>2. CASE LoseState
  <2>1. stored' = NoFreeze /\ UNCHANGED <<levers, transcript, view, reused, held>>
    BY <1>2 DEF LoseState, result
  <2>2. IsFreeze(NoFreeze) /\ NoFreeze.active = FALSE
    BY DEF IsFreeze, NoFreeze
  <2>3. IsFreeze(stored') /\ ~stored'.active
    BY <2>1, <2>2
  <2> QED BY <2>1, <2>3 DEF ReduceInv, ReduceTypes, IsFreeze, StoredInv, ReuseIsHonest
<1>3. CASE Request
  BY <1>3, RequestKeeps
<1>4. CASE UNCHANGED vars
  BY <1>4 DEF vars, result, ReduceInv, ReduceTypes, IsFreeze, StoredInv, ReuseIsHonest
<1> QED BY <1>1, <1>2, <1>3, <1>4 DEF Next

(* The transcript, the stored freeze and the last view stay consistent,    *)
(* whatever the client does and whatever is lost (reduce.go, state.go).    *)
THEOREM ReduceInvariant == Spec => []ReduceInv
<1>1. ReduceInv /\ [Next]_vars => ReduceInv'
  BY ReduceKeeps
<1> QED BY ReduceInitially, <1>1, PTL DEF Spec

(* A reused boundary folds exactly what the view that pinned it folded: a  *)
(* client that edits, rewinds or branches its history behind the boundary  *)
(* is never answered from the old fold (fold.go, FoldFreeze).              *)
THEOREM ReuseHonest == Spec => []ReuseIsHonest
<1>1. ReduceInv => ReuseIsHonest
  BY DEF ReduceInv
<1> QED BY ReduceInvariant, <1>1, PTL

-----------------------------------------------------------------------------
(* The frozen boundary.                                                    *)

FrozenInv ==
  stored.active /\ faithful =>
    /\ stored.split \in MinFold .. Len(transcript) - Retained
    /\ stored.digest = [i \in 1 .. stored.split |-> Rendered(transcript, i)]
    /\ IsCleanUserTurn(transcript[stored.split + 1])

LEMMA PrefixIs ==
  ASSUME NEW S, NEW s \in Seq(S), NEW k \in 0 .. Len(s)
  PROVE  SubSeq(s, 1, k) = [i \in 1 .. k |-> s[i]]
OBVIOUS

(* Neither lever changes who speaks, nor what a message answers.           *)
LEMMA StaysClean ==
  ASSUME NEW messages, NEW i
  PROVE  IsCleanUserTurn(Rendered(messages, i)) <=> IsCleanUserTurn(messages[i])
<1>1. ASSUME NEW m PROVE IsCleanUserTurn(CompressBody(m)) <=> IsCleanUserTurn(m)
  BY DEF IsCleanUserTurn, CompressBody, Carry
<1> QED BY <1>1 DEF Rendered, Shrunk

(* Growth leaves a prefix before the retained band as it was.              *)
SamePrefix(longer, messages, k) ==
  /\ \A i \in 1 .. k : Rendered(longer, i) = Rendered(messages, i)
  /\ longer[k + 1] = messages[k + 1]

LEMMA GrowthKeepsFrozen ==
  ASSUME NEW messages, NEW n \in Nat, n = Len(messages),
         NEW longer, Len(longer) = n + 1, \A i \in 1 .. n : longer[i] = messages[i],
         NEW k \in Nat, k >= 1, k <= n - Retained
  PROVE  SamePrefix(longer, messages, k)
<1>1. PICK l \in Nat : l = Len(longer)
  OBVIOUS
<1>2. Limit(longer) = l - Retained /\ Limit(messages) = n - Retained
  BY <1>1, Zenon DEF Limit
<1>3. ASSUME NEW i \in 1 .. k PROVE Rendered(longer, i) = Rendered(messages, i)
  <2>1. i \in 1 .. n /\ i <= l - Retained /\ i <= n - Retained
    BY <1>1, Parameters
  <2>2. longer[i] = messages[i]
    BY <2>1
  <2> QED BY <1>2, <2>1, <2>2, Zenon DEF Rendered, Shrunk
<1>4. k + 1 \in 1 .. n
  BY Parameters
<1> QED BY <1>3, <1>4 DEF SamePrefix

(* What compression leaves of the transcript when a fold follows.          *)
LEMMA RenderedTranscript ==
  ASSUME NoteAfterFold, ReduceTypes, transcript # <<>>, levers.fold,
         NEW c, c = Compressed(transcript).messages
  PROVE  /\ \E T : c \in Seq(T)
         /\ Len(c) = Len(transcript)
         /\ \A i \in 1 .. Len(transcript) : c[i] = Rendered(transcript, i)
<1>1. IsRendered(c, transcript, Len(transcript))
  BY CompressedOf DEF ReduceTypes
<1>2. ~(levers.compress /\ levers.closet)
  BY DEF NoteAfterFold, ReduceTypes
<1> QED BY <1>1, <1>2 DEF IsRendered

LEMMA FrozenAtPin ==
  ASSUME NoteAfterFold, ReduceTypes, transcript # <<>>, levers.fold,
         NEW c, c = Compressed(transcript).messages,
         NEW k \in MinFold .. Len(c) - 1, IsCleanUserTurn(c[k + 1]), k <= Limit(c)
  PROVE  /\ k \in MinFold .. Len(transcript) - Retained
         /\ SubSeq(c, 1, k) = [i \in 1 .. k |-> Rendered(transcript, i)]
         /\ IsCleanUserTurn(transcript[k + 1])
<1>1. PICK n : n = Len(transcript)
  OBVIOUS
<1>2. PICK T : c \in Seq(T)
  BY RenderedTranscript
<1>3. Len(c) = n /\ n \in Nat /\ \A i \in 1 .. n : c[i] = Rendered(transcript, i)
  <2>1. n \in Nat
    BY <1>1 DEF ReduceTypes
  <2> QED BY <1>1, <2>1, RenderedTranscript
<1>4. k \in MinFold .. n - Retained /\ k \in 1 .. n - 1 /\ k + 1 \in 1 .. n
  BY <1>3, Parameters DEF Limit
<1>5. SubSeq(c, 1, k) = [i \in 1 .. k |-> c[i]]
  BY <1>2, <1>3, <1>4, PrefixIs
<1>6. [i \in 1 .. k |-> c[i]] = [i \in 1 .. k |-> Rendered(transcript, i)]
  BY <1>3, <1>4
<1>7. IsCleanUserTurn(transcript[k + 1])
  BY <1>3, <1>4, StaysClean
<1> QED BY <1>1, <1>4, <1>5, <1>6, <1>7

LEMMA RequestKeepsFrozen ==
  ASSUME NoteAfterFold, ReduceTypes, FrozenInv, Request
  PROVE  FrozenInv'
<1>1. PICK gain \in BOOLEAN, unfavourable \in BOOLEAN, hint \in BOOLEAN, saved \in BOOLEAN :
        Stores(Reduce(transcript, stored, gain, unfavourable, hint), saved)
  BY RequestReduces
<1>2. PICK r : r = Reduce(transcript, stored, gain, unfavourable, hint)
  OBVIOUS
<1>3. PICK c : c = Compressed(transcript).messages
  OBVIOUS
<1>4. PICK n : n = Len(c)
  OBVIOUS
<1>5. levers \in Levers /\ transcript \in Seq(Said) /\ transcript # <<>> /\ IsFreeze(stored)
  BY RequestReduces DEF ReduceTypes
<1>6. Stores(r, saved)
  BY <1>1, <1>2
<1>7. IsReduction(r, c, n, stored, gain, unfavourable)
  BY <1>2, <1>3, <1>4, <1>5, ReducedIs
<1>8. levers' = levers /\ transcript' = transcript
  BY <1>6 DEF Stores
<1>9. \A i : Rendered(transcript, i)' = Rendered(transcript, i)
  BY <1>8 DEF Rendered, Shrunk, CompressBody, Carry, Oversized, Limit
<1>10. CASE r.freeze = stored \/ ~saved
  <2>1. stored' = stored /\ faithful' = (faithful \/ FALSE)
    BY <1>6, <1>10 DEF Stores
  <2> QED BY <1>8, <1>9, <2>1 DEF FrozenInv
<1>11. CASE r.freeze # stored /\ saved
  <2>1. stored' = r.freeze
    BY <1>6, <1>11 DEF Stores
  <2>2. /\ levers.fold /\ IsReduced(r, c, n) /\ r.reused = FALSE
        /\ r.freeze = FreshPin(stored, r.split, SubSeq(c, 1, r.split))
    BY <1>7, <1>11, Zenon DEF IsReduction
  <2>3. PICK k : k = r.split
    OBVIOUS
  <2>4. k \in MinFold .. Len(c) - 1 /\ IsCleanUserTurn(c[k + 1]) /\ k <= Limit(c)
    BY <1>4, <2>2, <2>3 DEF IsReduced
  <2>5. /\ k \in MinFold .. Len(transcript) - Retained
        /\ SubSeq(c, 1, k) = [i \in 1 .. k |-> Rendered(transcript, i)]
        /\ IsCleanUserTurn(transcript[k + 1])
    BY <1>3, <1>5, <2>2, <2>4, FrozenAtPin
  <2>6. PICK prefix : prefix = SubSeq(c, 1, k)
    OBVIOUS
  <2>7. k \in Nat
    BY <2>5, Parameters
  <2>8. IsPinned(FreshPin(stored, k, prefix), k, prefix)
    BY <1>5, <2>7, PinIs, Zenon
  <2>9. IsPinned(stored', k, prefix)
    BY <2>1, <2>2, <2>3, <2>6, <2>8, Zenon
  <2>10. stored'.split = k /\ stored'.digest = prefix
    BY <2>9 DEF IsPinned
  <2> QED BY <1>8, <1>9, <2>5, <2>6, <2>10 DEF FrozenInv
<1> QED BY <1>10, <1>11

LEMMA FrozenKeeps ==
  ASSUME NoteAfterFold, ReduceTypes, FrozenInv, [Next]_vars
  PROVE  FrozenInv'
<1>1. CASE Grow
  <2>1. PICK m \in Follows(transcript) : transcript' = Append(transcript, m)
    BY <1>1 DEF Grow
  <2>2. m \in Said /\ transcript \in Seq(Said)
    BY <2>1, FollowsSaid DEF ReduceTypes
  <2>3. levers' = levers /\ stored' = stored /\ faithful' = faithful
    BY <1>1 DEF Grow
  <2> SUFFICES ASSUME stored.active, faithful PROVE FrozenInv'
    BY <2>3 DEF FrozenInv
  <2>4. PICK k : k = stored.split
    OBVIOUS
  <2>5. /\ k \in MinFold .. Len(transcript) - Retained
        /\ stored.digest = [i \in 1 .. k |-> Rendered(transcript, i)]
        /\ IsCleanUserTurn(transcript[k + 1])
    BY <2>4 DEF FrozenInv
  <2>6. PICK longer : longer = Append(transcript, m)
    OBVIOUS
  <2>7. PICK n : n = Len(transcript)
    OBVIOUS
  <2>8. /\ n \in Nat /\ Len(longer) = n + 1
        /\ \A i \in 1 .. n : longer[i] = transcript[i]
    BY <2>2, <2>6, <2>7
  <2>9. k \in Nat /\ k >= 1 /\ k <= n - Retained
    BY <2>5, <2>7, <2>8, Parameters
  <2>10. SamePrefix(longer, transcript, k)
    BY <2>7, <2>8, <2>9, GrowthKeepsFrozen
  <2>11. transcript' = longer
    BY <2>1, <2>6
  <2>12. \A i : Rendered(transcript, i)' = Rendered(longer, i)
    BY <2>3, <2>11 DEF Rendered
  <2>13. [i \in 1 .. k |-> Rendered(transcript, i)] = [i \in 1 .. k |-> Rendered(transcript, i)']
    BY <2>12, <2>10 DEF SamePrefix
  <2>14. k \in MinFold .. Len(longer) - Retained
    BY <2>5, <2>8, <2>9, Parameters
  <2> QED BY <2>3, <2>4, <2>5, <2>11, <2>13, <2>14, <2>10 DEF FrozenInv, SamePrefix
<1>2. CASE Rewrite \/ Rewind
  BY <1>2 DEF Rewrite, Rewind, FrozenInv
<1>3. CASE LoseState
  BY <1>3 DEF LoseState, NoFreeze, FrozenInv
<1>4. CASE Request
  BY <1>4, RequestKeepsFrozen
<1>5. CASE UNCHANGED vars
  BY <1>5 DEF vars, result, FrozenInv, Rendered, Shrunk, CompressBody, Carry, Oversized, Limit
<1> QED BY <1>1, <1>2, <1>3, <1>4, <1>5 DEF Next

THEOREM FrozenInvariant ==
  ASSUME NoteAfterFold
  PROVE  Spec => []FrozenInv
<1>1. Init => FrozenInv
  BY DEF Init, NoFreeze, FrozenInv
<1>2. ReduceInv /\ FrozenInv /\ [Next]_vars => FrozenInv'
  BY FrozenKeeps DEF ReduceInv
<1> QED BY ReduceInvariant, <1>1, <1>2, PTL DEF Spec

(* With nothing but appends since a boundary was pinned and the tail       *)
(* within its cap, the next fold reuses the boundary (fold.go, FoldView;   *)
(* TailCapMsgs).                                                           *)
THEOREM FreezeHeld ==
  ASSUME NoteAfterFold
  PROVE  Spec => FreezeHolds
<1>1. ASSUME ReduceInv, FrozenInv, [Next]_vars,
             turn' # turn, stored.active, faithful, split' > 0, ~guarded',
             Len(transcript) - stored.split <= Cap
      PROVE  reused'
  <2>1. Request
    BY <1>1 DEF Next, Grow, Rewrite, Rewind, LoseState, vars
  <2>2. PICK gain \in BOOLEAN, unfavourable \in BOOLEAN, hint \in BOOLEAN, saved \in BOOLEAN :
          /\ guarded' = unfavourable
          /\ Stores(Reduce(transcript, stored, gain, unfavourable, hint), saved)
    BY <2>1, RequestReduces
  <2>3. PICK r : r = Reduce(transcript, stored, gain, unfavourable, hint)
    OBVIOUS
  <2>4. PICK c : c = Compressed(transcript).messages
    OBVIOUS
  <2>5. levers \in Levers /\ transcript \in Seq(Said) /\ transcript # <<>> /\ IsFreeze(stored)
    BY <1>1, <2>1, RequestReduces DEF ReduceInv, ReduceTypes
  <2>6. PICK n : n = Len(c)
    OBVIOUS
  <2>7. IsReduction(r, c, n, stored, gain, unfavourable)
    BY <2>3, <2>4, <2>5, <2>6, ReducedIs
  <2>8. split' = r.split /\ reused' = r.reused /\ ~unfavourable
    BY <1>1, <2>2, <2>3 DEF Stores
  <2>9. levers.fold /\ (CanReuse(c, stored) => r.reused)
    BY <1>1, <2>7, <2>8 DEF IsReduction
  <2>10. PICK k : k = stored.split
    OBVIOUS
  <2>11. /\ k \in MinFold .. Len(transcript) - Retained
         /\ stored.digest = [i \in 1 .. k |-> Rendered(transcript, i)]
         /\ IsCleanUserTurn(transcript[k + 1])
    BY <1>1, <2>10 DEF FrozenInv
  <2>12. PICK T : c \in Seq(T)
    BY <1>1, <2>4, <2>5, <2>9, RenderedTranscript DEF ReduceInv
  <2>13. n = Len(transcript) /\ n \in Nat /\ \A i \in 1 .. n : c[i] = Rendered(transcript, i)
    <3>1. Len(transcript) \in Nat
      BY <2>5
    <3> QED BY <1>1, <2>4, <2>5, <2>6, <2>9, <3>1, RenderedTranscript DEF ReduceInv
  <2>14. k \in Nat /\ k >= MinFold /\ k < n /\ k \in 0 .. n /\ k + 1 \in 1 .. n
    BY <2>11, <2>13, Parameters
  <2>15. SubSeq(c, 1, k) = [i \in 1 .. k |-> c[i]]
    BY <2>6, <2>12, <2>14, PrefixIs
  <2>16. [i \in 1 .. k |-> c[i]] = [i \in 1 .. k |-> Rendered(transcript, i)]
    BY <2>13, <2>14
  <2>17. IsCleanUserTurn(c[k + 1])
    BY <2>11, <2>13, <2>14, StaysClean
  <2>18. SubSeq(c, 1, k) = stored.digest
    BY <2>11, <2>15, <2>16, Zenon
  <2>19. CanReuse(c, stored)
    BY <1>1, <2>6, <2>10, <2>13, <2>14, <2>17, <2>18 DEF CanReuse
  <2> QED BY <2>8, <2>9, <2>19
<1>2. ReduceInv /\ FrozenInv /\ [Next]_vars =>
        [turn' # turn /\ stored.active /\ faithful /\ split' > 0 /\ ~guarded'
         /\ Len(transcript) - stored.split <= Cap => reused']_vars
  BY <1>1
<1> QED BY ReduceInvariant, FrozenInvariant, <1>2, PTL DEF Spec, FreezeHolds

-----------------------------------------------------------------------------
(* The retained band.                                                      *)

LEMMA SuffixIs ==
  ASSUME NEW S, NEW a \in Seq(S), NEW T, NEW b \in Seq(T),
         NEW m, m = Len(a), NEW n, n = Len(b), m <= n,
         \A i \in 1 .. m : a[i] = b[n - m + i]
  PROVE  IsSuffix(a, b)
<1>1. m \in Nat /\ n \in Nat
  OBVIOUS
<1>2. PICK ra : ra = Reverse(a)
  OBVIOUS
<1>3. PICK rb : rb = Reverse(b)
  OBVIOUS
<1>4. ra \in Seq(S) /\ Len(ra) = m /\ \A i \in 1 .. m : ra[i] = a[m - i + 1]
  BY <1>1, <1>2 DEF Reverse
<1>5. rb \in Seq(T) /\ Len(rb) = n /\ \A i \in 1 .. n : rb[i] = b[n - i + 1]
  BY <1>1, <1>3 DEF Reverse
<1>6. \A i \in 1 .. m : ra[i] = rb[i]
  <2> SUFFICES ASSUME NEW i \in 1 .. m PROVE ra[i] = rb[i]
    OBVIOUS
  <2>1. PICK j : j = m - i + 1
    OBVIOUS
  <2>2. j \in 1 .. m /\ n - m + j = n - i + 1 /\ i \in 1 .. n
    BY <1>1, <2>1
  <2>3. a[j] = b[n - m + j]
    BY <2>2
  <2> QED BY <1>4, <1>5, <2>1, <2>2, <2>3
<1>7. SubSeq(ra, 1, m) = [i \in 1 .. m |-> ra[i]]
  BY <1>1, <1>4, PrefixIs
<1>8. SubSeq(rb, 1, m) = [i \in 1 .. m |-> rb[i]]
  BY <1>1, <1>5, PrefixIs
<1>9. [i \in 1 .. m |-> ra[i]] = [i \in 1 .. m |-> rb[i]]
  BY <1>6
<1>10. SubSeq(ra, 1, m) = SubSeq(rb, 1, m)
  BY <1>7, <1>8, <1>9, Zenon
<1> QED BY <1>2, <1>3, <1>4, <1>5, <1>10 DEF IsSuffix, IsPrefix

LEMMA TailIsSuffix ==
  ASSUME NEW S, NEW t \in Seq(S), NEW n, n = Len(t), NEW first \in 1 .. n + 1,
         NEW T, NEW v \in Seq(T), NEW k \in Nat, k <= Len(v), n - first + 1 <= k,
         \A i \in first .. n : v[k - n + i] = t[i]
  PROVE  IsSuffix(SubSeq(t, first, n), SubSeq(v, 1, k))
<1>1. n \in Nat
  OBVIOUS
<1>2. PICK a : a = SubSeq(t, first, n)
  OBVIOUS
<1>3. PICK b : b = SubSeq(v, 1, k)
  OBVIOUS
<1>4. PICK m : m = n - first + 1
  OBVIOUS
<1>5. a \in Seq(S) /\ Len(a) = m /\ \A i \in 1 .. m : a[i] = t[first + i - 1]
  BY <1>1, <1>2, <1>4
<1>6. b \in Seq(T) /\ Len(b) = k /\ \A i \in 1 .. k : b[i] = v[i]
  BY <1>3
<1>7. m \in Nat /\ m <= k
  BY <1>1, <1>4
<1>8. \A i \in 1 .. m : a[i] = b[k - m + i]
  <2> SUFFICES ASSUME NEW i \in 1 .. m PROVE a[i] = b[k - m + i]
    OBVIOUS
  <2>1. PICK j : j = first + i - 1
    OBVIOUS
  <2>2. j \in first .. n /\ k - n + j = k - m + i /\ k - m + i \in 1 .. k
    BY <1>1, <1>4, <1>7, <2>1
  <2>3. v[k - n + j] = t[j]
    BY <2>2
  <2> QED BY <1>5, <1>6, <2>1, <2>2, <2>3
<1>9. IsSuffix(a, b)
  BY <1>5, <1>6, <1>7, <1>8, SuffixIs
<1> QED BY <1>2, <1>3, <1>9, Zenon

(* Verbatim at the end of view v: the last messages of t, from the first   *)
(* on, and then nothing but what the reducer adds.                         *)
EndsVerbatim(v, t, first) ==
  \E k \in 0 .. 3 :
    /\ \A i \in Len(v) - k + 1 .. Len(v) : Added(v[i])
    /\ IsSuffix(SubSeq(t, first, Len(t)), SubSeq(v, 1, Len(v) - k))

(* What compression spares: the messages behind its limit.                 *)
LEMMA SparedByCompression ==
  ASSUME NEW messages, NEW n \in Nat, n = Len(messages), NEW i \in Int, i > n - Retained
  PROVE  Rendered(messages, i) = messages[i]
<1>1. Limit(messages) = n - Retained
  BY Zenon DEF Limit
<1>2. ~(i <= n - Retained)
  BY Parameters
<1> QED BY <1>1, <1>2, Zenon DEF Rendered, Shrunk

(* A view that was only compressed.                                        *)
LEMMA CompressedVerbatim ==
  ASSUME NEW S, NEW t \in Seq(S), NEW n, n = Len(t), NEW c, IsRendered(c, t, n),
         NEW first \in 1 .. n + 1, first > n - Retained
  PROVE  EndsVerbatim(c, t, first)
<1>1. n \in Nat
  OBVIOUS
<1>2. PICK T : c \in Seq(T)
  BY DEF IsRendered
<1>3. PICK k : k = Len(c) - n
  OBVIOUS
<1>4. Len(c) \in n .. n + 2 /\ k \in 0 .. 3 /\ Len(c) - k = n
  BY <1>1, <1>3 DEF IsRendered
<1>5. \A i \in Len(c) - k + 1 .. Len(c) : Added(c[i])
  BY <1>4 DEF IsRendered, IsNote
<1>6. \A i \in first .. n : c[n - n + i] = t[i]
  <2> SUFFICES ASSUME NEW i \in first .. n PROVE c[n - n + i] = t[i]
    OBVIOUS
  <2>1. i \in 1 .. n /\ n - n + i = i /\ i > n - Retained /\ i \in Int
    BY <1>1, Parameters
  <2>2. c[i] = Rendered(t, i)
    BY <2>1 DEF IsRendered
  <2> QED BY <1>1, <2>1, <2>2, SparedByCompression
<1>7. n <= Len(c) /\ n - first + 1 <= n
  BY <1>1, <1>4
<1>8. IsSuffix(SubSeq(t, first, n), SubSeq(c, 1, n))
  BY <1>1, <1>2, <1>6, <1>7, TailIsSuffix
<1> QED BY <1>4, <1>5, <1>8 DEF EndsVerbatim

(* A view that was folded.                                                 *)
LEMMA FoldedVerbatim ==
  ASSUME NEW S, NEW t \in Seq(S), NEW n, n = Len(t), NEW T, NEW c \in Seq(T), Len(c) = n,
         \A i \in 1 .. n : c[i] = Rendered(t, i),
         NEW r, IsReduced(r, c, n),
         NEW first \in 1 .. n + 1, first > n - Retained, first > r.split
  PROVE  EndsVerbatim(r.messages, t, first)
<1>1. n \in Nat
  OBVIOUS
<1>2. PICK k : /\ k = n - r.split + 2
               /\ \E U : r.messages \in Seq(U)
               /\ Len(r.messages) \in k .. k + 1
               /\ \A i \in 3 .. k : r.messages[i] = c[r.split + i - 2]
               /\ \A i \in k + 1 .. Len(r.messages) : IsNote(r.messages[i])
  BY DEF IsReduced
<1>3. PICK v : v = r.messages
  OBVIOUS
<1>4. PICK s : s = r.split
  OBVIOUS
<1>5. PICK U : v \in Seq(U)
  BY <1>2, <1>3
<1>6. s \in MinFold .. n - 1 /\ s \in Nat
  <2>1. s \in MinFold .. n - 1
    BY <1>4 DEF IsReduced
  <2> QED BY <2>1, Parameters
<1>7. k \in Nat /\ k = n - s + 2 /\ Len(v) \in k .. k + 1 /\ first > s
  BY <1>1, <1>2, <1>3, <1>4, <1>6
<1>8. PICK added : added = Len(v) - k
  OBVIOUS
<1>9. added \in 0 .. 3 /\ Len(v) - added = k
  BY <1>7, <1>8
<1>10. \A i \in Len(v) - added + 1 .. Len(v) : Added(v[i])
  BY <1>2, <1>3, <1>9 DEF IsNote
<1>11. \A i \in first .. n : v[k - n + i] = t[i]
  <2> SUFFICES ASSUME NEW i \in first .. n PROVE v[k - n + i] = t[i]
    OBVIOUS
  <2>1. PICK j : j = k - n + i
    OBVIOUS
  <2>2. j \in 3 .. k /\ s + j - 2 = i
    BY <1>1, <1>6, <1>7, <2>1
  <2>3. v[j] = c[s + j - 2]
    BY <1>2, <1>3, <1>4, <2>2
  <2>4. i \in 1 .. n /\ i > n - Retained /\ i \in Int
    BY <1>1, Parameters
  <2>5. Rendered(t, i) = t[i]
    BY <1>1, <2>4, SparedByCompression
  <2>6. c[i] = t[i]
    BY <2>4, <2>5
  <2> QED BY <2>1, <2>2, <2>3, <2>6
<1>12. k <= Len(v) /\ n - first + 1 <= k
  BY <1>1, <1>6, <1>7
<1>13. IsSuffix(SubSeq(t, first, n), SubSeq(v, 1, k))
  BY <1>5, <1>7, <1>11, <1>12, TailIsSuffix
<1> QED BY <1>3, <1>9, <1>10, <1>13 DEF EndsVerbatim

LEMMA RequestVerbatim ==
  ASSUME NoteAfterFold, ReduceTypes, Request, view' # <<>>,
         NEW kept, kept = KeptVerbatim,
         NEW n, n = Len(transcript),
         NEW first, first = Max({1, n - kept + 1})
  PROVE  EndsVerbatim(view', transcript, first)
<1>1. PICK gain \in BOOLEAN, unfavourable \in BOOLEAN, hint \in BOOLEAN, saved \in BOOLEAN :
        Stores(Reduce(transcript, stored, gain, unfavourable, hint), saved)
  BY RequestReduces
<1>2. PICK r : r = Reduce(transcript, stored, gain, unfavourable, hint)
  OBVIOUS
<1>3. PICK c : c = Compressed(transcript).messages
  OBVIOUS
<1>4. PICK l : l = Len(c)
  OBVIOUS
<1>5. levers \in Levers /\ transcript \in Seq(Said) /\ transcript # <<>> /\ IsFreeze(stored)
  BY RequestReduces DEF ReduceTypes
<1>6. n \in Nat
  BY <1>5
<1>7. IsReduction(r, c, l, stored, gain, unfavourable)
  BY <1>2, <1>3, <1>4, <1>5, ReducedIs
<1>8. view' = r.messages /\ split' = r.split /\ reused' = r.reused
  BY <1>1, <1>2 DEF Stores
<1>9. IsRendered(c, transcript, n)
  BY <1>3, <1>5, CompressedOf
<1>10. CASE r.split = 0 /\ r.reused = FALSE /\ r.messages = c
  <2>1. kept = Retained
    BY <1>8, <1>10 DEF KeptVerbatim
  <2>2. first \in 1 .. n + 1 /\ first > n - Retained
    <3>1. 1 \in Int /\ n - kept + 1 \in Int
      BY <1>6, <2>1, Parameters
    <3>2. first = IF 1 >= n - kept + 1 THEN 1 ELSE n - kept + 1
      BY <3>1, MaxOfPair
    <3> QED BY <1>6, <2>1, <3>2, Parameters
  <2>3. EndsVerbatim(c, transcript, first)
    BY <1>5, <1>9, <2>2, CompressedVerbatim
  <2> QED BY <1>8, <1>10, <2>3
<1>11. CASE /\ levers.fold /\ IsReduced(r, c, l) /\ r.reused \in BOOLEAN
  <2>1. PICK T : c \in Seq(T)
    BY <1>3, <1>5, <1>11, RenderedTranscript
  <2>2. l = n /\ \A i \in 1 .. n : c[i] = Rendered(transcript, i)
    BY <1>3, <1>4, <1>5, <1>11, RenderedTranscript
  <2>3. PICK s : s = r.split
    OBVIOUS
  <2>4. s \in MinFold .. n - 1 /\ s \in Nat /\ s >= 1
    <3>1. s \in MinFold .. l - 1
      BY <1>11, <2>3 DEF IsReduced
    <3> QED BY <2>2, <3>1, Parameters
  <2>5. ~r.reused => s <= n - Retained
    <3>1. ~r.reused => s <= Limit(c)
      BY <1>11, <2>3 DEF IsReduced
    <3>2. Limit(c) = n - Retained
      BY <1>4, <2>2, Zenon DEF Limit
    <3> QED BY <3>1, <3>2
  <2>6. kept \in Nat /\ kept <= Retained /\ kept <= n - s
    <3>1. CASE r.reused
      <4>1. kept = Min({Retained, n - s})
        BY <1>8, <2>3, <3>1 DEF KeptVerbatim
      <4>2. kept = IF Retained >= n - s THEN n - s ELSE Retained
        <5>1. Retained \in Int /\ n - s \in Int
          BY <1>6, <2>4, Parameters
        <5> QED BY <4>1, <5>1, MinOfPair
      <4> QED BY <1>6, <2>4, <4>2, Parameters
    <3>2. CASE ~r.reused
      <4>1. kept = Retained
        BY <1>8, <3>2 DEF KeptVerbatim
      <4> QED BY <1>6, <2>4, <2>5, <3>2, <4>1, Parameters
    <3> QED BY <3>1, <3>2
  <2>7. first \in 1 .. n + 1 /\ first > n - Retained /\ first > s
    <3>1. 1 \in Int /\ n - kept + 1 \in Int
      BY <1>6, <2>6
    <3>2. first = IF 1 >= n - kept + 1 THEN 1 ELSE n - kept + 1
      BY <3>1, MaxOfPair
    <3> QED BY <1>6, <2>4, <2>6, <3>2, Parameters
  <2>8. first > r.split /\ IsReduced(r, c, n) /\ Len(c) = n
    BY <1>4, <1>11, <2>2, <2>3, <2>7
  <2>9. EndsVerbatim(r.messages, transcript, first)
    BY <1>5, <2>1, <2>2, <2>7, <2>8, FoldedVerbatim
  <2> QED BY <1>8, <2>9
<1> QED BY <1>7, <1>10, <1>11, Zenon DEF IsReduction

(* The last messages of the transcript are in every reduced view, verbatim *)
(* and in order, with only the reducer's own notes behind them             *)
(* (fold.go, RetainedMsgs).                                                *)
THEOREM RetainedKept ==
  ASSUME NoteAfterFold
  PROVE  Spec => RetainedVerbatim
<1>1. ASSUME ReduceInv, [Next]_vars, turn' # turn, view' # <<>>
      PROVE  LET first == Max({1, Len(transcript) - KeptVerbatim + 1})
                 tail == SubSeq(transcript, first, Len(transcript))
             IN  \E k \in 0 .. 3 :
                   /\ \A i \in Len(view') - k + 1 .. Len(view') : Added(view'[i])
                   /\ IsSuffix(tail, SubSeq(view', 1, Len(view') - k))
  <2>1. Request
    BY <1>1 DEF Next, Grow, Rewrite, Rewind, LoseState, vars
  <2>2. PICK kept : kept = KeptVerbatim
    OBVIOUS
  <2>3. PICK n : n = Len(transcript)
    OBVIOUS
  <2>4. PICK first : first = Max({1, n - kept + 1})
    OBVIOUS
  <2>5. EndsVerbatim(view', transcript, first)
    BY <1>1, <2>1, <2>2, <2>3, <2>4, RequestVerbatim DEF ReduceInv
  <2> QED BY <2>2, <2>3, <2>4, <2>5, Zenon DEF EndsVerbatim
<1>2. ReduceInv /\ [Next]_vars =>
        [turn' # turn /\ view' # <<>> =>
           LET first == Max({1, Len(transcript) - KeptVerbatim + 1})
               tail == SubSeq(transcript, first, Len(transcript))
           IN  \E k \in 0 .. 3 :
                 /\ \A i \in Len(view') - k + 1 .. Len(view') : Added(view'[i])
                 /\ IsSuffix(tail, SubSeq(view', 1, Len(view') - k))]_vars
  BY <1>1
<1> QED BY ReduceInvariant, <1>2, PTL DEF Spec, RetainedVerbatim

-----------------------------------------------------------------------------
(* Tool pairs.  A message of a client's history calls nothing but itself   *)
(* and answers nothing but the message before it.                          *)

CallsItself(t, i) ==
  \A x : Contains(t[i].calls, x) => x = i /\ t[i].shape = "anthropic" /\ t[i].role = "assistant"
AnswersThePrevious(t, i) ==
  \A x : Contains(t[i].results, x) => i > 1 /\ x = i - 1 /\ Contains(t[i - 1].calls, x)
Adjacent(t) == \A i \in 1 .. Len(t) : CallsItself(t, i) /\ AnswersThePrevious(t, i)

(* Same calls and results, of the same shape.                              *)
SamePairs(m, w) == m.shape = w.shape /\ m.calls = w.calls /\ m.results = w.results

LEMMA ContainsOne ==
  ASSUME NEW y, NEW s, s = <<y>>
  PROVE  \A x : Contains(s, x) <=> x = y
BY DEF Contains

LEMMA ContainsNone ==
  ASSUME NEW s, s = <<>>
  PROVE  \A x : ~Contains(s, x)
BY DEF Contains

LEMMA FieldsOfSaid ==
  ASSUME NEW m \in Said
  PROVE  /\ m.shape \in {"text", "anthropic"} /\ m.role \in {"user", "assistant"}
         /\ m.calls \in Seq(Nat) /\ m.results \in Seq(Nat) /\ m.args = "ok"
BY DEF Said

(* The messages of the client one after the other.                         *)
LEMMA SpokenPairs ==
  /\ \A role : IsQuiet(Says(role))
  /\ \A id : /\ CallsTool(id).shape = "anthropic" /\ CallsTool(id).role = "assistant"
             /\ CallsTool(id).calls = <<id>> /\ CallsTool(id).results = <<>>
  /\ \A id : Returns(id).calls = <<>> /\ Returns(id).results = <<id>>
<1>1. ASSUME NEW role PROVE IsQuiet(Says(role))
  BY DEF Says, Carry, Plain, IsQuiet
<1>2. ASSUME NEW id
      PROVE  /\ CallsTool(id).shape = "anthropic" /\ CallsTool(id).role = "assistant"
             /\ CallsTool(id).calls = <<id>> /\ CallsTool(id).results = <<>>
             /\ Returns(id).calls = <<>> /\ Returns(id).results = <<id>>
  BY DEF CallsTool, Returns, Carry, CallBy, ResultOf, Plain
<1> QED BY <1>1, <1>2

(* What CallsItself and AnswersThePrevious read.                           *)
LEMMA SameNeighbours ==
  ASSUME NEW s, NEW t, NEW i \in Nat, i >= 1,
         SamePairs(s[i], t[i]), s[i].role = t[i].role,
         i > 1 => SamePairs(s[i - 1], t[i - 1]),
         CallsItself(t, i), AnswersThePrevious(t, i)
  PROVE  CallsItself(s, i) /\ AnswersThePrevious(s, i)
BY DEF SamePairs, CallsItself, AnswersThePrevious

LEMMA AdjacentGrows ==
  ASSUME NEW t \in Seq(Said), Adjacent(t), NEW m \in Follows(t), NEW s, s = Append(t, m)
  PROVE  Adjacent(s)
<1>1. PICK n \in Nat : n = Len(t)
  OBVIOUS
<1>2. Len(s) = n + 1 /\ s[n + 1] = m /\ \A i \in 1 .. n : s[i] = t[i]
  BY <1>1
<1>3. ASSUME NEW i \in 1 .. n PROVE CallsItself(s, i) /\ AnswersThePrevious(s, i)
  <2>1. CallsItself(t, i) /\ AnswersThePrevious(t, i)
    BY <1>1 DEF Adjacent
  <2>2. s[i] = t[i] /\ (i > 1 => s[i - 1] = t[i - 1])
    BY <1>2
  <2>3. SamePairs(s[i], t[i]) /\ s[i].role = t[i].role /\ (i > 1 => SamePairs(s[i - 1], t[i - 1]))
    BY <2>2 DEF SamePairs
  <2>4. i \in Nat /\ i >= 1
    OBVIOUS
  <2> QED BY <2>1, <2>3, <2>4, SameNeighbours, Zenon
<1>4. CallsItself(s, n + 1) /\ AnswersThePrevious(s, n + 1)
  <2>1. CASE IsQuiet(m)
    <3>1. \A x : ~Contains(m.calls, x) /\ ~Contains(m.results, x)
      BY <2>1, ContainsNone DEF IsQuiet
    <3> QED BY <1>2, <3>1, Zenon DEF CallsItself, AnswersThePrevious
  <2>2. CASE m = CallsTool(n + 1)
    <3>1. /\ m.shape = "anthropic" /\ m.role = "assistant"
          /\ m.calls = <<n + 1>> /\ m.results = <<>>
      BY <2>2, SpokenPairs, Zenon
    <3>2. \A x : (Contains(m.calls, x) <=> x = n + 1) /\ ~Contains(m.results, x)
      BY <3>1, ContainsOne, ContainsNone
    <3> QED BY <1>2, <3>1, <3>2, Zenon DEF CallsItself, AnswersThePrevious
  <2>3. CASE m = Returns(n) /\ n >= 1 /\ t[n].calls # <<>>
    <3>1. t[n].calls \in Seq(Nat)
      BY <1>1, <2>3, FieldsOfSaid
    <3>2. PICK called : Contains(t[n].calls, called)
      <4>1. Contains(t[n].calls, t[n].calls[1])
        BY <2>3, <3>1 DEF Contains
      <4> QED BY <4>1
    <3>3. n \in 1 .. n
      BY <2>3
    <3>4. CallsItself(t, n)
      BY <1>1, <3>3 DEF Adjacent
    <3>5. Contains(t[n].calls, n)
      BY <3>2, <3>4 DEF CallsItself
    <3>6. Contains(s[n].calls, n) /\ n + 1 > 1 /\ n = n + 1 - 1
      BY <1>2, <2>3, <3>3, <3>5
    <3>7. m.calls = <<>> /\ \A x : Contains(m.results, x) => x = n
      <4>1. m.calls = <<>> /\ m.results = <<n>>
        BY <2>3, SpokenPairs, Zenon
      <4> QED BY <4>1, ContainsOne
    <3>8. \A x : ~Contains(m.calls, x)
      BY <3>7, ContainsNone
    <3>9. ASSUME NEW x, Contains(m.results, x)
          PROVE  n + 1 > 1 /\ x = n /\ Contains(s[n].calls, x)
      BY <3>6, <3>7, <3>9
    <3>10. s[n + 1] = m
      BY <1>2
    <3>11. CallsItself(s, n + 1)
      BY <3>8, <3>10, Zenon DEF CallsItself
    <3>12. AnswersThePrevious(s, n + 1)
      <4>1. PICK j : j = n + 1
        OBVIOUS
      <4>2. ASSUME NEW x, Contains(s[j].results, x)
            PROVE  j > 1 /\ x = j - 1 /\ Contains(s[j - 1].calls, x)
        <5>1. j > 1 /\ j - 1 = n
          BY <3>6, <4>1
        <5>2. Contains(m.results, x)
          BY <3>10, <4>1, <4>2, Zenon
        <5> QED BY <3>9, <5>1, <5>2
      <4>3. AnswersThePrevious(s, j)
        BY <4>2, Zenon DEF AnswersThePrevious
      <4> QED BY <4>1, <4>3
    <3> QED BY <3>11, <3>12
  <2>4. IsQuiet(m) \/ m = CallsTool(n + 1) \/ (m = Returns(n) /\ n >= 1 /\ t[n].calls # <<>>)
    <3>1. CASE n = 0 \/ (t[n].role = "assistant" /\ t[n].calls = <<>>)
      BY <1>1, <3>1, SpokenPairs DEF Follows
    <3>2. CASE ~(n = 0 \/ (t[n].role = "assistant" /\ t[n].calls = <<>>))
      BY <1>1, <3>2, SpokenPairs DEF Follows
    <3> QED BY <3>1, <3>2
  <2> QED BY <2>1, <2>2, <2>3, <2>4
<1> QED BY <1>2, <1>3, <1>4 DEF Adjacent

LEMMA AdjacentSteps ==
  ASSUME transcript \in Seq(Said), Adjacent(transcript), Grow \/ Rewrite \/ Rewind
  PROVE  Adjacent(transcript')
<1>1. CASE Grow
  BY <1>1, AdjacentGrows DEF Grow
<1>2. PICK n \in Nat : n = Len(transcript)
  OBVIOUS
<1>3. ASSUME NEW s, NEW l \in 0 .. n, Len(s) = l,
             \A i \in 1 .. l : SamePairs(s[i], transcript[i]) /\ s[i].role = transcript[i].role
      PROVE  Adjacent(s)
  <2> SUFFICES ASSUME NEW i \in 1 .. l PROVE CallsItself(s, i) /\ AnswersThePrevious(s, i)
    BY <1>3 DEF Adjacent
  <2>1. CallsItself(transcript, i) /\ AnswersThePrevious(transcript, i)
    BY <1>2 DEF Adjacent
  <2>2. /\ SamePairs(s[i], transcript[i]) /\ s[i].role = transcript[i].role
        /\ i > 1 => SamePairs(s[i - 1], transcript[i - 1])
    BY <1>3
  <2> QED BY <2>1, <2>2, SameNeighbours, SMTT(40)
<1>4. CASE Rewrite
  <2>1. PICK k \in 1 .. n : transcript' = [transcript EXCEPT ![k].rev = @ + 1]
    BY <1>2, <1>4 DEF Rewrite
  <2>2. PICK s : s = transcript'
    OBVIOUS
  <2>3. Len(s) = n /\ \A i \in 1 .. n : s[i] = IF i = k THEN [transcript[k] EXCEPT !.rev = @ + 1]
                                               ELSE transcript[i]
    BY <1>2, <2>1, <2>2
  <2>4. ASSUME NEW m \in Said, NEW w, w = [m EXCEPT !.rev = @ + 1]
        PROVE  SamePairs(w, m) /\ w.role = m.role
    BY <2>4 DEF Said, SamePairs
  <2>5. ASSUME NEW i \in 1 .. n PROVE SamePairs(s[i], transcript[i]) /\ s[i].role = transcript[i].role
    <3>1. transcript[i] \in Said
      BY <1>2
    <3>2. CASE i = k
      BY <2>3, <2>4, <3>1, <3>2
    <3>3. CASE i # k
      BY <2>3, <3>3 DEF SamePairs
    <3> QED BY <3>2, <3>3
  <2>6. n \in 0 .. n
    OBVIOUS
  <2> QED BY <1>3, <2>2, <2>3, <2>5, <2>6
<1>5. CASE Rewind
  <2>1. PICK l \in 1 .. n - 1 : transcript' = SubSeq(transcript, 1, l)
    BY <1>2, <1>5 DEF Rewind
  <2>2. PICK s : s = transcript'
    OBVIOUS
  <2>3. Len(s) = l /\ \A i \in 1 .. l : s[i] = transcript[i]
    BY <1>2, <2>1, <2>2
  <2>4. \A i \in 1 .. l : SamePairs(s[i], transcript[i]) /\ s[i].role = transcript[i].role
    BY <2>3 DEF SamePairs
  <2>5. l \in 0 .. n
    OBVIOUS
  <2> QED BY <1>3, <2>2, <2>3, <2>4, <2>5
<1> QED BY <1>1, <1>4, <1>5

(* Client histories keep results next to their calls.                      *)
THEOREM ResultsNextToCalls == Spec => []Adjacent(transcript)
<1>1. Init => Adjacent(transcript)
  BY DEF Init, Adjacent
<1>2. ReduceInv /\ Adjacent(transcript) /\ [Next]_vars => Adjacent(transcript)'
  <2> SUFFICES ASSUME ReduceInv, Adjacent(transcript), [Next]_vars PROVE Adjacent(transcript')
    OBVIOUS
  <2>1. CASE Grow \/ Rewrite \/ Rewind
    BY <2>1, AdjacentSteps DEF ReduceInv, ReduceTypes
  <2>2. CASE LoseState \/ Request \/ UNCHANGED vars
    BY <2>2 DEF LoseState, Request, vars
  <2> QED BY <2>1, <2>2 DEF Next
<1> QED BY ReduceInvariant, <1>1, <1>2, PTL DEF Spec

(* Messages that a repair of a client's history makes.                     *)
Cancels == [shape : {"anthropic"}, role : {"user"}, calls : {<<>>}, results : Seq(Nat),
            text : BOOLEAN, args : {"ok"}]

LEMMA AnsweredIsSaid ==
  ASSUME NEW m \in Said, NEW id \in Nat
  PROVE  [m EXCEPT !.results = Append(@, id)] \in Said
<1> SUFFICES ASSUME NEW shape, shape = m.shape, NEW role, role = m.role,
                    NEW calls, calls = m.calls, NEW results, results = m.results,
                    NEW text, text = m.text, NEW rev, rev = m.rev, NEW body, body = m.body
             PROVE  [m EXCEPT !.results = Append(@, id)] \in Said
  OBVIOUS
<1>1. /\ shape \in {"text", "anthropic"} /\ role \in {"user", "assistant"}
      /\ calls \in Seq(Nat) /\ results \in Seq(Nat) /\ text \in BOOLEAN
      /\ rev \in Nat /\ body \in {"small", "raw"}
      /\ m = [shape |-> shape, role |-> role, calls |-> calls, results |-> results, text |-> text,
              args |-> "ok", rev |-> rev, body |-> body, of |-> <<>>]
  BY DEF Said
<1>2. PICK next : next = Append(results, id)
  OBVIOUS
<1>3. next \in Seq(Nat)
  BY <1>1, <1>2
<1>4. ASSUME NEW q, q = [shape |-> shape, role |-> role, calls |-> calls, results |-> next,
                         text |-> text, args |-> "ok", rev |-> rev, body |-> body, of |-> <<>>]
      PROVE  q \in Said /\ [m EXCEPT !.results = next] = q
  <2>1. q \in Said
    BY <1>1, <1>3, <1>4 DEF Said
  <2>2. [m EXCEPT !.results = next] = q
    BY <1>1, <1>4
  <2> QED BY <2>1, <2>2
<1>5. [m EXCEPT !.results = Append(@, id)] = [m EXCEPT !.results = next]
  <2>1. next = Append(m.results, id)
    BY <1>2
  <2> QED BY <2>1, Zenon
<1> QED BY <1>4, <1>5

LEMMA AnsweredIsCancel ==
  ASSUME NEW m \in Cancels, NEW id \in Nat
  PROVE  [m EXCEPT !.results = Append(@, id)] \in Cancels
<1> SUFFICES ASSUME NEW results, results = m.results, NEW text, text = m.text
             PROVE  [m EXCEPT !.results = Append(@, id)] \in Cancels
  OBVIOUS
<1>1. /\ results \in Seq(Nat) /\ text \in BOOLEAN
      /\ m = [shape |-> "anthropic", role |-> "user", calls |-> <<>>, results |-> results,
              text |-> text, args |-> "ok"]
  BY DEF Cancels
<1>2. PICK next : next = Append(results, id)
  OBVIOUS
<1>3. next \in Seq(Nat)
  BY <1>1, <1>2
<1>4. ASSUME NEW q, q = [shape |-> "anthropic", role |-> "user", calls |-> <<>>, results |-> next,
                         text |-> text, args |-> "ok"]
      PROVE  q \in Cancels /\ [m EXCEPT !.results = next] = q
  <2>1. q \in Cancels
    BY <1>1, <1>3, <1>4 DEF Cancels
  <2>2. [m EXCEPT !.results = next] = q
    BY <1>1, <1>4
  <2> QED BY <2>1, <2>2
<1>5. [m EXCEPT !.results = Append(@, id)] = [m EXCEPT !.results = next]
  <2>1. next = Append(m.results, id)
    BY <1>2
  <2> QED BY <2>1, Zenon
<1> QED BY <1>4, <1>5

LEMMA HistoriesRepairable == Repairable(Said \cup Cancels, Nat)
<1>2. ASSUME NEW id \in Nat PROVE ResultOf("anthropic", id) \in Cancels
  <2>1. PICK one : one = <<id>>
    OBVIOUS
  <2>2. one \in Seq(Nat) /\ <<>> \in Seq(Nat)
    BY <2>1
  <2>3. PICK b \in BOOLEAN : b = FALSE
    OBVIOUS
  <2>4. PICK m : m = ResultOf("anthropic", id)
    OBVIOUS
  <2>5. m = [shape |-> "anthropic", role |-> "user", calls |-> <<>>, results |-> one,
             text |-> b, args |-> "ok"]
    BY <2>1, <2>3, <2>4 DEF ResultOf, Plain
  <2>6. m \in Cancels
    <3> HIDE <2>3
    <3> QED BY <2>2, <2>5 DEF Cancels
  <2> QED BY <2>4, <2>6
<1>3. \A m \in Said \cup Cancels : m.results \in Seq(Nat)
  BY DEF Said, Cancels
<1>4. \A m \in Said \cup Cancels : \A id \in Nat :
        [m EXCEPT !.results = Append(@, id)] \in Said \cup Cancels
  <2> SUFFICES ASSUME NEW m \in Said \cup Cancels, NEW id \in Nat
               PROVE  [m EXCEPT !.results = Append(@, id)] \in Said \cup Cancels
    OBVIOUS
  <2>1. CASE m \in Said
    BY <2>1, AnsweredIsSaid, Zenon
  <2>2. CASE m \in Cancels
    BY <2>2, AnsweredIsCancel, Zenon
  <2> QED BY <2>1, <2>2
<1> QED BY <1>2, <1>3, <1>4, Zenon DEF Repairable

(* A client's history is a history whose arguments parse.                  *)
LEMMA ClientHistory ==
  ASSUME NEW t \in Seq(Said)
  PROVE  /\ IsHistory(t, Nat)
         /\ \A i \in 1 .. Len(t) : Sanitize(t[i]) = t[i]
<1>1. \A i \in 1 .. Len(t) : t[i] \in Said
  OBVIOUS
<1>2. ASSUME NEW m \in Said PROVE Sanitize(m) = m
  <2>1. m.shape # "openai"
    BY FieldsOfSaid
  <2> QED BY <2>1, Zenon DEF Sanitize
<1>3. \A i \in 1 .. Len(t) : t[i].calls \in Seq(Nat) /\ t[i].results \in Seq(Nat)
  BY <1>1, FieldsOfSaid, Zenon
<1>4. \E T : t \in Seq(T)
  OBVIOUS
<1> QED BY <1>1, <1>2, <1>3, <1>4, Zenon DEF IsHistory

(* A client that calls tools speaks the Anthropic format.                  *)
LEMMA ClientFormat ==
  ASSUME NEW t \in Seq(Said), Adjacent(t), NEW x, Calls(t, x)
  PROVE  DetectFormat(t) = "anthropic"
<1>1. PICK n \in Nat : n = Len(t)
  OBVIOUS
<1>2. PICK D : D = {i \in 1 .. n : Decides(t[i])}
  OBVIOUS
<1>3. D # {}
  <2>1. PICK i \in 1 .. n : Contains(t[i].calls, x)
    BY <1>1 DEF Calls
  <2>2. t[i].shape = "anthropic"
    BY <1>1, <2>1 DEF Adjacent, CallsItself
  <2>3. t[i].calls # <<>>
    BY <2>1, ContainsNone
  <2> QED BY <1>2, <2>2, <2>3 DEF Decides
<1>4. PICK first : first = Min(D)
  OBVIOUS
<1>5. first \in D
  <2>1. IsFiniteSet(D)
    <3>1. D \in SUBSET (1 .. n)
      BY <1>2
    <3> QED BY <3>1, IntervalCount, FS_Subset
  <2>2. D \subseteq Int
    BY <1>2
  <2> QED BY <1>3, <1>4, <2>1, <2>2, MinIs
<1>6. first \in 1 .. n /\ Decides(t[first])
  BY <1>2, <1>5
<1>7. t[first].shape = "anthropic"
  <2>1. t[first] \in Said
    BY <1>1, <1>6
  <2> QED BY <1>6, <2>1, FieldsOfSaid DEF Decides
<1>8. first = SelectInSeq(t, Decides)
  BY <1>1, <1>2, <1>3, <1>4 DEF SelectInSeq
<1>9. DetectFormat(t) = IF first = 0 THEN "openai" ELSE t[first].shape
  BY <1>8, Zenon DEF DetectFormat
<1> QED BY <1>6, <1>7, <1>9

(* In a paired history the message after a call has its result.            *)
LEMMA AnsweredNext ==
  ASSUME NEW t \in Seq(Said), Adjacent(t), Paired(t),
         NEW i \in 1 .. Len(t), NEW x, Contains(t[i].calls, x)
  PROVE  x = i /\ i + 1 \in 1 .. Len(t) /\ Contains(t[i + 1].results, x)
<1>1. PICK R : R = Said \cup Cancels
  OBVIOUS
<1>2. Repairable(R, Nat) /\ t \in Seq(R)
  BY <1>1, HistoriesRepairable
<1>3. Calls(t, x)
  BY DEF Calls
<1>4. Results(t, x)
  BY <1>2, <1>3, ClientHistory, ClientFormat, UnrepairedIsAnswered DEF Paired
<1>5. PICK j \in 1 .. Len(t) : Contains(t[j].results, x)
  BY <1>4 DEF Results
<1>6. x = j - 1 /\ x = i
  BY <1>5 DEF Adjacent, AnswersThePrevious, CallsItself
<1>7. j = i + 1
  BY <1>6
<1> QED BY <1>5, <1>6, <1>7

(* View v shows the messages of t from k + 1 on, and quiet ones besides.   *)
Shows(v, t, k) ==
  /\ \E T : v \in Seq(T)
  /\ \A j \in 1 .. Len(v) : IsQuiet(v[j]) \/ \E i \in k + 1 .. Len(t) : SamePairs(v[j], t[i])
  /\ \A i \in k + 1 .. Len(t) : \E j \in 1 .. Len(v) : SamePairs(v[j], t[i])

(* The suffix from k + 1 on does not begin with a result.                  *)
BeginsClean(t, k) == k = 0 \/ (k < Len(t) => t[k + 1].results = <<>>)

LEMMA ShownIsPaired ==
  ASSUME NEW t \in Seq(Said), Adjacent(t), Paired(t), NEW k \in Nat, BeginsClean(t, k),
         NEW v, Shows(v, t, k)
  PROVE  MessageHistoryRepair(v).repairs = 0
<1>1. PICK n \in Nat : n = Len(t)
  OBVIOUS
<1>2. PICK l : l = Len(v)
  OBVIOUS
<1>3. PICK T : v \in Seq(T)
  BY DEF Shows
<1>4. l \in Nat
  BY <1>2, <1>3
<1>5. \A i \in k + 1 .. n : i \in 1 .. n
  OBVIOUS
<1>6. IsHistory(v, Nat) /\ \A j \in 1 .. l : Sanitize(v[j]) = v[j]
  <2>1. ASSUME NEW j \in 1 .. l
        PROVE  v[j].calls \in Seq(Nat) /\ v[j].results \in Seq(Nat) /\ Sanitize(v[j]) = v[j]
    <3>1. CASE IsQuiet(v[j])
      <4>1. v[j].shape # "openai"
        BY <3>1 DEF IsQuiet
      <4>2. v[j].calls \in Seq(Nat) /\ v[j].results \in Seq(Nat)
        BY <3>1 DEF IsQuiet
      <4> QED BY <4>1, <4>2, Zenon DEF Sanitize
    <3>2. CASE ~IsQuiet(v[j])
      <4>1. PICK i \in k + 1 .. n : SamePairs(v[j], t[i])
        BY <1>1, <1>2, <3>2 DEF Shows
      <4>2. t[i] \in Said
        BY <1>1, <1>5
      <4>3. t[i].shape # "openai" /\ t[i].calls \in Seq(Nat) /\ t[i].results \in Seq(Nat)
        BY <4>2, FieldsOfSaid
      <4> QED BY <4>1, <4>3, Zenon DEF SamePairs, Sanitize
    <3> QED BY <3>1, <3>2
  <2> QED BY <1>2, <1>3, <2>1, Zenon DEF IsHistory
<1>7. ASSUME NEW x, Calls(v, x) PROVE Results(v, x)
  <2>1. PICK j \in 1 .. l : Contains(v[j].calls, x)
    BY <1>2, <1>7 DEF Calls
  <2>2. ~IsQuiet(v[j])
    BY <2>1, ContainsNone DEF IsQuiet
  <2>3. PICK i \in k + 1 .. n : SamePairs(v[j], t[i])
    BY <1>1, <1>2, <2>2 DEF Shows
  <2>4. Contains(t[i].calls, x) /\ i \in 1 .. n
    BY <1>5, <2>1, <2>3 DEF SamePairs
  <2>5. i + 1 \in 1 .. n /\ Contains(t[i + 1].results, x)
    BY <1>1, <2>4, AnsweredNext
  <2>6. PICK h : h = i + 1
    OBVIOUS
  <2>7. h \in k + 1 .. n
    BY <2>5, <2>6
  <2>8. PICK g \in 1 .. l : SamePairs(v[g], t[h])
    BY <1>1, <1>2, <2>7 DEF Shows
  <2>9. Contains(v[g].results, x)
    BY <2>5, <2>6, <2>8 DEF SamePairs
  <2> QED BY <1>2, <2>9 DEF Results
<1>8. ASSUME NEW x, Results(v, x) PROVE Calls(v, x)
  <2>1. PICK j \in 1 .. l : Contains(v[j].results, x)
    BY <1>2, <1>8 DEF Results
  <2>2. ~IsQuiet(v[j])
    BY <2>1, ContainsNone DEF IsQuiet
  <2>3. PICK i \in k + 1 .. n : SamePairs(v[j], t[i])
    BY <1>1, <1>2, <2>2 DEF Shows
  <2>4. Contains(t[i].results, x) /\ i \in 1 .. n
    BY <1>5, <2>1, <2>3 DEF SamePairs
  <2>5. i > 1 /\ Contains(t[i - 1].calls, x)
    BY <1>1, <2>4 DEF Adjacent, AnswersThePrevious
  <2>6. PICK h : h = i - 1
    OBVIOUS
  <2>7. i # k + 1
    <3> SUFFICES ASSUME i = k + 1 PROVE FALSE
      OBVIOUS
    <3>1. k # 0 /\ k < n
      BY <2>4, <2>5
    <3>2. t[k + 1].results = <<>>
      BY <1>1, <3>1 DEF BeginsClean
    <3> QED BY <2>4, <3>2, ContainsNone
  <2>8. h \in k + 1 .. n
    BY <2>6, <2>7
  <2>9. PICK g \in 1 .. l : SamePairs(v[g], t[h])
    BY <1>1, <1>2, <2>8 DEF Shows
  <2>10. Contains(v[g].calls, x)
    BY <2>5, <2>6, <2>9 DEF SamePairs
  <2> QED BY <1>2, <2>10 DEF Calls
<1>9. AllPaired(v)
  BY <1>7, <1>8, Zenon DEF AllPaired
<1> QED BY <1>2, <1>6, <1>9, PairedNeedsNone

(* Compression changes no pair.                                            *)
LEMMA RenderedPairs ==
  ASSUME NEW t, NEW i
  PROVE  SamePairs(Rendered(t, i), t[i])
<1>1. ASSUME NEW m PROVE SamePairs(CompressBody(m), m) /\ SamePairs(m, m)
  BY DEF SamePairs, CompressBody, Carry
<1> QED BY <1>1, Zenon DEF Rendered, Shrunk

LEMMA CompressedShows ==
  ASSUME NEW t \in Seq(Said), NEW n, n = Len(t), NEW c, IsRendered(c, t, n)
  PROVE  Shows(c, t, 0)
<1>1. n \in Nat
  OBVIOUS
<1>2. PICK l : l = Len(c)
  OBVIOUS
<1>3. l \in n .. n + 2 /\ \A i \in n + 1 .. l : IsQuiet(c[i])
  BY <1>2 DEF IsRendered, IsNote
<1>4. \A i \in 1 .. n : SamePairs(c[i], t[i])
  BY RenderedPairs, Zenon DEF IsRendered
<1>5. \A j \in 1 .. l : IsQuiet(c[j]) \/ \E i \in 0 + 1 .. n : SamePairs(c[j], t[i])
  <2> SUFFICES ASSUME NEW j \in 1 .. l, ~IsQuiet(c[j]) PROVE \E i \in 0 + 1 .. n : SamePairs(c[j], t[i])
    OBVIOUS
  <2>1. j \in 1 .. n /\ j \in 0 + 1 .. n
    BY <1>1, <1>3
  <2> QED BY <1>4, <2>1
<1>6. \A i \in 0 + 1 .. n : \E j \in 1 .. l : SamePairs(c[j], t[i])
  <2> SUFFICES ASSUME NEW i \in 0 + 1 .. n PROVE \E j \in 1 .. l : SamePairs(c[j], t[i])
    OBVIOUS
  <2>1. i \in 1 .. n /\ i \in 1 .. l
    BY <1>1, <1>3
  <2> QED BY <1>4, <2>1
<1>7. \E T : c \in Seq(T)
  BY DEF IsRendered
<1> QED BY <1>2, <1>5, <1>6, <1>7, Zenon DEF Shows

(* The place of a message behind the summary, back in the transcript.      *)
LEMMA ShiftBack ==
  ASSUME NEW a \in Int, NEW b \in Int, NEW c, c = a - b + 2
  PROVE  b + c - 2 = a
OBVIOUS

LEMMA FoldedShows ==
  ASSUME NEW t \in Seq(Said), NEW n, n = Len(t), NEW c, IsRendered(c, t, n),
         NEW r, IsReduced(r, c, Len(c)),
         NEW s, s = r.split
  PROVE  s \in Nat /\ Shows(r.messages, t, s) /\ BeginsClean(t, s)
<1>1. n \in Nat
  OBVIOUS
<1>2. PICK l : l = Len(c)
  OBVIOUS
<1>3. l \in n .. n + 2 /\ l \in Nat /\ \A i \in n + 1 .. l : IsQuiet(c[i])
  BY <1>1, <1>2 DEF IsRendered, IsNote
<1>4. \A i \in 1 .. n : SamePairs(c[i], t[i])
  BY RenderedPairs, Zenon DEF IsRendered
<1>5. PICK v : v = r.messages
  OBVIOUS
<1>6. PICK k : /\ k = l - s + 2
               /\ \E U : v \in Seq(U)
               /\ Len(v) \in k .. k + 1
               /\ \A j \in 3 .. k : v[j] = c[s + j - 2]
               /\ \A j \in k + 1 .. Len(v) : IsQuiet(v[j])
  BY <1>2, <1>5 DEF IsReduced, IsNote
<1>7. s \in MinFold .. l - 1 /\ c[s + 1].results = <<>> /\ IsQuiet(v[1]) /\ IsQuiet(v[2])
  BY <1>2, <1>5 DEF IsReduced, IsCleanUserTurn
<1>8. s \in Nat /\ s < l
  BY <1>3, <1>7, Parameters
<1>9. k \in Nat /\ k >= 3 /\ k = l - s + 2 /\ l \in Nat /\ n <= l
  BY <1>1, <1>3, <1>6, <1>8, SMTT(40)
<1>10. PICK m : m = Len(v)
  OBVIOUS
<1>11. m \in Nat /\ m >= k
  BY <1>6, <1>9, <1>10
<1>12. \A j \in 1 .. m : IsQuiet(v[j]) \/ \E i \in s + 1 .. n : SamePairs(v[j], t[i])
  <2> SUFFICES ASSUME NEW j \in 1 .. m, ~IsQuiet(v[j])
               PROVE  \E i \in s + 1 .. n : SamePairs(v[j], t[i])
    OBVIOUS
  <2>1. j \in 3 .. k
    <3>1. j # 1 /\ j # 2
      BY <1>7
    <3>2. ~(j \in k + 1 .. m)
      BY <1>6, <1>10
    <3> QED BY <1>9, <1>11, <3>1, <3>2
  <2>2. PICK i : i = s + j - 2
    OBVIOUS
  <2>3. v[j] = c[i]
    BY <1>6, <2>1, <2>2
  <2>4. i \in s + 1 .. l
    BY <1>8, <1>9, <2>1, <2>2, SMTT(40)
  <2>5. ~(i \in n + 1 .. l)
    BY <1>3, <2>3
  <2>6. i \in s + 1 .. n /\ i \in 1 .. n
    BY <1>1, <1>3, <1>8, <2>4, <2>5
  <2> QED BY <1>4, <2>3, <2>6
<1>13. \A i \in s + 1 .. n : \E j \in 1 .. m : SamePairs(v[j], t[i])
  <2> SUFFICES ASSUME NEW i \in s + 1 .. n PROVE \E j \in 1 .. m : SamePairs(v[j], t[i])
    OBVIOUS
  <2>1. PICK j : j = i - s + 2
    OBVIOUS
  <2>2. j \in 3 .. k /\ j \in 1 .. m /\ s + j - 2 = i /\ i \in 1 .. n
    <3>1. k <= m /\ m \in Nat /\ l \in Nat /\ n <= l /\ k \in Nat /\ k = l - s + 2 /\ s \in Nat
      BY <1>8, <1>9, <1>11
    <3>2. i \in Int /\ s + 1 <= i /\ i <= n
      BY <1>1, <3>1
    <3>3. j \in Int /\ j >= 3
      BY <1>1, <2>1, <3>1, <3>2, SMTT(40)
    <3>4. i <= l
      BY <1>1, <3>1, <3>2
    <3>5. i - s + 2 <= l - s + 2
      BY <3>1, <3>2, <3>4, SMTT(40)
    <3>6. j <= k
      BY <2>1, <3>1, <3>5
    <3>7. s + j - 2 = i
      <4>1. i \in Int /\ s \in Int
        BY <3>1, <3>2
      <4> QED BY <2>1, <4>1, ShiftBack
    <3> QED BY <1>1, <3>1, <3>2, <3>3, <3>6, <3>7, SMTT(40)
  <2>3. v[j] = c[i]
    BY <1>6, <2>2
  <2> QED BY <1>4, <2>2, <2>3
<1>14. Shows(v, t, s)
  BY <1>6, <1>10, <1>12, <1>13, Zenon DEF Shows
<1>15. BeginsClean(t, s)
  <2> SUFFICES ASSUME s < n PROVE t[s + 1].results = <<>>
    BY DEF BeginsClean
  <2>1. s + 1 \in 1 .. n
    BY <1>1, <1>8
  <2>2. SamePairs(c[s + 1], t[s + 1])
    BY <1>4, <2>1
  <2> QED BY <1>7, <2>2 DEF SamePairs
<1> QED BY <1>5, <1>8, <1>14, <1>15

(* Reduction never breaks a tool pair: when every call of the transcript   *)
(* has its result, and the client keeps the two together, the reduced view *)
(* passes the structural check of the gateway, wherever the fold's         *)
(* boundary lies, reused or fresh, and whatever compression and notes did  *)
(* (fold.go, IsCleanUserTurn; gateway.go, GWShouldApply).                  *)
THEOREM PairsSurvived == Spec => PairsSurvive
<1>1. ASSUME ReduceInv, Adjacent(transcript), [Next]_vars, turn' # turn,
             verdict' = "structural_violation"
      PROVE  ~Paired(transcript)
  <2> SUFFICES ASSUME Paired(transcript) PROVE FALSE
    OBVIOUS
  <2>1. Request
    BY <1>1 DEF Next, Grow, Rewrite, Rewind, LoseState, vars
  <2>2. PICK gain \in BOOLEAN, unfavourable \in BOOLEAN, hint \in BOOLEAN :
          Answers(gain, unfavourable, hint)
    BY <2>1, RequestAnswers
  <2>3. PICK r : r = Reduce(transcript, stored, gain, unfavourable, hint)
    OBVIOUS
  <2>4. PICK c : c = Compressed(transcript).messages
    OBVIOUS
  <2>5. PICK t : t = transcript
    OBVIOUS
  <2>6. /\ levers \in Levers /\ t \in Seq(Said) /\ t # <<>> /\ IsFreeze(stored)
        /\ Adjacent(t) /\ Paired(t)
    BY <1>1, <2>1, <2>5 DEF ReduceInv, ReduceTypes, Request
  <2>7. PICK shrunk : verdict' = GWShouldApply(r, shrunk)
    BY <2>2, <2>3, Zenon DEF Answers
  <2>8. MessageHistoryRepair(r.messages).repairs # 0
    BY <1>1, <2>7 DEF GWShouldApply
  <2>9. IsReduction(r, c, Len(c), stored, gain, unfavourable)
    BY <2>3, <2>4, <2>5, <2>6, ReducedIs
  <2>10. IsRendered(c, t, Len(t))
    BY <2>4, <2>5, <2>6, CompressedOf
  <2>11. \E k \in Nat : Shows(r.messages, t, k) /\ BeginsClean(t, k)
    <3>1. CASE r.messages = c
      BY <2>6, <2>10, <3>1, CompressedShows DEF BeginsClean
    <3>2. CASE IsReduced(r, c, Len(c))
      BY <2>6, <2>10, <3>2, FoldedShows
    <3> QED BY <2>9, <3>1, <3>2, Zenon DEF IsReduction
  <2> QED BY <2>6, <2>8, <2>11, ShownIsPaired
<1>2. ReduceInv /\ Adjacent(transcript) /\ [Next]_vars =>
        [turn' # turn /\ verdict' = "structural_violation" => ~Paired(transcript)]_vars
  BY <1>1
<1> QED BY ReduceInvariant, ResultsNextToCalls, <1>2, PTL DEF Spec, PairsSurvive
=============================================================================
