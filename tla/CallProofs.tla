----------------------------- MODULE CallProofs -----------------------------
(***************************************************************************)
(* Stage calls end to end (ModuleCall), for any number of callers, calls,  *)
(* slots and handlers.                                                     *)
(*                                                                         *)
(* The argument is about two lines of frames that queue up behind each     *)
(* other.  The frames of one call travel through its caller's ring and the *)
(* module's inbox in the order they were sent: its fragments, then its     *)
(* cancel (LineInv).  So the module assembles them in order (PartialInv,   *)
(* WholeInv) and starts at most one handler for a call (FreshInv).  One    *)
(* handler gives one response, whose parts come back in order through the  *)
(* outbox and the caller's ring (AnswerInv).                               *)
(***************************************************************************)
EXTENDS ModuleCall, RuntimeProofs

(* A handler sees its whole request as long as every long request can have *)
(* an assembly.  (With less room TLC shows a request that lost its head.)  *)
RoomForLong == Cardinality(Long) <= MaxInFlight

-----------------------------------------------------------------------------
(* Queues of frames, each with a call and a rank; rank 0 is no rank.       *)

Pos == Nat \ {0}

Ranked(q, rank) ==
    \A i, j \in 1 .. Len(q) :
        i < j /\ q[i].corr = q[j].corr /\ rank[q[i]] > 0 /\ rank[q[j]] > 0
            => rank[q[i]] < rank[q[j]]

Has(q, rank, c, k) == \E i \in 1 .. Len(q) : q[i].corr = c /\ rank[q[i]] = k

-----------------------------------------------------------------------------
(* The frames of requests: fragments are ranked by position, the cancel    *)
(* comes after them.                                                       *)
Sent(c) == {Request(c, k) : k \in 1 .. Fragments(c)} \cup {CancelFrame(c)}
Line == UNION {Sent(c) : c \in Calls}
Place == [f \in Line |-> IF f.type = "request" THEN f.chunk ELSE 3]

OnLine(c, k) == Has(inbox, Place, c, k) \/ Has(outbound[c[1]], Place, c, k)

(* How far the caller of c has come: the rank it may have sent up to.      *)
Reached(c) ==
    IF c[2] > correlation[c[1]] THEN 0
    ELSE IF c[2] = correlation[c[1]] /\ callPc[c[1]] = "sending" THEN sentChunks[c[1]]
    ELSE IF c[2] = correlation[c[1]] /\ callPc[c[1]] = "awaiting" THEN Fragments(c)
    ELSE 3

Answer == [corr : Calls, status : Statuses \cup {"CapabilityAbsent"},
           part : Pos, more : BOOLEAN]
Part == [r \in Answer |-> IF r.status = "OK" THEN r.part ELSE 0]

CallTypes ==
    /\ CallTypeOK
    /\ inbox \in Seq(Line)
    /\ outbound \in [Callers -> Seq(Line)]
    /\ \A a \in Callers : \A i \in 1 .. Len(outbound[a]) : outbound[a][i].corr[1] = a
    /\ outbox \in Seq(Answer)
    /\ inbound \in [Callers -> Seq(Answer)]
    /\ \A i \in 1 .. Len(reply) : reply[i].part > 0
    /\ body \in [Callers -> Seq(Calls \X Nat)]
    /\ \A a \in Callers : callPc[a] # "idle" => correlation[a] > 0
    /\ \A a \in Callers : callPc[a] = "sending" => sentChunks[a] < Fragments(Current(a))

(* Frames of one call are in order, and none is there that was not sent.   *)
LineInv ==
    /\ Ranked(inbox, Place)
    /\ \A a \in Callers : Ranked(outbound[a], Place)
    /\ \A c \in Calls : \A j, k \in 1 .. 3 :
         Has(inbox, Place, c, j) /\ Has(outbound[c[1]], Place, c, k) => j < k
    /\ \A c \in Calls : \A k \in 1 .. 3 : OnLine(c, k) => k <= Reached(c)
    /\ \A c \in Calls : outcome[c] = "sendFailed" => Reached(c) = 3

(* No handler has run for a call while a fragment of it is to come.        *)
FreshInv ==
    \A c \in Calls :
        Reached(c) < Fragments(c) \/ (\E k \in 1 .. Fragments(c) : OnLine(c, k))
            => started[c] = 0

(* A partial request is the first fragment of a long one.  Its second is   *)
(* to come, unless it could not be sent.                                   *)
SecondComes(c) == Reached(c) = 1 \/ OnLine(c, 2) \/ outcome[c] = "sendFailed"
PartialInv ==
    pc # "exited" =>
        \A c \in Calls :
            /\ c \in DOMAIN assemblies =>
                 c \in Long /\ assemblies[c] = <<1>> /\ ~OnLine(c, 1) /\ Reached(c) >= 1
            /\ c \in DOMAIN assemblies \/ (c \in Long /\ OnLine(c, 1)) => SecondComes(c)

(* The head of a long request whose second fragment is to come has been    *)
(* sent and not lost.                                                      *)
HeadInv ==
    pc # "exited" =>
        \A c \in Long : Reached(c) = 1 \/ OnLine(c, 2) => OnLine(c, 1) \/ c \in DOMAIN assemblies

WholeInv == HeadInv /\ HandlerSeesWholeRequest

-----------------------------------------------------------------------------
(* The parts of responses, from the reply being sent to the caller's ring. *)

Replying(c, p) == \E i \in 1 .. Len(reply) :
    reply[i].corr = c /\ reply[i].status = "OK" /\ reply[i].part = p
Due(c, p) ==
    \/ Has(inbound[c[1]], Part, c, p)
    \/ Has(outbox, Part, c, p)
    \/ Replying(c, p)

OrderInv ==
    /\ Ranked(outbox, Part)
    /\ \A a \in Callers : Ranked(inbound[a], Part)
    /\ \A c \in Calls : \A p, q \in Pos :
         /\ Has(inbound[c[1]], Part, c, p) /\ Has(outbox, Part, c, q) => p < q
         /\ (Has(inbound[c[1]], Part, c, p) \/ Has(outbox, Part, c, p)) /\ Replying(c, q)
              => p < q

(* A call whose handler has not been replied has no response yet.          *)
UnansweredInv ==
    \A c \in Calls :
        started[c] = 0 \/ c \in DOMAIN jobs =>
            /\ \A p \in Pos : ~Due(c, p)
            /\ c = Current(c[1]) => body[c[1]] = <<>>

(* What is to come continues what the caller has, without a gap.           *)
GapInv ==
    \A c \in Calls : c = Current(c[1]) /\ callPc[c[1]] = "awaiting" =>
        \A p \in Pos : Due(c, p) =>
            /\ p > Len(body[c[1]])
            /\ p > Len(body[c[1]]) + 1 => Due(c, p - 1)

AnswerInv == OrderInv /\ UnansweredInv /\ GapInv /\ ResponseIsOwnAndInOrder

CInv == RInv /\ CallTypes /\ LineInv /\ FreshInv /\ PartialInv /\ AnswerInv

-----------------------------------------------------------------------------
(* A ranked queue loses its oldest frame, the least of its call.           *)
LEMMA Taken ==
  ASSUME NEW S, NEW rank, \A f \in S : rank[f] \in Nat,
         NEW q \in Seq(S), q # <<>>, Ranked(q, rank)
  PROVE  /\ Tail(q) \in Seq(S) /\ Head(q) \in S /\ Ranked(Tail(q), rank)
         /\ rank[Head(q)] > 0 => Has(q, rank, Head(q).corr, rank[Head(q)])
         /\ \A k \in Pos : rank[Head(q)] > 0 /\ Has(q, rank, Head(q).corr, k) => k >= rank[Head(q)]
         /\ \A c : \A k \in Pos :
              Has(Tail(q), rank, c, k) <=>
                  Has(q, rank, c, k) /\ ~(c = Head(q).corr /\ k = rank[Head(q)])
<1> DEFINE t == Tail(q)
           h == Head(q)
<1>1. /\ t \in Seq(S) /\ h \in S /\ h = q[1] /\ Len(q) \in Nat /\ Len(q) >= 1
      /\ Len(t) = Len(q) - 1 /\ \A i \in 1 .. Len(t) : t[i] = q[i + 1]
  OBVIOUS
<1>2. \A i \in 1 .. Len(q) : rank[q[i]] \in Nat
  OBVIOUS
<1> HIDE DEF t, h
<1>3. Ranked(t, rank)
  <2> SUFFICES ASSUME NEW i \in 1 .. Len(t), NEW j \in 1 .. Len(t), i < j,
                      t[i].corr = t[j].corr, rank[t[i]] > 0, rank[t[j]] > 0
               PROVE  rank[t[i]] < rank[t[j]]
    BY DEF Ranked
  <2>1. i + 1 \in 1 .. Len(q) /\ j + 1 \in 1 .. Len(q) /\ i + 1 < j + 1
    BY <1>1
  <2> QED BY <1>1, <2>1 DEF Ranked
<1>4. rank[h] > 0 => Has(q, rank, h.corr, rank[h])
  BY <1>1 DEF Has
<1>5. ASSUME NEW i \in 2 .. Len(q), q[i].corr = h.corr, rank[h] > 0, rank[q[i]] > 0
      PROVE  rank[h] < rank[q[i]]
  <2>1. 1 \in 1 .. Len(q) /\ i \in 1 .. Len(q) /\ 1 < i
    BY <1>1
  <2> QED BY <1>1, <1>5, <2>1 DEF Ranked
<1>6. ASSUME NEW k \in Pos, rank[h] > 0, Has(q, rank, h.corr, k)
      PROVE  k >= rank[h]
  <2>1. PICK i \in 1 .. Len(q) : q[i].corr = h.corr /\ rank[q[i]] = k
    BY <1>6 DEF Has
  <2>2. i = 1 \/ i \in 2 .. Len(q)
    BY <1>1
  <2>3. CASE i = 1
    BY <1>1, <2>1, <2>3 DEF Pos
  <2>4. CASE i \in 2 .. Len(q)
    <3>1. rank[h] < rank[q[i]]
      BY <1>5, <1>6, <2>1, <2>4 DEF Pos
    <3> QED BY <1>1, <2>1, <3>1 DEF Pos
  <2> QED BY <2>2, <2>3, <2>4
<1>7. ASSUME NEW c, NEW k \in Pos
      PROVE  Has(t, rank, c, k) <=> Has(q, rank, c, k) /\ ~(c = h.corr /\ k = rank[h])
  <2>1. ASSUME Has(t, rank, c, k)
        PROVE  Has(q, rank, c, k) /\ ~(c = h.corr /\ k = rank[h])
    <3>1. PICK i \in 1 .. Len(t) : t[i].corr = c /\ rank[t[i]] = k
      BY <2>1 DEF Has
    <3>2. i + 1 \in 2 .. Len(q) /\ i + 1 \in 1 .. Len(q) /\ q[i + 1] = t[i]
      BY <1>1
    <3>3. Has(q, rank, c, k)
      BY <3>1, <3>2 DEF Has
    <3>4. ASSUME c = h.corr, k = rank[h] PROVE FALSE
      <4>1. rank[h] < rank[q[i + 1]]
        BY <1>5, <3>1, <3>2, <3>4 DEF Pos
      <4> QED BY <3>1, <3>2, <3>4, <4>1 DEF Pos
    <3> QED BY <3>3, <3>4
  <2>2. ASSUME Has(q, rank, c, k), ~(c = h.corr /\ k = rank[h])
        PROVE  Has(t, rank, c, k)
    <3>1. PICK i \in 1 .. Len(q) : q[i].corr = c /\ rank[q[i]] = k
      BY <2>2 DEF Has
    <3>2. i # 1
      BY <1>1, <2>2, <3>1
    <3>3. i - 1 \in 1 .. Len(t) /\ t[i - 1] = q[i]
      BY <1>1, <3>2
    <3> QED BY <3>1, <3>3 DEF Has
  <2> QED BY <2>1, <2>2
<1> QED BY <1>1, <1>3, <1>4, <1>6, <1>7 DEF t, h

(* A ranked queue gets a frame that comes after all of its call.           *)
LEMMA Added ==
  ASSUME NEW S, NEW rank, \A f \in S : rank[f] \in Nat,
         NEW q \in Seq(S), Ranked(q, rank), NEW f \in S,
         \A k \in Pos : rank[f] > 0 /\ Has(q, rank, f.corr, k) => k < rank[f]
  PROVE  /\ Append(q, f) \in Seq(S) /\ Ranked(Append(q, f), rank)
         /\ \A c : \A k \in Pos :
              Has(Append(q, f), rank, c, k) <=>
                  Has(q, rank, c, k) \/ (c = f.corr /\ k = rank[f])
<1> DEFINE t == Append(q, f)
<1>1. /\ t \in Seq(S) /\ Len(q) \in Nat /\ Len(t) = Len(q) + 1 /\ t[Len(q) + 1] = f
      /\ \A i \in 1 .. Len(q) : t[i] = q[i]
  OBVIOUS
<1>2. \A i \in 1 .. Len(q) : rank[q[i]] \in Nat
  OBVIOUS
<1> HIDE DEF t
<1>3. \A i \in 1 .. Len(t) : i \in 1 .. Len(q) \/ i = Len(q) + 1
  BY <1>1
<1>4. Ranked(t, rank)
  <2> SUFFICES ASSUME NEW i \in 1 .. Len(t), NEW j \in 1 .. Len(t), i < j,
                      t[i].corr = t[j].corr, rank[t[i]] > 0, rank[t[j]] > 0
               PROVE  rank[t[i]] < rank[t[j]]
    BY DEF Ranked
  <2>1. i \in 1 .. Len(q)
    BY <1>1, <1>3
  <2>2. CASE j \in 1 .. Len(q)
    BY <1>1, <2>1, <2>2 DEF Ranked
  <2>3. CASE j = Len(q) + 1
    <3>1. q[i].corr = f.corr /\ rank[q[i]] > 0 /\ rank[f] > 0
      BY <1>1, <2>1, <2>3
    <3>2. Has(q, rank, f.corr, rank[q[i]]) /\ rank[q[i]] \in Pos
      BY <1>2, <2>1, <3>1 DEF Has, Pos
    <3> QED BY <1>1, <2>1, <2>3, <3>1, <3>2
  <2> QED BY <1>3, <2>2, <2>3
<1>5. ASSUME NEW c, NEW k \in Pos
      PROVE  Has(t, rank, c, k) <=> Has(q, rank, c, k) \/ (c = f.corr /\ k = rank[f])
  <2>1. ASSUME Has(t, rank, c, k) PROVE Has(q, rank, c, k) \/ (c = f.corr /\ k = rank[f])
    BY <1>1, <1>3, <2>1 DEF Has
  <2>2. ASSUME Has(q, rank, c, k) PROVE Has(t, rank, c, k)
    <3>1. PICK i \in 1 .. Len(q) : q[i].corr = c /\ rank[q[i]] = k
      BY <2>2 DEF Has
    <3>2. i \in 1 .. Len(t) /\ t[i] = q[i]
      BY <1>1
    <3> QED BY <3>1, <3>2 DEF Has
  <2>3. ASSUME c = f.corr, k = rank[f] PROVE Has(t, rank, c, k)
    <3>1. Len(q) + 1 \in 1 .. Len(t)
      BY <1>1
    <3> QED BY <1>1, <2>3, <3>1 DEF Has
  <2> QED BY <2>1, <2>2, <2>3
<1> QED BY <1>1, <1>4, <1>5 DEF t

-----------------------------------------------------------------------------
(* The frames of a request and how far its caller has come.                *)

LEMMA CallShape ==
  /\ CallsPer \in Nat
  /\ \A c \in Calls : /\ c[1] \in Callers /\ c[2] \in 1 .. CallsPer /\ c = <<c[1], c[2]>>
                      /\ Fragments(c) \in {1, 2} /\ (c \in Long <=> Fragments(c) = 2)
BY CallAssumption DEF Fragments

LEMMA PlacesOf == \A c \in Calls : \A k \in 1 .. Fragments(c) : k \in 1 .. 3 /\ k # 3
<1> SUFFICES ASSUME NEW c \in Calls, NEW k \in 1 .. Fragments(c) PROVE k \in 1 .. 3 /\ k # 3
  OBVIOUS
<1>1. Fragments(c) \in {1, 2}
  BY CallShape
<1> QED BY <1>1

LEMMA RequestIs ==
  ASSUME NEW c \in Calls, NEW k \in 1 .. Fragments(c)
  PROVE  /\ Request(c, k) \in Line /\ Request(c, k).corr = c /\ Place[Request(c, k)] = k
         /\ Request(c, k).type = "request"
<1>1. Request(c, k) \in Line
  BY DEF Line, Sent
<1> QED BY <1>1 DEF Place, Request

LEMMA CancelIs ==
  ASSUME NEW c \in Calls
  PROVE  CancelFrame(c) \in Line /\ CancelFrame(c).corr = c /\ Place[CancelFrame(c)] = 3
<1>1. CancelFrame(c) \in Line
  BY DEF Line, Sent
<1> QED BY <1>1 DEF Place, CancelFrame

LEMMA LineFrame ==
  ASSUME NEW f \in Line
  PROVE  /\ f \in Frames /\ f.corr \in Calls /\ Place[f] \in 1 .. 3
         /\ f.type \in {"request", "cancel"}
         /\ f.type = "cancel" => Place[f] = 3
         /\ f.type = "request" =>
              /\ f.valid /\ f.chunk = Place[f] /\ Place[f] \in 1 .. Fragments(f.corr)
              /\ f.more <=> Place[f] < Fragments(f.corr)
<1>1. PICK c \in Calls : f \in Sent(c)
  BY DEF Line
<1>2. CASE f = CancelFrame(c)
  <2>1. f \in Control /\ f.type = "cancel" /\ f.corr = c
    BY <1>2 DEF CancelFrame, Control
  <2> QED BY <1>2, <2>1, CancelIs DEF Frames
<1>3. ASSUME NEW k \in 1 .. Fragments(c), f = Request(c, k)
      PROVE  /\ f \in Frames /\ f.corr \in Calls /\ Place[f] \in 1 .. 3
             /\ f.type = "request" /\ f.valid /\ f.chunk = Place[f]
             /\ Place[f] \in 1 .. Fragments(f.corr)
             /\ f.more <=> Place[f] < Fragments(f.corr)
  <2>1. k \in Nat /\ k \in 1 .. 3
    BY CallShape
  <2>2. /\ f.type = "request" /\ f.corr = c /\ f.chunk = k /\ f.valid
        /\ f.more = (k < Fragments(c)) /\ f \in Fragment
    BY <1>3, <2>1 DEF Request, Fragment
  <2> QED BY <1>3, <2>1, <2>2, RequestIs, ZenonT(60) DEF Frames
<1>4. f = CancelFrame(c) \/ \E k \in 1 .. Fragments(c) : f = Request(c, k)
  BY <1>1 DEF Sent
<1>5. CASE \E k \in 1 .. Fragments(c) : f = Request(c, k)
  BY <1>3, <1>5
<1>6. f = CancelFrame(c) => f.type = "cancel"
  BY DEF CancelFrame
<1> QED BY <1>2, <1>4, <1>5, <1>6, CancelIs

LEMMA PlaceNat == \A f \in Line : Place[f] \in Nat /\ Place[f] > 0
BY LineFrame

LEMMA PartNat ==
  ASSUME NEW r \in Answer
  PROVE  /\ Part[r] \in Nat /\ r.corr \in Calls
         /\ r.status = "OK" => Part[r] = r.part /\ r.part \in Pos
         /\ r.status # "OK" => Part[r] = 0
BY DEF Part, Answer, Pos

LEMMA ReachedIs ==
  ASSUME CallTypes, NEW c \in Calls
  PROVE  /\ Reached(c) \in 0 .. 3
         /\ c = Current(c[1]) /\ callPc[c[1]] = "sending" =>
              Reached(c) = sentChunks[c[1]] /\ Reached(c) < Fragments(c)
         /\ c = Current(c[1]) /\ callPc[c[1]] = "awaiting" => Reached(c) = Fragments(c)
         /\ c = Current(c[1]) /\ callPc[c[1]] = "idle" => Reached(c) = 3
<1>1. c[1] \in Callers /\ c[2] \in Nat /\ Fragments(c) \in {1, 2}
  BY CallShape
<1>2. correlation[c[1]] \in Nat /\ sentChunks[c[1]] \in 0 .. 2
  BY <1>1, CallShape DEF CallTypes, CallTypeOK
<1>3. c = Current(c[1]) => c[2] = correlation[c[1]]
  BY DEF Current
<1>4. c = Current(c[1]) /\ callPc[c[1]] = "sending" => sentChunks[c[1]] < Fragments(c)
  BY <1>1 DEF CallTypes
<1> QED BY <1>1, <1>2, <1>3, <1>4 DEF Reached

LEMMA CurrentIs ==
  ASSUME CallTypes, NEW a \in Callers, callPc[a] # "idle"
  PROVE  Current(a) \in Calls /\ Current(a)[1] = a /\ correlation[a] \in 1 .. CallsPer
<1>1. correlation[a] \in 1 .. CallsPer
  BY CallShape DEF CallTypes, CallTypeOK
<1> QED BY <1>1, CallAssumption DEF Current

(* A step of caller a in its current call moves no other call.             *)
LEMMA OnlyCurrentMoves ==
  ASSUME CallTypes, NEW a \in Callers, callPc[a] # "idle", correlation' = correlation,
         \A v \in Callers : v # a => callPc'[v] = callPc[v] /\ sentChunks'[v] = sentChunks[v]
  PROVE  \A c \in Calls : c # Current(a) => Reached(c)' = Reached(c)
<1> SUFFICES ASSUME NEW c \in Calls, c # Current(a) PROVE Reached(c)' = Reached(c)
  OBVIOUS
<1>1. c[1] \in Callers /\ c = <<c[1], c[2]>>
  BY CallShape
<1>2. CASE c[1] # a
  BY <1>1, <1>2 DEF Reached
<1>3. CASE c[1] = a
  <2>1. c[2] # correlation[a]
    BY <1>1, <1>3 DEF Current
  <2> QED BY <1>3, <2>1 DEF Reached
<1> QED BY <1>2, <1>3

-----------------------------------------------------------------------------
(* What happens to the frames of requests.                                 *)

SameCalls == UNCHANGED <<callPc, correlation, sentChunks, outcome>>

LEMMA SameReached ==
  ASSUME SameCalls
  PROVE  \A c \in Calls : Reached(c)' = Reached(c) /\ outcome'[c] = outcome[c]
BY DEF SameCalls, Reached, Fragments

(* The loop takes the oldest frame of its inbox.                           *)
LEMMA LineTaken ==
  ASSUME CallTypes, LineInv, inbox # <<>>, inbox' = Tail(inbox), outbound' = outbound, SameCalls
  PROVE  /\ LineInv' /\ inbox' \in Seq(Line) /\ Head(inbox) \in Line
         /\ OnLine(Head(inbox).corr, Place[Head(inbox)])
         /\ \A k \in 1 .. 3 : OnLine(Head(inbox).corr, k) => k >= Place[Head(inbox)]
         /\ \A c \in Calls : \A k \in 1 .. 3 :
              OnLine(c, k)' <=> OnLine(c, k) /\ ~(c = Head(inbox).corr /\ k = Place[Head(inbox)])
<1> SUFFICES ASSUME NEW h, h = Head(inbox)
             PROVE  /\ LineInv' /\ inbox' \in Seq(Line) /\ h \in Line
                    /\ OnLine(h.corr, Place[h])
                    /\ \A k \in 1 .. 3 : OnLine(h.corr, k) => k >= Place[h]
                    /\ \A c \in Calls : \A k \in 1 .. 3 :
                         OnLine(c, k)' <=> OnLine(c, k) /\ ~(c = h.corr /\ k = Place[h])
  OBVIOUS
<1>1. inbox \in Seq(Line) /\ Ranked(inbox, Place) /\ \A f \in Line : Place[f] \in Nat
  BY PlaceNat DEF CallTypes, LineInv
<1>2. /\ Tail(inbox) \in Seq(Line) /\ h \in Line /\ Ranked(Tail(inbox), Place)
      /\ Place[h] > 0 => Has(inbox, Place, h.corr, Place[h])
      /\ \A k \in Pos : Place[h] > 0 /\ Has(inbox, Place, h.corr, k) => k >= Place[h]
      /\ \A c : \A k \in Pos : Has(Tail(inbox), Place, c, k) <=>
            Has(inbox, Place, c, k) /\ ~(c = h.corr /\ k = Place[h])
  BY <1>1, Taken
<1>3. h.corr \in Calls /\ Place[h] \in 1 .. 3
  BY <1>2, LineFrame
<1>4. \A k \in 1 .. 3 : k \in Pos
  BY DEF Pos
<1>5. Has(inbox, Place, h.corr, Place[h])
  BY <1>2, <1>3
<1>6. ASSUME NEW k \in 1 .. 3, Has(outbound[h.corr[1]], Place, h.corr, k) PROVE Place[h] < k
  BY <1>3, <1>5, <1>6 DEF LineInv
<1>7. ASSUME NEW c \in Calls, NEW k \in 1 .. 3
      PROVE  /\ Has(inbox, Place, c, k)' <=> Has(inbox, Place, c, k) /\ ~(c = h.corr /\ k = Place[h])
             /\ Has(outbound[c[1]], Place, c, k)' <=> Has(outbound[c[1]], Place, c, k)
             /\ OnLine(c, k)' <=> OnLine(c, k) /\ ~(c = h.corr /\ k = Place[h])
  <2>1. Has(inbox', Place, c, k) <=> Has(inbox, Place, c, k) /\ ~(c = h.corr /\ k = Place[h])
    BY <1>2, <1>4
  <2>2. Has(outbound'[c[1]], Place, c, k) <=> Has(outbound[c[1]], Place, c, k)
    OBVIOUS
  <2>3. Has(outbound[c[1]], Place, c, k) => ~(c = h.corr /\ k = Place[h])
    BY <1>3, <1>6
  <2> QED BY <2>1, <2>2, <2>3 DEF OnLine
<1>8. \A k \in 1 .. 3 : OnLine(h.corr, k) => k >= Place[h]
  BY <1>2, <1>3, <1>4, <1>6 DEF OnLine
<1>9. LineInv'
  <2>1. Ranked(inbox', Place) /\ \A a \in Callers : Ranked(outbound'[a], Place)
    BY <1>2 DEF LineInv
  <2>2. \A c \in Calls : \A j, k \in 1 .. 3 :
          Has(inbox, Place, c, j)' /\ Has(outbound[c[1]], Place, c, k)' => j < k
    BY <1>7 DEF LineInv
  <2>3. \A c \in Calls : \A k \in 1 .. 3 : OnLine(c, k)' => k <= Reached(c)'
    BY <1>7, SameReached DEF LineInv
  <2>4. \A c \in Calls : outcome'[c] = "sendFailed" => Reached(c)' = 3
    BY SameReached DEF LineInv
  <2> QED BY <2>1, <2>2, <2>3, <2>4 DEF LineInv
<1> QED BY <1>2, <1>5, <1>7, <1>8, <1>9 DEF OnLine

(* The oldest frame of a caller's ring.                                    *)
Popped(a) == outbound[a] # <<>> /\ outbound' = [outbound EXCEPT ![a] = Tail(@)]

LEMMA RingTaken ==
  ASSUME CallTypes, LineInv, NEW a \in Callers, Popped(a), NEW h, h = Head(outbound[a])
  PROVE  /\ outbound' \in [Callers -> Seq(Line)] /\ h \in Line /\ h.corr \in Calls /\ h.corr[1] = a
         /\ \A v \in Callers : Ranked(outbound'[v], Place)
         /\ \A v \in Callers : \A i \in 1 .. Len(outbound'[v]) : outbound'[v][i].corr[1] = v
         /\ Has(outbound[a], Place, h.corr, Place[h])
         /\ \A k \in 1 .. 3 : Has(outbound[a], Place, h.corr, k) => k >= Place[h]
         /\ \A c \in Calls : \A k \in 1 .. 3 : Has(outbound[c[1]], Place, c, k)' <=>
              Has(outbound[c[1]], Place, c, k) /\ ~(c = h.corr /\ k = Place[h])
<1> SUFFICES ASSUME NEW q, q = outbound[a]
             PROVE  /\ outbound' \in [Callers -> Seq(Line)] /\ h \in Line /\ h.corr \in Calls /\ h.corr[1] = a
                    /\ \A v \in Callers : Ranked(outbound'[v], Place)
                    /\ \A v \in Callers : \A i \in 1 .. Len(outbound'[v]) : outbound'[v][i].corr[1] = v
                    /\ Has(q, Place, h.corr, Place[h])
                    /\ \A k \in 1 .. 3 : Has(q, Place, h.corr, k) => k >= Place[h]
                    /\ \A c \in Calls : \A k \in 1 .. 3 : Has(outbound[c[1]], Place, c, k)' <=>
                         Has(outbound[c[1]], Place, c, k) /\ ~(c = h.corr /\ k = Place[h])
  OBVIOUS
<1> USE DEF Popped
<1>1. q \in Seq(Line) /\ q # <<>> /\ Ranked(q, Place) /\ \A f \in Line : Place[f] \in Nat
  BY PlaceNat DEF CallTypes, LineInv
<1>2. /\ Tail(q) \in Seq(Line) /\ Head(q) \in Line /\ Ranked(Tail(q), Place)
      /\ Place[Head(q)] > 0 => Has(q, Place, Head(q).corr, Place[Head(q)])
      /\ \A k \in Pos : Place[Head(q)] > 0 /\ Has(q, Place, Head(q).corr, k) => k >= Place[Head(q)]
      /\ \A c : \A k \in Pos : Has(Tail(q), Place, c, k) <=>
            Has(q, Place, c, k) /\ ~(c = Head(q).corr /\ k = Place[Head(q)])
  BY <1>1, Taken
<1>3. h = Head(q) /\ h.corr \in Calls /\ Place[h] \in 1 .. 3
  BY <1>2, LineFrame
<1>4. \A k \in 1 .. 3 : k \in Pos
  BY DEF Pos
<1>5. h.corr[1] = a
  <2>1. Len(q) \in Nat /\ Len(q) >= 1 /\ h = q[1]
    BY <1>1, <1>3
  <2>2. 1 \in 1 .. Len(q)
    BY <2>1
  <2> QED BY <2>1, <2>2 DEF CallTypes
<1>6. /\ outbound' \in [Callers -> Seq(Line)] /\ outbound'[a] = Tail(q)
      /\ \A v \in Callers : v # a => outbound'[v] = outbound[v]
  BY <1>2 DEF CallTypes
<1>7. \A v \in Callers : Ranked(outbound'[v], Place)
  BY <1>2, <1>6 DEF LineInv
<1>8. \A v \in Callers : \A i \in 1 .. Len(outbound'[v]) : outbound'[v][i].corr[1] = v
  <2> SUFFICES ASSUME NEW v \in Callers, NEW i \in 1 .. Len(outbound'[v])
               PROVE  outbound'[v][i].corr[1] = v
    OBVIOUS
  <2>1. CASE v # a
    BY <1>6, <2>1 DEF CallTypes
  <2>2. CASE v = a
    <3>1. i + 1 \in 1 .. Len(q) /\ Tail(q)[i] = q[i + 1]
      BY <1>1, <1>6, <2>2
    <3> QED BY <1>6, <2>2, <3>1 DEF CallTypes
  <2> QED BY <2>1, <2>2
<1>9. ASSUME NEW c \in Calls, NEW k \in 1 .. 3
      PROVE  Has(outbound'[c[1]], Place, c, k) <=>
               Has(outbound[c[1]], Place, c, k) /\ ~(c = h.corr /\ k = Place[h])
  <2>1. c[1] \in Callers
    BY CallShape
  <2>2. CASE c[1] = a
    BY <1>2, <1>3, <1>4, <1>6, <2>2
  <2>3. CASE c[1] # a
    BY <1>5, <1>6, <2>1, <2>3
  <2> QED BY <2>2, <2>3
<1>10. /\ Has(q, Place, h.corr, Place[h])
       /\ \A k \in 1 .. 3 : Has(q, Place, h.corr, k) => k >= Place[h]
  BY <1>2, <1>3, <1>4
<1> QED BY <1>2, <1>3, <1>5, <1>6, <1>7, <1>8, <1>9, <1>10

(* The host throws a frame away.                                           *)
LEMMA LineDropped ==
  ASSUME CallTypes, LineInv, NEW a \in Callers, Popped(a), inbox' = inbox, SameCalls
  PROVE  LineInv' /\ \A c \in Calls : \A k \in 1 .. 3 : OnLine(c, k)' => OnLine(c, k)
<1>1. PICK h : h = Head(outbound[a])
  OBVIOUS
<1>2. /\ \A v \in Callers : Ranked(outbound'[v], Place)
      /\ \A c \in Calls : \A k \in 1 .. 3 : Has(outbound[c[1]], Place, c, k)' <=>
              Has(outbound[c[1]], Place, c, k) /\ ~(c = h.corr /\ k = Place[h])
  BY <1>1, RingTaken
<1>3. ASSUME NEW c \in Calls, NEW k \in 1 .. 3 PROVE Has(inbox, Place, c, k)' <=> Has(inbox, Place, c, k)
  <2>1. Has(inbox', Place, c, k) <=> Has(inbox, Place, c, k)
    OBVIOUS
  <2> QED BY <2>1
<1>4. \A c \in Calls : \A k \in 1 .. 3 : OnLine(c, k)' => OnLine(c, k)
  BY <1>2, <1>3 DEF OnLine
<1>5. LineInv'
  <2>1. Ranked(inbox', Place)
    BY DEF LineInv
  <2>2. \A c \in Calls : \A j, k \in 1 .. 3 :
          Has(inbox, Place, c, j)' /\ Has(outbound[c[1]], Place, c, k)' => j < k
    BY <1>2, <1>3 DEF LineInv
  <2>3. \A c \in Calls : \A k \in 1 .. 3 : OnLine(c, k)' => k <= Reached(c)'
    BY <1>4, SameReached DEF LineInv
  <2>4. \A c \in Calls : outcome'[c] = "sendFailed" => Reached(c)' = 3
    BY SameReached DEF LineInv
  <2> QED BY <1>2, <2>1, <2>2, <2>3, <2>4 DEF LineInv
<1> QED BY <1>4, <1>5

(* The host moves a frame from a caller's ring to the module's.            *)
LEMMA LineForwarded ==
  ASSUME CallTypes, LineInv, NEW a \in Callers, Popped(a),
         inbox' = Append(inbox, Head(outbound[a])), SameCalls
  PROVE  /\ LineInv' /\ inbox' \in Seq(Line)
         /\ \A c \in Calls : \A k \in 1 .. 3 : OnLine(c, k)' <=> OnLine(c, k)
<1>1. PICK h : h = Head(outbound[a])
  OBVIOUS
<1>2. /\ h \in Line /\ h.corr \in Calls /\ h.corr[1] = a
      /\ \A v \in Callers : Ranked(outbound'[v], Place)
      /\ Has(outbound[a], Place, h.corr, Place[h])
      /\ \A k \in 1 .. 3 : Has(outbound[a], Place, h.corr, k) => k >= Place[h]
      /\ \A c \in Calls : \A k \in 1 .. 3 : Has(outbound[c[1]], Place, c, k)' <=>
              Has(outbound[c[1]], Place, c, k) /\ ~(c = h.corr /\ k = Place[h])
  BY <1>1, RingTaken
<1>3. Place[h] \in 1 .. 3
  BY <1>2, LineFrame
<1>4. \A k \in 1 .. 3 : Has(inbox, Place, h.corr, k) => k < Place[h]
  BY <1>2, <1>3 DEF LineInv
<1>5. inbox \in Seq(Line) /\ Ranked(inbox, Place) /\ \A f \in Line : Place[f] \in Nat
  BY PlaceNat DEF CallTypes, LineInv
<1>6. ASSUME NEW k \in Pos, Has(inbox, Place, h.corr, k) PROVE k \in 1 .. 3
  <2>1. PICK i \in 1 .. Len(inbox) : Place[inbox[i]] = k
    BY <1>6 DEF Has
  <2>2. inbox[i] \in Line
    BY <1>5
  <2> QED BY <2>1, <2>2, LineFrame
<1>7. \A k \in Pos : Place[h] > 0 /\ Has(inbox, Place, h.corr, k) => k < Place[h]
  BY <1>4, <1>6
<1>8. /\ Append(inbox, h) \in Seq(Line) /\ Ranked(Append(inbox, h), Place)
      /\ \A c : \A k \in Pos : Has(Append(inbox, h), Place, c, k) <=>
              Has(inbox, Place, c, k) \/ (c = h.corr /\ k = Place[h])
  BY <1>2, <1>5, <1>7, Added
<1>9. \A k \in 1 .. 3 : k \in Pos
  BY DEF Pos
<1>10. inbox' = Append(inbox, h)
  BY <1>1
<1>11. ASSUME NEW c \in Calls, NEW k \in 1 .. 3
       PROVE  Has(inbox, Place, c, k)' <=> Has(inbox, Place, c, k) \/ (c = h.corr /\ k = Place[h])
  <2>1. Has(inbox', Place, c, k) <=> Has(inbox, Place, c, k) \/ (c = h.corr /\ k = Place[h])
    BY <1>8, <1>9, <1>10
  <2> QED BY <2>1
<1>12. \A c \in Calls : \A k \in 1 .. 3 : OnLine(c, k)' <=> OnLine(c, k)
  BY <1>2, <1>11 DEF OnLine
<1>13. LineInv'
  <2>1. Ranked(inbox', Place)
    BY <1>8, <1>10
  <2>2. ASSUME NEW c \in Calls, NEW j \in 1 .. 3, NEW k \in 1 .. 3,
               Has(inbox, Place, c, j)', Has(outbound[c[1]], Place, c, k)'
        PROVE  j < k
    <3>1. Has(outbound[c[1]], Place, c, k) /\ ~(c = h.corr /\ k = Place[h])
      BY <1>2, <2>2
    <3>2. CASE Has(inbox, Place, c, j)
      BY <3>1, <3>2 DEF LineInv
    <3>3. CASE c = h.corr /\ j = Place[h]
      BY <1>2, <1>3, <3>1, <3>3
    <3> QED BY <1>11, <2>2, <3>2, <3>3
  <2>3. \A c \in Calls : \A k \in 1 .. 3 : OnLine(c, k)' => k <= Reached(c)'
    BY <1>12, SameReached DEF LineInv
  <2>4. \A c \in Calls : outcome'[c] = "sendFailed" => Reached(c)' = 3
    BY SameReached DEF LineInv
  <2>5. \A c \in Calls : \A j, k \in 1 .. 3 :
          Has(inbox, Place, c, j)' /\ Has(outbound[c[1]], Place, c, k)' => j < k
    BY <2>2
  <2> QED BY <1>2, <2>1, <2>3, <2>4, <2>5 DEF LineInv
<1> QED BY <1>8, <1>10, <1>12, <1>13

(* The caller publishes its next frame.                                    *)
Published(a, f) == outbound' = [outbound EXCEPT ![a] = Append(@, f)]

LEMMA LineExtended ==
  ASSUME CallTypes, LineInv, NEW a \in Callers, callPc[a] # "idle", NEW f \in Line,
         f.corr = Current(a), Reached(Current(a)) < Place[f],
         inbox' = inbox, Published(a, f)
  PROVE  /\ outbound' \in [Callers -> Seq(Line)]
         /\ \A v \in Callers : \A i \in 1 .. Len(outbound'[v]) : outbound'[v][i].corr[1] = v
         /\ \A v \in Callers : Ranked(outbound'[v], Place)
         /\ \A c \in Calls : \A j, k \in 1 .. 3 :
              Has(inbox, Place, c, j)' /\ Has(outbound[c[1]], Place, c, k)' => j < k
         /\ \A c \in Calls : \A k \in 1 .. 3 :
              OnLine(c, k)' <=> OnLine(c, k) \/ (c = f.corr /\ k = Place[f])
<1> SUFFICES ASSUME NEW q, q = outbound[a]
             PROVE  /\ outbound' \in [Callers -> Seq(Line)]
                    /\ \A v \in Callers : \A i \in 1 .. Len(outbound'[v]) : outbound'[v][i].corr[1] = v
                    /\ \A v \in Callers : Ranked(outbound'[v], Place)
                    /\ \A c \in Calls : \A j, k \in 1 .. 3 :
                         Has(inbox, Place, c, j)' /\ Has(outbound[c[1]], Place, c, k)' => j < k
                    /\ \A c \in Calls : \A k \in 1 .. 3 :
                         OnLine(c, k)' <=> OnLine(c, k) \/ (c = f.corr /\ k = Place[f])
  OBVIOUS
<1> USE DEF Published
<1>1. f.corr \in Calls /\ f.corr[1] = a /\ Place[f] \in 1 .. 3 /\ Reached(f.corr) \in 0 .. 3
  BY CurrentIs, LineFrame, ReachedIs
<1>2. \A k \in 1 .. 3 : OnLine(f.corr, k) => k < Place[f]
  BY <1>1 DEF LineInv
<1>3. q \in Seq(Line) /\ Ranked(q, Place) /\ \A g \in Line : Place[g] \in Nat
  BY PlaceNat DEF CallTypes, LineInv
<1>4. ASSUME NEW k \in Pos, Has(q, Place, f.corr, k) PROVE k \in 1 .. 3
  <2>1. PICK i \in 1 .. Len(q) : Place[q[i]] = k
    BY <1>4 DEF Has
  <2>2. q[i] \in Line
    BY <1>3
  <2> QED BY <2>1, <2>2, LineFrame
<1>5. \A k \in Pos : Place[f] > 0 /\ Has(q, Place, f.corr, k) => k < Place[f]
  BY <1>1, <1>2, <1>4 DEF OnLine
<1>6. /\ Append(q, f) \in Seq(Line) /\ Ranked(Append(q, f), Place)
      /\ \A c : \A k \in Pos : Has(Append(q, f), Place, c, k) <=>
              Has(q, Place, c, k) \/ (c = f.corr /\ k = Place[f])
  BY <1>3, <1>5, Added
<1>7. /\ outbound' \in [Callers -> Seq(Line)] /\ outbound'[a] = Append(q, f)
      /\ \A v \in Callers : v # a => outbound'[v] = outbound[v]
  BY <1>6 DEF CallTypes
<1>8. \A v \in Callers : Ranked(outbound'[v], Place)
  BY <1>6, <1>7 DEF LineInv
<1>9. \A v \in Callers : \A i \in 1 .. Len(outbound'[v]) : outbound'[v][i].corr[1] = v
  <2> SUFFICES ASSUME NEW v \in Callers, NEW i \in 1 .. Len(outbound'[v])
               PROVE  outbound'[v][i].corr[1] = v
    OBVIOUS
  <2>1. CASE v # a
    BY <1>7, <2>1 DEF CallTypes
  <2>2. CASE v = a
    <3>1. \/ i \in 1 .. Len(q) /\ Append(q, f)[i] = q[i]
          \/ Append(q, f)[i] = f
      BY <1>3, <1>7, <2>2
    <3> QED BY <1>1, <1>7, <2>2, <3>1 DEF CallTypes
  <2> QED BY <2>1, <2>2
<1>10. \A k \in 1 .. 3 : k \in Pos
  BY DEF Pos
<1>11. ASSUME NEW c \in Calls, NEW k \in 1 .. 3
       PROVE  /\ Has(outbound[c[1]], Place, c, k)' <=>
                   Has(outbound[c[1]], Place, c, k) \/ (c = f.corr /\ k = Place[f])
              /\ Has(inbox, Place, c, k)' <=> Has(inbox, Place, c, k)
  <2>1. c[1] \in Callers
    BY CallShape
  <2>2. Has(outbound'[c[1]], Place, c, k) <=>
          Has(outbound[c[1]], Place, c, k) \/ (c = f.corr /\ k = Place[f])
    <3>1. CASE c[1] = a
      BY <1>6, <1>7, <1>10, <3>1
    <3>2. CASE c[1] # a
      BY <1>1, <1>7, <2>1, <3>2
    <3> QED BY <3>1, <3>2
  <2>3. Has(inbox', Place, c, k) <=> Has(inbox, Place, c, k)
    OBVIOUS
  <2> QED BY <2>2, <2>3
<1>12. \A c \in Calls : \A j, k \in 1 .. 3 :
         Has(inbox, Place, c, j)' /\ Has(outbound[c[1]], Place, c, k)' => j < k
  BY <1>2, <1>11 DEF LineInv, OnLine
<1>13. \A c \in Calls : \A k \in 1 .. 3 :
         OnLine(c, k)' <=> OnLine(c, k) \/ (c = f.corr /\ k = Place[f])
  BY <1>11 DEF OnLine
<1> QED BY <1>7, <1>8, <1>9, <1>12, <1>13

-----------------------------------------------------------------------------
(* What happens to the parts of responses.                                 *)

(* The caller takes the oldest event of its ring.                          *)
Polled(a) == inbound[a] # <<>> /\ inbound' = [inbound EXCEPT ![a] = Tail(@)]

LEMMA AnswerTaken ==
  ASSUME CallTypes, OrderInv, NEW a \in Callers, Polled(a), UNCHANGED <<outbox, reply>>,
         NEW h, h = Head(inbound[a])
  PROVE  /\ OrderInv' /\ inbound' \in [Callers -> Seq(Answer)] /\ h \in Answer
         /\ \A c \in Calls : \A p \in Pos : Due(c, p)' => Due(c, p)
         /\ \A c \in Calls : \A p \in Pos :
              Due(c, p) /\ ~(c[1] = a /\ c = h.corr /\ p = Part[h]) => Due(c, p)'
         /\ h.corr[1] = a /\ Part[h] > 0 =>
              /\ Due(h.corr, Part[h])
              /\ \A p \in Pos : Due(h.corr, p) => p >= Part[h]
              /\ ~Due(h.corr, Part[h])'
<1> SUFFICES ASSUME NEW q, q = inbound[a]
             PROVE  /\ OrderInv' /\ inbound' \in [Callers -> Seq(Answer)] /\ h \in Answer
                    /\ \A c \in Calls : \A p \in Pos : Due(c, p)' => Due(c, p)
                    /\ \A c \in Calls : \A p \in Pos :
                         Due(c, p) /\ ~(c[1] = a /\ c = h.corr /\ p = Part[h]) => Due(c, p)'
                    /\ h.corr[1] = a /\ Part[h] > 0 =>
                         /\ Due(h.corr, Part[h])
                         /\ \A p \in Pos : Due(h.corr, p) => p >= Part[h]
                         /\ ~Due(h.corr, Part[h])'
  OBVIOUS
<1> USE DEF Polled
<1>1. q \in Seq(Answer) /\ q # <<>> /\ Ranked(q, Part) /\ \A f \in Answer : Part[f] \in Nat
  BY PartNat DEF CallTypes, OrderInv
<1>2. /\ Tail(q) \in Seq(Answer) /\ Head(q) \in Answer /\ Ranked(Tail(q), Part)
      /\ Part[Head(q)] > 0 => Has(q, Part, Head(q).corr, Part[Head(q)])
      /\ \A k \in Pos : Part[Head(q)] > 0 /\ Has(q, Part, Head(q).corr, k) => k >= Part[Head(q)]
      /\ \A c : \A k \in Pos : Has(Tail(q), Part, c, k) <=>
            Has(q, Part, c, k) /\ ~(c = Head(q).corr /\ k = Part[Head(q)])
  BY <1>1, Taken
<1>3. h = Head(q) /\ h.corr \in Calls /\ Part[h] \in Nat
  BY <1>2, PartNat
<1>4. /\ inbound' \in [Callers -> Seq(Answer)] /\ inbound'[a] = Tail(q)
      /\ \A v \in Callers : v # a => inbound'[v] = inbound[v]
  BY <1>2 DEF CallTypes
<1>5. \A v \in Callers : Ranked(inbound'[v], Part)
  BY <1>2, <1>4 DEF OrderInv
<1>6. ASSUME NEW c \in Calls, NEW p \in Pos
      PROVE  /\ Has(inbound[c[1]], Part, c, p)' <=>
                  Has(inbound[c[1]], Part, c, p) /\ ~(c[1] = a /\ c = h.corr /\ p = Part[h])
             /\ Has(outbox, Part, c, p)' <=> Has(outbox, Part, c, p)
             /\ Replying(c, p)' <=> Replying(c, p)
  <2>1. c[1] \in Callers
    BY CallShape
  <2>2. Has(inbound'[c[1]], Part, c, p) <=>
          Has(inbound[c[1]], Part, c, p) /\ ~(c[1] = a /\ c = h.corr /\ p = Part[h])
    <3>1. CASE c[1] = a
      BY <1>2, <1>3, <1>4, <3>1
    <3>2. CASE c[1] # a
      BY <1>4, <2>1, <3>2
    <3> QED BY <3>1, <3>2
  <2>3. Has(outbox', Part, c, p) <=> Has(outbox, Part, c, p)
    OBVIOUS
  <2>4. Replying(c, p)' <=> Replying(c, p)
    BY DEF Replying
  <2> QED BY <2>2, <2>3, <2>4
<1>7. OrderInv'
  <2>1. Ranked(outbox', Part)
    BY DEF OrderInv
  <2>2. \A c \in Calls : \A p, r \in Pos :
         /\ Has(inbound[c[1]], Part, c, p)' /\ Has(outbox, Part, c, r)' => p < r
         /\ (Has(inbound[c[1]], Part, c, p)' \/ Has(outbox, Part, c, p)') /\ Replying(c, r)'
              => p < r
    BY <1>6 DEF OrderInv
  <2> QED BY <1>5, <2>1, <2>2 DEF OrderInv
<1>8. /\ \A c \in Calls : \A p \in Pos : Due(c, p)' => Due(c, p)
      /\ \A c \in Calls : \A p \in Pos :
           Due(c, p) /\ ~(c[1] = a /\ c = h.corr /\ p = Part[h]) => Due(c, p)'
  BY <1>6 DEF Due
<1>9. ASSUME h.corr[1] = a, Part[h] > 0
      PROVE  /\ Due(h.corr, Part[h])
             /\ \A p \in Pos : Due(h.corr, p) => p >= Part[h]
             /\ ~Due(h.corr, Part[h])'
  <2>1. Part[h] \in Pos
    BY <1>3, <1>9 DEF Pos
  <2>2. Has(inbound[h.corr[1]], Part, h.corr, Part[h])
    BY <1>2, <1>3, <1>9
  <2>3. \A p \in Pos : /\ Has(outbox, Part, h.corr, p) => Part[h] < p
                       /\ Replying(h.corr, p) => Part[h] < p
    BY <1>3, <2>1, <2>2 DEF OrderInv
  <2>4. \A p \in Pos : Has(inbound[h.corr[1]], Part, h.corr, p) => p >= Part[h]
    BY <1>2, <1>3, <1>9
  <2>5. \A p \in Pos : Due(h.corr, p) => p >= Part[h]
    BY <1>3, <2>3, <2>4 DEF Due, Pos
  <2>6. ~Due(h.corr, Part[h])'
    <3>1. ~Has(inbound[h.corr[1]], Part, h.corr, Part[h])'
      BY <1>3, <1>6, <1>9, <2>1
    <3>2. ~Has(outbox, Part, h.corr, Part[h])' /\ ~Replying(h.corr, Part[h])'
      <4>1. ~Has(outbox, Part, h.corr, Part[h]) /\ ~Replying(h.corr, Part[h])
        BY <1>3, <2>1, <2>3
      <4> QED BY <1>3, <1>6, <2>1, <4>1
    <3> QED BY <3>1, <3>2 DEF Due
  <2> QED BY <2>2, <2>5, <2>6 DEF Due
<1> QED BY <1>2, <1>3, <1>4, <1>7, <1>8, <1>9

(* An answer enters a caller's ring.                                       *)
Delivered(r) == inbound' = [inbound EXCEPT ![r.corr[1]] = Append(@, r)]

LEMMA AnswerDelivered ==
  ASSUME CallTypes, OrderInv, NEW r \in Answer, Delivered(r),
         \A p \in Pos : Part[r] > 0 /\ Has(inbound[r.corr[1]], Part, r.corr, p) => p < Part[r]
  PROVE  /\ inbound' \in [Callers -> Seq(Answer)]
         /\ \A v \in Callers : Ranked(inbound'[v], Part)
         /\ \A c \in Calls : \A p \in Pos : Has(inbound[c[1]], Part, c, p)' <=>
              Has(inbound[c[1]], Part, c, p) \/ (c = r.corr /\ p = Part[r])
<1> SUFFICES ASSUME NEW a, a = r.corr[1], NEW q, q = inbound[a]
             PROVE  /\ inbound' \in [Callers -> Seq(Answer)]
                    /\ \A v \in Callers : Ranked(inbound'[v], Part)
                    /\ \A c \in Calls : \A p \in Pos : Has(inbound[c[1]], Part, c, p)' <=>
                         Has(inbound[c[1]], Part, c, p) \/ (c = r.corr /\ p = Part[r])
  OBVIOUS
<1> USE DEF Delivered
<1>0. r.corr \in Calls /\ a \in Callers
  BY PartNat, CallShape
<1>1. q \in Seq(Answer) /\ Ranked(q, Part) /\ \A f \in Answer : Part[f] \in Nat
  BY <1>0, PartNat DEF CallTypes, OrderInv
<1>2. \A p \in Pos : Part[r] > 0 /\ Has(q, Part, r.corr, p) => p < Part[r]
  OBVIOUS
<1>3. /\ Append(q, r) \in Seq(Answer) /\ Ranked(Append(q, r), Part)
      /\ \A c : \A p \in Pos : Has(Append(q, r), Part, c, p) <=>
              Has(q, Part, c, p) \/ (c = r.corr /\ p = Part[r])
  BY <1>1, <1>2, Added
<1>4. /\ inbound' \in [Callers -> Seq(Answer)] /\ inbound'[a] = Append(q, r)
      /\ \A v \in Callers : v # a => inbound'[v] = inbound[v]
  BY <1>0, <1>3 DEF CallTypes
<1>5. \A v \in Callers : Ranked(inbound'[v], Part)
  BY <1>3, <1>4 DEF OrderInv
<1>6. ASSUME NEW c \in Calls, NEW p \in Pos
      PROVE  Has(inbound'[c[1]], Part, c, p) <=>
               Has(inbound[c[1]], Part, c, p) \/ (c = r.corr /\ p = Part[r])
  <2>1. c[1] \in Callers
    BY CallShape
  <2>2. CASE c[1] = a
    BY <1>3, <1>4, <2>2
  <2>3. CASE c[1] # a
    BY <1>4, <2>1, <2>3
  <2> QED BY <2>2, <2>3
<1> QED BY <1>4, <1>5, <1>6

(* The host answers for a module that is gone: no part of a response.      *)
LEMMA AnswerRefused ==
  ASSUME CallTypes, OrderInv, NEW r \in Answer, r.status # "OK", Delivered(r),
         UNCHANGED <<outbox, reply>>
  PROVE  /\ OrderInv' /\ inbound' \in [Callers -> Seq(Answer)]
         /\ \A c \in Calls : \A p \in Pos : Due(c, p)' <=> Due(c, p)
<1>1. Part[r] = 0
  BY PartNat
<1>2. /\ inbound' \in [Callers -> Seq(Answer)]
      /\ \A v \in Callers : Ranked(inbound'[v], Part)
      /\ \A c \in Calls : \A p \in Pos : Has(inbound[c[1]], Part, c, p)' <=>
              Has(inbound[c[1]], Part, c, p) \/ (c = r.corr /\ p = Part[r])
  <2>1. \A p \in Pos : Part[r] > 0 /\ Has(inbound[r.corr[1]], Part, r.corr, p) => p < Part[r]
    BY <1>1
  <2> QED BY <2>1, AnswerDelivered
<1>3. ASSUME NEW c \in Calls, NEW p \in Pos
      PROVE  /\ Has(inbound[c[1]], Part, c, p)' <=> Has(inbound[c[1]], Part, c, p)
             /\ Has(outbox, Part, c, p)' <=> Has(outbox, Part, c, p)
             /\ Replying(c, p)' <=> Replying(c, p)
  <2>1. Has(outbox', Part, c, p) <=> Has(outbox, Part, c, p)
    OBVIOUS
  <2>2. Replying(c, p)' <=> Replying(c, p)
    BY DEF Replying
  <2>3. p # Part[r]
    BY <1>1 DEF Pos
  <2> QED BY <1>2, <2>1, <2>2, <2>3
<1>4. OrderInv'
  <2>1. Ranked(outbox', Part)
    BY DEF OrderInv
  <2>2. \A c \in Calls : \A p, q \in Pos :
         /\ Has(inbound[c[1]], Part, c, p)' /\ Has(outbox, Part, c, q)' => p < q
         /\ (Has(inbound[c[1]], Part, c, p)' \/ Has(outbox, Part, c, p)') /\ Replying(c, q)'
              => p < q
    BY <1>3 DEF OrderInv
  <2> QED BY <1>2, <2>1, <2>2 DEF OrderInv
<1> QED BY <1>2, <1>3, <1>4 DEF Due

(* The host moves an answer from the module's ring to its caller's.        *)
LEMMA AnswerReturned ==
  ASSUME CallTypes, OrderInv, outbox # <<>>, outbox' = Tail(outbox), Delivered(Head(outbox)),
         reply' = reply
  PROVE  /\ OrderInv' /\ inbound' \in [Callers -> Seq(Answer)] /\ outbox' \in Seq(Answer)
         /\ \A c \in Calls : \A p \in Pos : Due(c, p)' <=> Due(c, p)
<1>1. PICK r : r = Head(outbox)
  OBVIOUS
<1>2. outbox \in Seq(Answer) /\ Ranked(outbox, Part) /\ \A f \in Answer : Part[f] \in Nat
  BY PartNat DEF CallTypes, OrderInv
<1>3. /\ Tail(outbox) \in Seq(Answer) /\ r \in Answer /\ Ranked(Tail(outbox), Part)
      /\ Part[r] > 0 => Has(outbox, Part, r.corr, Part[r])
      /\ \A k \in Pos : Part[r] > 0 /\ Has(outbox, Part, r.corr, k) => k >= Part[r]
      /\ \A c : \A k \in Pos : Has(Tail(outbox), Part, c, k) <=>
            Has(outbox, Part, c, k) /\ ~(c = r.corr /\ k = Part[r])
  BY <1>1, <1>2, Taken
<1>4. r.corr \in Calls /\ Part[r] \in Nat /\ Delivered(r)
  BY <1>1, <1>3, PartNat
<1>5. \A p \in Pos : Part[r] > 0 /\ Has(inbound[r.corr[1]], Part, r.corr, p) => p < Part[r]
  BY <1>3, <1>4 DEF OrderInv, Pos
<1>6. /\ inbound' \in [Callers -> Seq(Answer)]
      /\ \A v \in Callers : Ranked(inbound'[v], Part)
      /\ \A c \in Calls : \A p \in Pos : Has(inbound[c[1]], Part, c, p)' <=>
              Has(inbound[c[1]], Part, c, p) \/ (c = r.corr /\ p = Part[r])
  BY <1>3, <1>4, <1>5, AnswerDelivered
<1>7. ASSUME NEW c \in Calls, NEW p \in Pos
      PROVE  /\ Has(outbox, Part, c, p)' <=> Has(outbox, Part, c, p) /\ ~(c = r.corr /\ p = Part[r])
             /\ Replying(c, p)' <=> Replying(c, p)
  <2>1. Has(outbox', Part, c, p) <=> Has(outbox, Part, c, p) /\ ~(c = r.corr /\ p = Part[r])
    BY <1>3
  <2>2. Replying(c, p)' <=> Replying(c, p)
    BY DEF Replying
  <2> QED BY <2>1, <2>2
<1>8. \A p \in Pos : p = Part[r] => Has(outbox, Part, r.corr, p)
  BY <1>3, <1>4 DEF Pos
<1>9. \A c \in Calls : \A p \in Pos : Due(c, p)' <=> Due(c, p)
  BY <1>6, <1>7, <1>8 DEF Due
<1>10. OrderInv'
  <2>1. Ranked(outbox', Part)
    BY <1>3
  <2>2. ASSUME NEW c \in Calls, NEW p \in Pos, NEW q \in Pos
        PROVE  /\ Has(inbound[c[1]], Part, c, p)' /\ Has(outbox, Part, c, q)' => p < q
               /\ (Has(inbound[c[1]], Part, c, p)' \/ Has(outbox, Part, c, p)') /\ Replying(c, q)'
                    => p < q
    <3>1. /\ Has(inbound[c[1]], Part, c, p) /\ Has(outbox, Part, c, q) => p < q
          /\ (Has(inbound[c[1]], Part, c, p) \/ Has(outbox, Part, c, p)) /\ Replying(c, q) => p < q
      BY DEF OrderInv
    <3>2. ASSUME c = r.corr, p = Part[r], Has(outbox, Part, c, q), q # Part[r] PROVE p < q
      BY <1>3, <1>4, <3>2 DEF Pos
    <3> QED BY <1>6, <1>7, <1>8, <3>1, <3>2
  <2> QED BY <1>6, <2>1, <2>2 DEF OrderInv
<1> QED BY <1>3, <1>6, <1>9, <1>10

(* replyModuleResult publishes a part of the response and turns to the     *)
(* next one, unless it was the last.                                       *)
LEMMA AnswerSent ==
  ASSUME CallTypes, OrderInv, NEW r \in Reply, Len(reply) = 1, reply[1] = r,
         NEW f \in Answer, f.corr = r.corr, f.status = r.status, f.part = r.part,
         NEW last \in BOOLEAN,
         outbox' = Append(outbox, f),
         reply' = IF last THEN <<>> ELSE <<[r EXCEPT !.part = @ + 1]>>,
         inbound' = inbound
  PROVE  /\ OrderInv' /\ outbox' \in Seq(Answer)
         /\ \A i \in 1 .. Len(reply') : reply'[i].part > 0
         /\ \A c \in Calls : \A p \in Pos : Due(c, p)' <=>
              \/ Due(c, p)
              \/ c = r.corr /\ r.status = "OK" /\ ~last /\ p = r.part + 1
<1>1. r.part \in Pos /\ r.part + 1 \in Pos /\ r.corr \in Calls
  BY DEF Answer, Pos, Reply
<1>2. \A c : \A p \in Pos :
        Replying(c, p) <=> c = r.corr /\ r.status = "OK" /\ p = r.part
  BY DEF Replying
<1>3. \A c : \A p \in Pos :
        Replying(c, p)' <=> c = r.corr /\ r.status = "OK" /\ ~last /\ p = r.part + 1
  <2>1. CASE last
    BY <2>1 DEF Replying
  <2>2. CASE ~last
    <3>1. /\ Len(reply') = 1 /\ reply'[1].corr = r.corr /\ reply'[1].status = r.status
          /\ reply'[1].part = r.part + 1
      BY <2>2 DEF Reply
    <3> QED BY <2>2, <3>1 DEF Replying
  <2> QED BY <2>1, <2>2
<1>4. outbox \in Seq(Answer) /\ Ranked(outbox, Part) /\ \A g \in Answer : Part[g] \in Nat
  BY PartNat DEF CallTypes, OrderInv
<1>5. IF r.status = "OK" THEN Part[f] = r.part ELSE Part[f] = 0
  BY PartNat
<1>6. \A p \in Pos : Part[f] > 0 /\ Has(outbox, Part, f.corr, p) => p < Part[f]
  <2> SUFFICES ASSUME NEW p \in Pos, Part[f] > 0, Has(outbox, Part, f.corr, p)
               PROVE  p < Part[f]
    OBVIOUS
  <2>1. r.status = "OK" /\ Part[f] = r.part
    BY <1>5
  <2> QED BY <1>1, <1>2, <2>1 DEF OrderInv
<1>7. /\ Append(outbox, f) \in Seq(Answer) /\ Ranked(Append(outbox, f), Part)
      /\ \A c : \A p \in Pos : Has(Append(outbox, f), Part, c, p) <=>
              Has(outbox, Part, c, p) \/ (c = f.corr /\ p = Part[f])
  BY <1>4, <1>6, Added
<1>8. ASSUME NEW c \in Calls, NEW p \in Pos
      PROVE  /\ Has(inbound[c[1]], Part, c, p)' <=> Has(inbound[c[1]], Part, c, p)
             /\ Has(outbox, Part, c, p)' <=>
                  Has(outbox, Part, c, p) \/ (c = r.corr /\ r.status = "OK" /\ p = r.part)
  <2>1. Has(inbound'[c[1]], Part, c, p) <=> Has(inbound[c[1]], Part, c, p)
    OBVIOUS
  <2>2. Has(outbox', Part, c, p) <=>
          Has(outbox, Part, c, p) \/ (c = r.corr /\ r.status = "OK" /\ p = r.part)
    BY <1>5, <1>7 DEF Pos
  <2> QED BY <2>1, <2>2
<1>9. OrderInv'
  <2>1. Ranked(outbox', Part) /\ \A a \in Callers : Ranked(inbound'[a], Part)
    BY <1>7 DEF OrderInv
  <2>2. ASSUME NEW c \in Calls, NEW p \in Pos, NEW q \in Pos
        PROVE  /\ Has(inbound[c[1]], Part, c, p)' /\ Has(outbox, Part, c, q)' => p < q
               /\ (Has(inbound[c[1]], Part, c, p)' \/ Has(outbox, Part, c, p)') /\ Replying(c, q)'
                    => p < q
    <3>1. /\ Has(inbound[c[1]], Part, c, p) /\ Has(outbox, Part, c, q) => p < q
          /\ (Has(inbound[c[1]], Part, c, p) \/ Has(outbox, Part, c, p)) /\ Replying(c, q) => p < q
          /\ (Has(inbound[c[1]], Part, c, p) \/ Has(outbox, Part, c, p)) /\ Replying(c, r.part)
               => p < r.part
      BY <1>1 DEF OrderInv
    <3>2. Has(inbound[c[1]], Part, c, p)' /\ Has(outbox, Part, c, q)' => p < q
      BY <1>1, <1>2, <1>8, <3>1
    <3>3. ASSUME Replying(c, q)', Has(inbound[c[1]], Part, c, p) \/ Has(outbox, Part, c, p)
                 \/ p = r.part
          PROVE  p < q
      <4>1. c = r.corr /\ r.status = "OK" /\ q = r.part + 1
        BY <1>3, <3>3
      <4>2. Replying(c, r.part)
        BY <1>1, <1>2, <4>1
      <4> QED BY <1>1, <3>1, <3>3, <4>1, <4>2 DEF Pos
    <3> QED BY <1>8, <3>2, <3>3
  <2> QED BY <2>1, <2>2 DEF OrderInv
<1>10. \A i \in 1 .. Len(reply') : reply'[i].part > 0
  BY <1>1 DEF Reply, Pos
<1>11. ASSUME NEW c \in Calls, NEW p \in Pos
       PROVE  Due(c, p)' <=>
              \/ Due(c, p)
              \/ c = r.corr /\ r.status = "OK" /\ ~last /\ p = r.part + 1
  BY <1>1, <1>2, <1>3, <1>8 DEF Due
<1> QED BY <1>7, <1>9, <1>10, <1>11

(* Nothing enters or leaves the answers' line.                             *)
LEMMA AnswersStay ==
  ASSUME OrderInv, UNCHANGED <<reply, outbox, inbound>>
  PROVE  OrderInv' /\ \A c \in Calls : \A p \in Pos : Due(c, p)' <=> Due(c, p)
<1>1. ASSUME NEW c \in Calls, NEW p \in Pos
      PROVE  /\ Has(inbound[c[1]], Part, c, p)' <=> Has(inbound[c[1]], Part, c, p)
             /\ Has(outbox, Part, c, p)' <=> Has(outbox, Part, c, p)
             /\ Replying(c, p)' <=> Replying(c, p)
  <2>1. /\ Has(outbox', Part, c, p) <=> Has(outbox, Part, c, p)
        /\ Has(inbound'[c[1]], Part, c, p) <=> Has(inbound[c[1]], Part, c, p)
    OBVIOUS
  <2>2. Replying(c, p)' <=> Replying(c, p)
    BY DEF Replying
  <2> QED BY <2>1, <2>2
<1>2. Ranked(outbox', Part) /\ \A a \in Callers : Ranked(inbound'[a], Part)
  BY DEF OrderInv
<1>3. \A c \in Calls : \A p, q \in Pos :
         /\ Has(inbound[c[1]], Part, c, p)' /\ Has(outbox, Part, c, q)' => p < q
         /\ (Has(inbound[c[1]], Part, c, p)' \/ Has(outbox, Part, c, p)') /\ Replying(c, q)'
              => p < q
  BY <1>1 DEF OrderInv
<1> QED BY <1>1, <1>2, <1>3 DEF OrderInv, Due

(* The callers' bodies stay, and so does what is due to their current      *)
(* calls; something for an earlier call may go.                            *)
LEMMA AnswersKept ==
  ASSUME CallTypes, AnswerInv, OrderInv',
         \A c \in Calls : \A p \in Pos : Due(c, p)' => Due(c, p),
         \A c \in Calls : \A p \in Pos : c = Current(c[1]) /\ Due(c, p) => Due(c, p)',
         UNCHANGED <<body, correlation>>,
         \A c \in Calls : c = Current(c[1]) /\ callPc'[c[1]] = "awaiting" =>
                            callPc[c[1]] = "awaiting" \/ started[c] = 0,
         \A c \in Calls : started'[c] = 0 \/ c \in DOMAIN jobs' =>
                            started[c] = 0 \/ c \in DOMAIN jobs
  PROVE  AnswerInv'
<1>1. \A a \in Callers : Current(a)' = Current(a)
  BY DEF Current
<1>2. UnansweredInv'
  <2> SUFFICES ASSUME NEW c \in Calls, started'[c] = 0 \/ c \in DOMAIN jobs'
               PROVE  /\ \A p \in Pos : ~Due(c, p)'
                      /\ c = Current(c[1])' => body'[c[1]] = <<>>
    BY DEF UnansweredInv
  <2>1. c[1] \in Callers
    BY CallShape
  <2> QED BY <1>1, <2>1 DEF AnswerInv, UnansweredInv
<1>3. GapInv'
  <2> SUFFICES ASSUME NEW c \in Calls, c = Current(c[1])', callPc'[c[1]] = "awaiting",
                      NEW p \in Pos, Due(c, p)'
               PROVE  /\ p > Len(body'[c[1]])
                      /\ p > Len(body'[c[1]]) + 1 => Due(c, p - 1)'
    BY DEF GapInv
  <2>1. c[1] \in Callers /\ Len(body[c[1]]) \in Nat
    BY CallShape DEF CallTypes
  <2>2. callPc[c[1]] = "awaiting"
    BY <1>1, <2>1 DEF AnswerInv, UnansweredInv
  <2>3. /\ p > Len(body[c[1]])
        /\ p > Len(body[c[1]]) + 1 => Due(c, p - 1)
    BY <1>1, <2>1, <2>2 DEF AnswerInv, GapInv
  <2>4. p > Len(body[c[1]]) + 1 => p - 1 \in Pos
    BY <2>1 DEF Pos
  <2> QED BY <1>1, <2>1, <2>3, <2>4
<1>4. ResponseIsOwnAndInOrder'
  BY <1>1 DEF AnswerInv, ResponseIsOwnAndInOrder
<1> QED BY <1>2, <1>3, <1>4 DEF AnswerInv

-----------------------------------------------------------------------------
(* Steps that leave the lines of frames alone.                             *)

LEMMA LinesStay ==
  ASSUME UNCHANGED <<inbox, outbound>>
  PROVE  \A c \in Calls : \A k \in 1 .. 3 : OnLine(c, k)' <=> OnLine(c, k)
<1> SUFFICES ASSUME NEW c \in Calls, NEW k \in 1 .. 3 PROVE OnLine(c, k)' <=> OnLine(c, k)
  OBVIOUS
<1>1. Has(inbox', Place, c, k) <=> Has(inbox, Place, c, k)
  OBVIOUS
<1>2. Has(outbound'[c[1]], Place, c, k) <=> Has(outbound[c[1]], Place, c, k)
  OBVIOUS
<1> QED BY <1>1, <1>2 DEF OnLine

LEMMA LineKept ==
  ASSUME LineInv, UNCHANGED <<inbox, outbound>>,
         \A c \in Calls : \A k \in 1 .. 3 : k <= Reached(c) => k <= Reached(c)',
         \A c \in Calls : outcome'[c] = "sendFailed" => Reached(c)' = 3
  PROVE  LineInv'
<1>1. ASSUME NEW c \in Calls, NEW k \in 1 .. 3
      PROVE  /\ Has(inbox, Place, c, k)' <=> Has(inbox, Place, c, k)
             /\ Has(outbound[c[1]], Place, c, k)' <=> Has(outbound[c[1]], Place, c, k)
  <2>1. Has(inbox', Place, c, k) <=> Has(inbox, Place, c, k)
    OBVIOUS
  <2>2. Has(outbound'[c[1]], Place, c, k) <=> Has(outbound[c[1]], Place, c, k)
    OBVIOUS
  <2> QED BY <2>1, <2>2
<1>2. Ranked(inbox', Place) /\ \A a \in Callers : Ranked(outbound'[a], Place)
  BY DEF LineInv
<1>3. \A c \in Calls : \A j, k \in 1 .. 3 :
        Has(inbox, Place, c, j)' /\ Has(outbound[c[1]], Place, c, k)' => j < k
  BY <1>1 DEF LineInv
<1>4. \A c \in Calls : \A k \in 1 .. 3 : OnLine(c, k)' => k <= Reached(c)'
  BY LinesStay DEF LineInv
<1> QED BY <1>2, <1>3, <1>4 DEF LineInv

LEMMA FreshKept ==
  ASSUME FreshInv, started' = started,
         \A c \in Calls : Reached(c)' < Fragments(c) => Reached(c) < Fragments(c),
         \A c \in Calls : \A k \in 1 .. Fragments(c) :
            OnLine(c, k)' => OnLine(c, k) \/ Reached(c) < Fragments(c)
  PROVE  FreshInv'
<1> SUFFICES ASSUME NEW c \in Calls,
                    Reached(c)' < Fragments(c) \/ \E k \in 1 .. Fragments(c) : OnLine(c, k)'
             PROVE  started'[c] = 0
  BY DEF FreshInv, Fragments
<1> QED BY DEF FreshInv

LEMMA PartialKept ==
  ASSUME CallTypes, PartialInv, assemblies' = assemblies, pc = "exited" => pc' = "exited",
         \A c \in Calls : Reached(c) >= 1 => Reached(c)' >= 1,
         \A c \in Calls : OnLine(c, 1)' => OnLine(c, 1) \/ Reached(c) = 0,
         \A c \in Long : SecondComes(c) => SecondComes(c)',
         \A c \in Long : OnLine(c, 1)' => OnLine(c, 1) \/ SecondComes(c)'
  PROVE  PartialInv'
<1> SUFFICES ASSUME pc' # "exited", NEW c \in Calls
             PROVE  /\ c \in DOMAIN assemblies' =>
                         c \in Long /\ assemblies'[c] = <<1>> /\ ~OnLine(c, 1)' /\ Reached(c)' >= 1
                    /\ c \in DOMAIN assemblies' \/ (c \in Long /\ OnLine(c, 1)') => SecondComes(c)'
  BY DEF PartialInv
<1>1. Reached(c) \in 0 .. 3
  BY ReachedIs
<1> QED BY <1>1 DEF PartialInv

-----------------------------------------------------------------------------
(* The steps of a caller.                                                  *)

LEMMA CallStep ==
  ASSUME CInv, NEW a \in Callers, Call(a)
  PROVE  CInv'
<1>1. /\ callPc[a] = "idle" /\ correlation[a] < CallsPer
      /\ correlation' = [correlation EXCEPT ![a] = @ + 1]
      /\ callPc' = [callPc EXCEPT ![a] = "sending"]
      /\ sentChunks' = [sentChunks EXCEPT ![a] = 0]
      /\ body' = [body EXCEPT ![a] = <<>>]
      /\ UNCHANGED <<vars, outbound, inbound, outcome, cancelSent>>
  BY DEF Call
<1>2. CallTypes /\ LineInv /\ FreshInv /\ PartialInv /\ AnswerInv /\ RInv
  BY DEF CInv
<1>3. /\ correlation \in [Callers -> 0 .. CallsPer] /\ callPc \in [Callers -> {"idle", "sending", "awaiting"}]
      /\ sentChunks \in [Callers -> 0 .. 2] /\ body \in [Callers -> Seq(Calls \X Nat)]
  BY <1>2 DEF CallTypes, CallTypeOK
<1>4. /\ correlation'[a] = correlation[a] + 1 /\ callPc'[a] = "sending" /\ sentChunks'[a] = 0
      /\ body'[a] = <<>> /\ correlation'[a] \in 1 .. CallsPer
      /\ \A v \in Callers : v # a => /\ correlation'[v] = correlation[v] /\ callPc'[v] = callPc[v]
                                     /\ sentChunks'[v] = sentChunks[v] /\ body'[v] = body[v]
                                     /\ Current(v)' = Current(v)
  BY <1>1, <1>3, CallShape DEF Current
<1>5. /\ correlation' \in [Callers -> 0 .. CallsPer]
      /\ callPc' \in [Callers -> {"idle", "sending", "awaiting"}]
      /\ sentChunks' \in [Callers -> 0 .. 2] /\ body' \in [Callers -> Seq(Calls \X Nat)]
  BY <1>1, <1>3, CallShape
<1>6. UNCHANGED <<inbox, outbox, outbound, inbound, reply, started, jobs, assemblies, pc, outcome, cancelSent>>
  BY <1>1 DEF vars, loop, tables, history
<1>7. CallTypes'
  <2>1. Current(a)' \in Calls
    BY <1>4, CallAssumption DEF Current
  <2>2. 0 < Fragments(Current(a)')
    BY <2>1, CallShape
  <2>3. \A v \in Callers : callPc'[v] # "idle" => correlation'[v] > 0
    <3>1. \A v \in Callers : callPc[v] # "idle" => correlation[v] > 0
      BY <1>2 DEF CallTypes
    <3>2. correlation'[a] > 0
      BY <1>4, CallShape
    <3> QED BY <1>4, <3>1, <3>2
  <2>4. \A v \in Callers : callPc'[v] = "sending" => sentChunks'[v] < Fragments(Current(v)')
    BY <1>2, <1>4, <2>2 DEF CallTypes
  <2> QED BY <1>2, <1>5, <1>6, <2>3, <2>4 DEF CallTypes, CallTypeOK, Fragments
<1>8. \A c \in Calls : Reached(c)' = Reached(c)
  <2> SUFFICES ASSUME NEW c \in Calls PROVE Reached(c)' = Reached(c)
    OBVIOUS
  <2>1. c[1] \in Callers /\ c[2] \in Nat
    BY CallShape
  <2>2. CASE c[1] # a
    BY <1>4, <2>1, <2>2 DEF Reached, Fragments
  <2>3. CASE c[1] = a
    <3>1. correlation[a] \in Nat
      BY <1>3, CallShape
    <3> QED BY <1>1, <1>4, <2>1, <2>3, <3>1 DEF Reached
  <2> QED BY <2>2, <2>3
<1>9. \A c \in Calls : \A k \in 1 .. 3 : OnLine(c, k)' <=> OnLine(c, k)
  BY <1>6, LinesStay
<1>10. LineInv'
  BY <1>2, <1>6, <1>8, LineKept DEF LineInv
<1>11. FreshInv'
  <2>1. \A c \in Calls : \A k \in 1 .. Fragments(c) : k \in 1 .. 3
    BY PlacesOf
  <2> QED BY <1>2, <1>6, <1>8, <1>9, <2>1, FreshKept
<1>12. PartialInv'
  <2>1. \A c \in Calls : SecondComes(c)' <=> SecondComes(c)
    BY <1>6, <1>8, <1>9 DEF SecondComes
  <2>2. Long \subseteq Calls
    BY CallAssumption
  <2> QED BY <1>2, <1>6, <1>8, <1>9, <2>1, <2>2, PartialKept
<1>13. AnswerInv'
  <2>1. OrderInv' /\ \A c \in Calls : \A p \in Pos : Due(c, p)' <=> Due(c, p)
    BY <1>2, <1>6, AnswersStay DEF AnswerInv
  <2>2. UnansweredInv'
    <3> SUFFICES ASSUME NEW c \in Calls, started'[c] = 0 \/ c \in DOMAIN jobs'
                 PROVE  /\ \A p \in Pos : ~Due(c, p)'
                        /\ c = Current(c[1])' => body'[c[1]] = <<>>
      BY DEF UnansweredInv
    <3>1. c[1] \in Callers
      BY CallShape
    <3> QED BY <1>2, <1>4, <1>6, <2>1, <3>1 DEF AnswerInv, UnansweredInv
  <2>3. GapInv'
    <3> SUFFICES ASSUME NEW c \in Calls, c = Current(c[1])', callPc'[c[1]] = "awaiting",
                        NEW p \in Pos, Due(c, p)'
                 PROVE  /\ p > Len(body'[c[1]])
                        /\ p > Len(body'[c[1]]) + 1 => Due(c, p - 1)'
      BY DEF GapInv
    <3>1. c[1] \in Callers /\ c[1] # a
      BY <1>4, CallShape
    <3>2. Len(body[c[1]]) \in Nat
      BY <1>3, <3>1
    <3>3. p > Len(body[c[1]]) + 1 => p - 1 \in Pos
      BY <3>2 DEF Pos
    <3> QED BY <1>2, <1>4, <2>1, <3>1, <3>3 DEF AnswerInv, GapInv
  <2>4. ResponseIsOwnAndInOrder'
    BY <1>2, <1>4 DEF AnswerInv, ResponseIsOwnAndInOrder
  <2> QED BY <2>1, <2>2, <2>3, <2>4 DEF AnswerInv
<1>14. RInv'
  BY <1>1, <1>2, StutterStep
<1> QED BY <1>7, <1>10, <1>11, <1>12, <1>13, <1>14 DEF CInv

(* Within a call the caller's own state moves, and of the module nothing.  *)
LEMMA CallerTypes ==
  ASSUME CallTypes, UNCHANGED <<vars, correlation>>, NEW a \in Callers, callPc[a] # "idle",
         callPc'[a] \in {"idle", "sending", "awaiting"}, sentChunks'[a] \in 0 .. 2,
         callPc' = [callPc EXCEPT ![a] = callPc'[a]],
         sentChunks' = [sentChunks EXCEPT ![a] = sentChunks'[a]],
         callPc'[a] = "sending" => sentChunks'[a] < Fragments(Current(a)),
         outcome' \in [Calls -> {"none", "OK", "failed", "sendFailed", "deadline", "left"}],
         cancelSent' \subseteq Calls,
         outbound' \in [Callers -> Seq(Line)], inbound' \in [Callers -> Seq(Answer)],
         \A v \in Callers : \A i \in 1 .. Len(outbound'[v]) : outbound'[v][i].corr[1] = v,
         body' \in [Callers -> Seq(Calls \X Nat)]
  PROVE  CallTypes'
<1>1. UNCHANGED <<inbox, outbox, reply>>
  BY DEF vars, loop
<1>2. /\ callPc \in [Callers -> {"idle", "sending", "awaiting"}]
      /\ sentChunks \in [Callers -> 0 .. 2] /\ correlation \in [Callers -> 0 .. CallsPer]
  BY DEF CallTypes, CallTypeOK
<1>3. /\ callPc' \in [Callers -> {"idle", "sending", "awaiting"}]
      /\ sentChunks' \in [Callers -> 0 .. 2]
      /\ \A v \in Callers : v # a => callPc'[v] = callPc[v] /\ sentChunks'[v] = sentChunks[v]
  <2>1. /\ callPc' = [callPc EXCEPT ![a] = callPc'[a]]
        /\ callPc'[a] \in {"idle", "sending", "awaiting"}
    OBVIOUS
  <2>2. sentChunks' = [sentChunks EXCEPT ![a] = sentChunks'[a]] /\ sentChunks'[a] \in 0 .. 2
    OBVIOUS
  <2>3. /\ callPc' \in [Callers -> {"idle", "sending", "awaiting"}]
        /\ \A v \in Callers : v # a => callPc'[v] = callPc[v]
    BY <1>2, <2>1
  <2>4. /\ sentChunks' \in [Callers -> 0 .. 2]
        /\ \A v \in Callers : v # a => sentChunks'[v] = sentChunks[v]
    BY <1>2, <2>2
  <2> QED BY <2>3, <2>4
<1>4. \A v \in Callers : callPc'[v] # "idle" => correlation'[v] > 0
  BY <1>3 DEF CallTypes
<1>5. \A v \in Callers : Current(v)' = Current(v)
  BY DEF Current
<1>6. \A v \in Callers : callPc'[v] = "sending" => sentChunks'[v] < Fragments(Current(v)')
  <2> SUFFICES ASSUME NEW v \in Callers, callPc'[v] = "sending"
               PROVE  sentChunks'[v] < Fragments(Current(v)')
    OBVIOUS
  <2>1. Current(v)' = Current(v)
    BY <1>5
  <2>2. CASE v = a
    BY <2>1, <2>2
  <2>3. CASE v # a
    BY <1>3, <2>1, <2>3 DEF CallTypes
  <2> QED BY <2>2, <2>3
<1>7. CallTypeOK'
  BY <1>2, <1>3 DEF CallTypeOK
<1> HIDE <1>2
<1> QED BY <1>1, <1>4, <1>6, <1>7 DEF CallTypes, Fragments

LEMMA SendFragmentStep ==
  ASSUME CInv, NEW a \in Callers, SendFragment(a)
  PROVE  CInv'
<1> SUFFICES ASSUME NEW c, c = Current(a), NEW k, k = sentChunks[a] + 1
             PROVE  CInv'
  OBVIOUS
<1>1. /\ callPc[a] = "sending"
      /\ outbound' = [outbound EXCEPT ![a] = Append(@, Request(c, k))]
      /\ sentChunks' = [sentChunks EXCEPT ![a] = k]
      /\ callPc' = [callPc EXCEPT ![a] = IF k < Fragments(c) THEN "sending" ELSE "awaiting"]
      /\ UNCHANGED <<vars, inbound, correlation, body, outcome, cancelSent>>
  BY DEF SendFragment
<1>2. CallTypes /\ LineInv /\ FreshInv /\ PartialInv /\ AnswerInv /\ RInv
  BY DEF CInv
<1>3. c \in Calls /\ c[1] = a /\ Fragments(c) \in {1, 2} /\ (c \in Long <=> Fragments(c) = 2)
  BY <1>1, <1>2, CurrentIs, CallShape
<1>4. /\ callPc \in [Callers -> {"idle", "sending", "awaiting"}]
      /\ sentChunks \in [Callers -> 0 .. 2]
  BY <1>2 DEF CallTypes, CallTypeOK
<1>5. Reached(c) = k - 1 /\ k \in 1 .. Fragments(c) /\ k \in 1 .. 2
  BY <1>1, <1>2, <1>3, <1>4, ReachedIs
<1>6. /\ Request(c, k) \in Line /\ Request(c, k).corr = c /\ Place[Request(c, k)] = k
  BY <1>3, <1>5, RequestIs
<1>7. UNCHANGED <<inbox, outbox, inbound, reply, started, jobs, assemblies, pc>>
  BY <1>1 DEF vars, loop, tables, history
<1>8. /\ outbound' \in [Callers -> Seq(Line)]
      /\ \A v \in Callers : \A i \in 1 .. Len(outbound'[v]) : outbound'[v][i].corr[1] = v
      /\ \A v \in Callers : Ranked(outbound'[v], Place)
      /\ \A d \in Calls : \A i, j \in 1 .. 3 :
           Has(inbox, Place, d, i)' /\ Has(outbound[d[1]], Place, d, j)' => i < j
      /\ \A d \in Calls : \A j \in 1 .. 3 :
           OnLine(d, j)' <=> OnLine(d, j) \/ (d = c /\ j = k)
  <2>1. callPc[a] # "idle" /\ Reached(Current(a)) < k
    BY <1>1, <1>5
  <2>2. Published(a, Request(c, k))
    BY <1>1 DEF Published
  <2> QED BY <1>2, <1>6, <1>7, <2>1, <2>2, LineExtended
<1>9. \A d \in Calls : d # c => Reached(d)' = Reached(d)
  BY <1>1, <1>2, <1>4, OnlyCurrentMoves
<1>10. CallTypes'
  <2>1. callPc'[a] \in {"idle", "sending", "awaiting"} /\ sentChunks'[a] \in 0 .. 2
        /\ callPc' = [callPc EXCEPT ![a] = callPc'[a]]
        /\ sentChunks' = [sentChunks EXCEPT ![a] = sentChunks'[a]]
        /\ (callPc'[a] = "sending" => sentChunks'[a] < Fragments(Current(a)))
    BY <1>1, <1>4, <1>5
  <2>2. /\ outcome' \in [Calls -> {"none", "OK", "failed", "sendFailed", "deadline", "left"}]
        /\ cancelSent' \subseteq Calls /\ inbound' \in [Callers -> Seq(Answer)]
        /\ body' \in [Callers -> Seq(Calls \X Nat)]
    BY <1>1, <1>2 DEF CallTypes, CallTypeOK
  <2> QED BY <1>1, <1>2, <1>8, <2>1, <2>2, CallerTypes
<1>11. Reached(c)' = k
  <2>1. Current(a)' = c /\ c = Current(c[1])' /\ Fragments(c)' = Fragments(c)
    BY <1>1, <1>3 DEF Current, Fragments
  <2>2. c[2] = correlation[a] /\ correlation'[a] = correlation[a] /\ c[2] \in Nat
    BY <1>1, <1>3, CallShape DEF Current
  <2>3. sentChunks'[a] = k /\ callPc'[a] = (IF k < Fragments(c) THEN "sending" ELSE "awaiting")
    BY <1>1, <1>4
  <2>4. Reached(c)' = IF k < Fragments(c) THEN k ELSE Fragments(c)
    BY <1>3, <2>1, <2>2, <2>3 DEF Reached
  <2> QED BY <1>3, <1>5, <2>4
<1>12. LineInv'
  <2>1. Ranked(inbox', Place)
    BY <1>2, <1>7 DEF LineInv
  <2>2. \A d \in Calls : \A j \in 1 .. 3 : OnLine(d, j)' => j <= Reached(d)'
    BY <1>2, <1>3, <1>5, <1>8, <1>9, <1>11 DEF LineInv
  <2>3. \A d \in Calls : outcome'[d] = "sendFailed" => Reached(d)' = 3
    BY <1>1, <1>2, <1>3, <1>5, <1>9 DEF LineInv
  <2> QED BY <1>8, <2>1, <2>2, <2>3 DEF LineInv
<1>13. FreshInv'
  <2>1. \A d \in Calls : \A j \in 1 .. Fragments(d) : j \in 1 .. 3
    BY PlacesOf
  <2>2. \A d \in Calls : Reached(d)' < Fragments(d) => Reached(d) < Fragments(d)
    BY <1>3, <1>5, <1>9, <1>11
  <2>3. \A d \in Calls : \A j \in 1 .. Fragments(d) :
           OnLine(d, j)' => OnLine(d, j) \/ Reached(d) < Fragments(d)
    BY <1>3, <1>5, <1>8, <2>1
  <2> QED BY <1>2, <1>7, <2>2, <2>3, FreshKept
<1>14. PartialInv'
  <2>1. Long \subseteq Calls
    BY CallAssumption
  <2>2. \A d \in Long : SecondComes(d) => SecondComes(d)'
    <3> SUFFICES ASSUME NEW d \in Long, SecondComes(d) PROVE SecondComes(d)'
      OBVIOUS
    <3>1. OnLine(d, 2) => OnLine(d, 2)'
      BY <1>8, <2>1
    <3>2. d = c /\ Reached(d) = 1 => OnLine(d, 2)'
      BY <1>5, <1>8, <2>1
    <3> QED BY <1>1, <1>9, <2>1, <3>1, <3>2 DEF SecondComes
  <2>3. \A d \in Long : OnLine(d, 1)' => OnLine(d, 1) \/ SecondComes(d)'
    BY <1>8, <1>11, <2>1 DEF SecondComes
  <2>4. \A d \in Calls : Reached(d) >= 1 => Reached(d)' >= 1
    BY <1>5, <1>9, <1>11
  <2>5. \A d \in Calls : OnLine(d, 1)' => OnLine(d, 1) \/ Reached(d) = 0
    BY <1>5, <1>8
  <2> QED BY <1>2, <1>7, <2>2, <2>3, <2>4, <2>5, PartialKept
<1>15. AnswerInv'
  <2>1. OrderInv' /\ \A d \in Calls : \A p \in Pos : Due(d, p)' <=> Due(d, p)
    BY <1>2, <1>7, AnswersStay DEF AnswerInv
  <2>2. started[c] = 0
    BY <1>2, <1>3, <1>5 DEF FreshInv
  <2>3. \A d \in Calls : d = Current(d[1]) /\ callPc'[d[1]] = "awaiting" =>
                            callPc[d[1]] = "awaiting" \/ started[d] = 0
    <3> SUFFICES ASSUME NEW d \in Calls, d = Current(d[1]), callPc'[d[1]] = "awaiting"
                 PROVE  callPc[d[1]] = "awaiting" \/ started[d] = 0
      OBVIOUS
    <3>1. d[1] \in Callers
      BY CallShape
    <3> QED BY <1>1, <1>4, <2>2, <3>1
  <2> QED BY <1>1, <1>2, <1>7, <2>1, <2>3, AnswersKept
<1>16. RInv'
  BY <1>1, <1>2, StutterStep
<1> QED BY <1>10, <1>12, <1>13, <1>14, <1>15, <1>16 DEF CInv

(* The caller leaves its current call: the send failed, or it awaited a    *)
(* reply and publishes a cancel or none.                                   *)
Over(a, why) ==
    /\ callPc[a] = IF why = "sendFailed" THEN "sending" ELSE "awaiting"
    /\ callPc' = [callPc EXCEPT ![a] = "idle"]
    /\ outcome' = [outcome EXCEPT ![Current(a)] = why]
    /\ cancelSent' \in {cancelSent, cancelSent \cup {Current(a)}}
    /\ \/ outbound' = outbound
       \/ why # "sendFailed" /\ Published(a, CancelFrame(Current(a)))
    /\ UNCHANGED <<vars, correlation, sentChunks>>

LEMMA OverKeeps ==
  ASSUME CInv, NEW a \in Callers, NEW why \in {"OK", "failed", "sendFailed", "deadline", "left"},
         Over(a, why), inbound' \in [Callers -> Seq(Answer)],
         body' \in [Callers -> Seq(Calls \X Nat)]
  PROVE  CallTypes' /\ LineInv' /\ FreshInv' /\ PartialInv' /\ RInv'
<1> SUFFICES ASSUME NEW c, c = Current(a)
             PROVE  CallTypes' /\ LineInv' /\ FreshInv' /\ PartialInv' /\ RInv'
  OBVIOUS
<1>1. /\ callPc[a] = IF why = "sendFailed" THEN "sending" ELSE "awaiting"
      /\ callPc' = [callPc EXCEPT ![a] = "idle"]
      /\ outcome' = [outcome EXCEPT ![c] = why]
      /\ cancelSent' \in {cancelSent, cancelSent \cup {c}}
      /\ outbound' = outbound \/ (why # "sendFailed" /\ Published(a, CancelFrame(c)))
      /\ UNCHANGED <<vars, correlation, sentChunks>>
  BY DEF Over
<1>2. CallTypes /\ LineInv /\ FreshInv /\ PartialInv /\ RInv
  BY DEF CInv
<1>3. c \in Calls /\ c[1] = a /\ Fragments(c) \in {1, 2} /\ (c \in Long <=> Fragments(c) = 2)
  BY <1>1, <1>2, CurrentIs, CallShape
<1>4. /\ callPc \in [Callers -> {"idle", "sending", "awaiting"}]
      /\ outcome \in [Calls -> {"none", "OK", "failed", "sendFailed", "deadline", "left"}]
      /\ sentChunks \in [Callers -> 0 .. 2] /\ cancelSent \subseteq Calls
  BY <1>2 DEF CallTypes, CallTypeOK
<1>5. /\ Reached(c) \in 0 .. 3
      /\ why # "sendFailed" => Reached(c) = Fragments(c)
      /\ why = "sendFailed" => Reached(c) < Fragments(c)
  BY <1>1, <1>2, <1>3, ReachedIs
<1>6. UNCHANGED <<inbox, outbox, reply, started, jobs, assemblies, pc>>
  BY <1>1 DEF vars, loop, tables, history
<1>7. Reached(c)' = 3
  <2>1. c[2] = correlation[a] /\ correlation'[a] = correlation[a] /\ c[2] \in Nat
    BY <1>1, <1>3, CallShape DEF Current
  <2>2. callPc'[a] = "idle"
    BY <1>1, <1>4
  <2> QED BY <1>3, <2>1, <2>2 DEF Reached
<1>8. \A d \in Calls : d # c => Reached(d)' = Reached(d) /\ outcome'[d] = outcome[d]
  <2>1. \A d \in Calls : d # c => Reached(d)' = Reached(d)
    BY <1>1, <1>2, <1>4, OnlyCurrentMoves
  <2> QED BY <1>1, <1>4, <2>1
<1>9. outcome'[c] = why
  BY <1>1, <1>3, <1>4
<1>10. /\ outbound' \in [Callers -> Seq(Line)]
       /\ \A v \in Callers : \A i \in 1 .. Len(outbound'[v]) : outbound'[v][i].corr[1] = v
       /\ \A v \in Callers : Ranked(outbound'[v], Place)
       /\ \A d \in Calls : \A i, j \in 1 .. 3 :
            Has(inbox, Place, d, i)' /\ Has(outbound[d[1]], Place, d, j)' => i < j
       /\ \A d \in Calls : \A j \in 1 .. 3 : OnLine(d, j) => OnLine(d, j)'
       /\ \A d \in Calls : \A j \in 1 .. 3 : OnLine(d, j)' => OnLine(d, j) \/ (d = c /\ j = 3)
  <2>1. CASE outbound' = outbound
    <3>1. \A d \in Calls : \A j \in 1 .. 3 : OnLine(d, j)' <=> OnLine(d, j)
      BY <1>6, <2>1, LinesStay
    <3>2. ASSUME NEW d \in Calls, NEW k \in 1 .. 3
          PROVE  /\ Has(inbox, Place, d, k)' <=> Has(inbox, Place, d, k)
                 /\ Has(outbound[d[1]], Place, d, k)' <=> Has(outbound[d[1]], Place, d, k)
      <4>1. Has(inbox', Place, d, k) <=> Has(inbox, Place, d, k)
        BY <1>6
      <4>2. Has(outbound'[d[1]], Place, d, k) <=> Has(outbound[d[1]], Place, d, k)
        BY <2>1
      <4> QED BY <4>1, <4>2
    <3>3. /\ \A v \in Callers : Ranked(outbound'[v], Place)
          /\ \A d \in Calls : \A i, j \in 1 .. 3 :
               Has(inbox, Place, d, i)' /\ Has(outbound[d[1]], Place, d, j)' => i < j
      BY <1>2, <2>1, <3>2 DEF LineInv
    <3>4. /\ outbound' \in [Callers -> Seq(Line)]
          /\ \A v \in Callers : \A i \in 1 .. Len(outbound'[v]) : outbound'[v][i].corr[1] = v
      BY <1>2, <2>1 DEF CallTypes
    <3> QED BY <3>1, <3>3, <3>4
  <2>2. CASE why # "sendFailed" /\ Published(a, CancelFrame(c))
    <3>1. /\ CancelFrame(c) \in Line /\ CancelFrame(c).corr = c /\ Place[CancelFrame(c)] = 3
      BY <1>3, CancelIs
    <3>2. callPc[a] # "idle" /\ Reached(Current(a)) < 3
      BY <1>1, <1>3, <1>5, <2>2
    <3> QED BY <1>2, <1>6, <2>2, <3>1, <3>2, LineExtended
  <2> QED BY <1>1, <2>1, <2>2
<1>11. CallTypes'
  <2>1. callPc'[a] \in {"idle", "sending", "awaiting"} /\ sentChunks'[a] \in 0 .. 2
        /\ callPc' = [callPc EXCEPT ![a] = callPc'[a]]
        /\ sentChunks' = [sentChunks EXCEPT ![a] = sentChunks'[a]]
        /\ callPc'[a] # "sending" /\ callPc[a] # "idle"
    BY <1>1, <1>4
  <2>2. /\ outcome' \in [Calls -> {"none", "OK", "failed", "sendFailed", "deadline", "left"}]
        /\ cancelSent' \subseteq Calls
    BY <1>1, <1>3, <1>4
  <2> QED BY <1>1, <1>2, <1>10, <2>1, <2>2, CallerTypes
<1>12. LineInv'
  <2>1. Ranked(inbox', Place)
    BY <1>2, <1>6 DEF LineInv
  <2>2. ASSUME NEW d \in Calls, NEW j \in 1 .. 3, OnLine(d, j)' PROVE j <= Reached(d)'
    <3>1. CASE d = c
      BY <1>7, <3>1
    <3>2. CASE d # c
      BY <1>2, <1>8, <1>10, <2>2, <3>2 DEF LineInv
    <3> QED BY <3>1, <3>2
  <2>3. \A d \in Calls : outcome'[d] = "sendFailed" => Reached(d)' = 3
    BY <1>2, <1>7, <1>8 DEF LineInv
  <2> QED BY <1>10, <2>1, <2>2, <2>3 DEF LineInv
<1>13. FreshInv'
  <2>1. \A d \in Calls : \A j \in 1 .. Fragments(d) : j \in 1 .. 3 /\ j # 3
    BY PlacesOf
  <2>2. \A d \in Calls : Reached(d)' < Fragments(d) => Reached(d) < Fragments(d)
    BY <1>3, <1>7, <1>8, SMTT(40)
  <2>3. \A d \in Calls : \A j \in 1 .. Fragments(d) :
           OnLine(d, j)' => OnLine(d, j) \/ Reached(d) < Fragments(d)
    BY <1>10, <2>1
  <2> QED BY <1>2, <1>6, <2>2, <2>3, FreshKept
<1>14. PartialInv'
  <2>1. Long \subseteq Calls
    BY CallAssumption
  <2>2. \A d \in Long : SecondComes(d) => SecondComes(d)'
    <3> SUFFICES ASSUME NEW d \in Long, SecondComes(d) PROVE SecondComes(d)'
      OBVIOUS
    <3>1. OnLine(d, 2) => OnLine(d, 2)'
      BY <1>10, <2>1
    <3>2. CASE d # c
      BY <1>8, <2>1, <3>1, <3>2 DEF SecondComes
    <3>3. CASE d = c /\ why = "sendFailed"
      BY <1>9, <3>3 DEF SecondComes
    <3>4. CASE d = c /\ why # "sendFailed"
      <4>1. Reached(c) = 2
        BY <1>3, <1>5, <3>4
      <4>2. outcome[c] # "sendFailed"
        BY <1>2, <1>3, <4>1 DEF LineInv
      <4> QED BY <3>1, <3>4, <4>1, <4>2 DEF SecondComes
    <3> QED BY <3>2, <3>3, <3>4
  <2>3. \A d \in Calls : OnLine(d, 1)' => OnLine(d, 1)
    BY <1>10
  <2>4. ASSUME NEW d \in Calls, Reached(d) >= 1 PROVE Reached(d)' >= 1
    <3>1. CASE d = c
      BY <1>7, <3>1
    <3>2. CASE d # c
      BY <1>8, <2>4, <3>2
    <3> QED BY <3>1, <3>2
  <2> QED BY <1>2, <1>6, <2>1, <2>2, <2>3, <2>4, PartialKept
<1>15. RInv'
  BY <1>1, <1>2, StutterStep
<1> QED BY <1>11, <1>12, <1>13, <1>14, <1>15

(* Leaving takes no answer away from a call.                               *)
LEMMA OverAnswers ==
  ASSUME CallTypes, AnswerInv, NEW a \in Callers, NEW why, Over(a, why), body' = body,
         OrderInv',
         \A c \in Calls : \A p \in Pos : Due(c, p)' => Due(c, p),
         \A c \in Calls : \A p \in Pos : c = Current(c[1]) /\ Due(c, p) => Due(c, p)'
  PROVE  AnswerInv'
<1>1. /\ callPc' = [callPc EXCEPT ![a] = "idle"] /\ UNCHANGED <<correlation, started, jobs>>
  BY DEF Over, vars, tables, history
<1>2. callPc \in [Callers -> {"idle", "sending", "awaiting"}]
  BY DEF CallTypes, CallTypeOK
<1>3. \A c \in Calls : c = Current(c[1]) /\ callPc'[c[1]] = "awaiting" =>
                            callPc[c[1]] = "awaiting" \/ started[c] = 0
  BY <1>1, <1>2, CallShape
<1> QED BY <1>1, <1>3, AnswersKept

LEMMA SendFailsStep ==
  ASSUME CInv, NEW a \in Callers, SendFails(a)
  PROVE  CInv'
<1>1. Over(a, "sendFailed") /\ UNCHANGED <<inbound, body>>
  BY DEF SendFails, Over
<1>2. /\ inbound' \in [Callers -> Seq(Answer)] /\ body' \in [Callers -> Seq(Calls \X Nat)]
      /\ CallTypes /\ AnswerInv
  BY <1>1 DEF CInv, CallTypes
<1>3. CallTypes' /\ LineInv' /\ FreshInv' /\ PartialInv' /\ RInv'
  BY <1>1, <1>2, OverKeeps
<1>4. UNCHANGED <<reply, outbox, inbound>>
  BY <1>1 DEF Over, vars, loop
<1>5. OrderInv' /\ \A c \in Calls : \A p \in Pos : Due(c, p)' <=> Due(c, p)
  BY <1>2, <1>4, AnswersStay DEF AnswerInv
<1>6. AnswerInv'
  BY <1>1, <1>2, <1>5, OverAnswers
<1> QED BY <1>3, <1>6 DEF CInv

(* Leave is an end of the call, with a cancel if the ring takes one.       *)
LEMMA LeaveIsOver ==
  ASSUME NEW a \in Callers, callPc[a] = "awaiting", NEW why \in {"failed", "deadline", "left"},
         Leave(a, why)
  PROVE  Over(a, why) /\ body' = body
<1>1. /\ callPc' = [callPc EXCEPT ![a] = "idle"]
      /\ outcome' = [outcome EXCEPT ![Current(a)] = why]
      /\ cancelSent' \in {cancelSent, cancelSent \cup {Current(a)}}
      /\ outbound' = outbound \/ Published(a, CancelFrame(Current(a)))
      /\ UNCHANGED <<vars, correlation, sentChunks, body>>
  BY DEF Leave, Published
<1> QED BY <1>1 DEF Over

(* Deadline, context and epoch: no event was taken.                        *)
LEMMA LeaveStep ==
  ASSUME CInv, NEW a \in Callers, callPc[a] = "awaiting",
         NEW why \in {"failed", "deadline", "left"}, Leave(a, why), inbound' = inbound
  PROVE  CInv'
<1>1. Over(a, why) /\ body' = body
  BY LeaveIsOver
<1>2. /\ inbound' \in [Callers -> Seq(Answer)] /\ body' \in [Callers -> Seq(Calls \X Nat)]
      /\ CallTypes /\ AnswerInv
  BY <1>1 DEF CInv, CallTypes
<1>3. CallTypes' /\ LineInv' /\ FreshInv' /\ PartialInv' /\ RInv'
  BY <1>1, <1>2, OverKeeps
<1>4. UNCHANGED <<reply, outbox, inbound>>
  BY <1>1 DEF Over, vars, loop
<1>5. OrderInv' /\ \A c \in Calls : \A p \in Pos : Due(c, p)' <=> Due(c, p)
  BY <1>2, <1>4, AnswersStay DEF AnswerInv
<1>6. AnswerInv'
  BY <1>1, <1>2, <1>5, OverAnswers
<1> QED BY <1>3, <1>6 DEF CInv

(* An answer to the call that is no response: the call fails.              *)
LEMMA AwaitErrorStep ==
  ASSUME CInv, NEW a \in Callers, AwaitError(a)
  PROVE  CInv'
<1>1. /\ callPc[a] = "awaiting" /\ Polled(a) /\ Leave(a, "failed")
      /\ Head(inbound[a]).status # "OK"
  BY DEF AwaitError, Receiving, Polled
<1>2. Over(a, "failed") /\ body' = body
  BY <1>1, LeaveIsOver
<1>3. UNCHANGED <<reply, outbox>>
  BY <1>2 DEF Over, vars, loop
<1>4. CallTypes /\ AnswerInv /\ OrderInv /\ body' \in [Callers -> Seq(Calls \X Nat)]
  BY <1>2 DEF CInv, CallTypes, AnswerInv
<1>5. PICK h : h = Head(inbound[a])
  OBVIOUS
<1>6. /\ OrderInv' /\ inbound' \in [Callers -> Seq(Answer)] /\ h \in Answer
      /\ \A c \in Calls : \A p \in Pos : Due(c, p)' => Due(c, p)
      /\ \A c \in Calls : \A p \in Pos :
           Due(c, p) /\ ~(c[1] = a /\ c = h.corr /\ p = Part[h]) => Due(c, p)'
  BY <1>1, <1>3, <1>4, <1>5, AnswerTaken
<1>7. Part[h] = 0
  BY <1>1, <1>5, <1>6, PartNat
<1>8. \A c \in Calls : \A p \in Pos : Due(c, p) => Due(c, p)'
  BY <1>6, <1>7 DEF Pos
<1>9. CallTypes' /\ LineInv' /\ FreshInv' /\ PartialInv' /\ RInv'
  BY <1>2, <1>4, <1>6, OverKeeps
<1>10. AnswerInv'
  BY <1>2, <1>4, <1>6, <1>8, OverAnswers
<1> QED BY <1>9, <1>10 DEF CInv

(* The frames of requests, while the caller goes on awaiting.              *)
LEMMA AwaitingKeeps ==
  ASSUME CInv, UNCHANGED <<vars, callPc, correlation, sentChunks, outcome, cancelSent, outbound>>,
         inbound' \in [Callers -> Seq(Answer)], body' \in [Callers -> Seq(Calls \X Nat)]
  PROVE  CallTypes' /\ LineInv' /\ FreshInv' /\ PartialInv' /\ RInv'
<1>1. CallTypes /\ LineInv /\ FreshInv /\ PartialInv /\ RInv
  BY DEF CInv
<1>2. UNCHANGED <<inbox, outbox, reply, started, jobs, assemblies, pc>> /\ SameCalls
  BY DEF vars, loop, tables, history, SameCalls
<1>3. \A c \in Calls : Reached(c)' = Reached(c) /\ outcome'[c] = outcome[c]
  BY <1>2, SameReached
<1>4. \A c \in Calls : \A k \in 1 .. 3 : OnLine(c, k)' <=> OnLine(c, k)
  BY <1>2, LinesStay
<1>5. CallTypes'
  <2>1. \A a \in Callers : Current(a)' = Current(a)
    BY DEF Current
  <2> QED BY <1>1, <1>2, <2>1 DEF CallTypes, CallTypeOK, Fragments
<1>6. LineInv'
  BY <1>1, <1>2, <1>3, LineKept DEF LineInv
<1>7. FreshInv'
  <2>1. \A c \in Calls : \A k \in 1 .. Fragments(c) : k \in 1 .. 3
    BY PlacesOf
  <2>2. /\ \A c \in Calls : \A k \in 1 .. Fragments(c) : OnLine(c, k)' => OnLine(c, k)
        /\ \A c \in Calls : Reached(c)' < Fragments(c) => Reached(c) < Fragments(c)
    BY <1>3, <1>4, <2>1
  <2> QED BY <1>1, <1>2, <2>2, FreshKept
<1>8. PartialInv'
  <2>1. \A c \in Calls : SecondComes(c)' <=> SecondComes(c)
    BY <1>3, <1>4 DEF SecondComes
  <2>2. Long \subseteq Calls
    BY CallAssumption
  <2> QED BY <1>1, <1>2, <1>3, <1>4, <2>1, <2>2, PartialKept
<1>9. RInv'
  BY <1>1, StutterStep
<1> QED BY <1>5, <1>6, <1>7, <1>8, <1>9

(* A late answer to an earlier call is passed over.                        *)
LEMMA AwaitSkipStep ==
  ASSUME CInv, NEW a \in Callers, AwaitSkip(a)
  PROVE  CInv'
<1>1. /\ Polled(a) /\ Head(inbound[a]).corr # Current(a)
      /\ UNCHANGED <<vars, callPc, correlation, sentChunks, body, outcome, cancelSent, outbound>>
  BY DEF AwaitSkip, Receiving, Mine, Polled, callState
<1>2. UNCHANGED <<reply, outbox, started, jobs>>
  BY <1>1 DEF vars, loop, tables, history
<1>3. CallTypes /\ AnswerInv /\ OrderInv /\ body' \in [Callers -> Seq(Calls \X Nat)]
  BY <1>1 DEF CInv, CallTypes, AnswerInv
<1>4. PICK h : h = Head(inbound[a])
  OBVIOUS
<1>5. /\ OrderInv' /\ inbound' \in [Callers -> Seq(Answer)]
      /\ \A c \in Calls : \A p \in Pos : Due(c, p)' => Due(c, p)
      /\ \A c \in Calls : \A p \in Pos :
           Due(c, p) /\ ~(c[1] = a /\ c = h.corr /\ p = Part[h]) => Due(c, p)'
  BY <1>1, <1>2, <1>3, <1>4, AnswerTaken
<1>6. \A c \in Calls : \A p \in Pos : c = Current(c[1]) /\ Due(c, p) => Due(c, p)'
  BY <1>1, <1>4, <1>5
<1>7. AnswerInv'
  <2>1. \A c \in Calls : c = Current(c[1]) /\ callPc'[c[1]] = "awaiting" =>
                            callPc[c[1]] = "awaiting" \/ started[c] = 0
    BY <1>1
  <2> QED BY <1>1, <1>2, <1>3, <1>5, <1>6, <2>1, AnswersKept
<1>8. CallTypes' /\ LineInv' /\ FreshInv' /\ PartialInv' /\ RInv'
  BY <1>1, <1>3, <1>5, AwaitingKeeps
<1> QED BY <1>7, <1>8 DEF CInv

(* The next part of the response: it is the one after those the caller     *)
(* has, for nothing of the response overtakes and nothing is missing.      *)
LEMMA AwaitFragmentStep ==
  ASSUME CInv, NEW a \in Callers, AwaitFragment(a)
  PROVE  CInv'
<1> SUFFICES ASSUME NEW c, c = Current(a), NEW h, h = Head(inbound[a])
             PROVE  CInv'
  OBVIOUS
<1>1. /\ callPc[a] = "awaiting" /\ Polled(a) /\ h.corr = c /\ h.status = "OK"
      /\ body' = [body EXCEPT ![a] = Append(@, <<h.corr, h.part>>)]
      /\ callPc' = [callPc EXCEPT ![a] = IF h.more THEN @ ELSE "idle"]
      /\ outcome' = [outcome EXCEPT ![c] = IF h.more THEN @ ELSE "OK"]
      /\ UNCHANGED <<vars, outbound, correlation, sentChunks, cancelSent>>
  BY DEF AwaitFragment, Receiving, Mine, Polled
<1>2. UNCHANGED <<reply, outbox, started, jobs>>
  BY <1>1 DEF vars, loop, tables, history
<1>3. CallTypes /\ AnswerInv /\ OrderInv
  BY <1>1 DEF CInv, AnswerInv
<1>4. c \in Calls /\ c[1] = a
  BY <1>1, <1>3, CurrentIs
<1>5. /\ OrderInv' /\ inbound' \in [Callers -> Seq(Answer)] /\ h \in Answer
      /\ \A d \in Calls : \A p \in Pos : Due(d, p)' => Due(d, p)
      /\ \A d \in Calls : \A p \in Pos :
           Due(d, p) /\ ~(d[1] = a /\ d = h.corr /\ p = Part[h]) => Due(d, p)'
      /\ h.corr[1] = a /\ Part[h] > 0 =>
           /\ Due(h.corr, Part[h])
           /\ \A p \in Pos : Due(h.corr, p) => p >= Part[h]
           /\ ~Due(h.corr, Part[h])'
  BY <1>1, <1>2, <1>3, AnswerTaken
<1>6. Part[h] = h.part /\ h.part \in Pos
  BY <1>1, <1>5, PartNat
<1>7. /\ Due(c, h.part) /\ ~Due(c, h.part)'
      /\ \A p \in Pos : Due(c, p) => p >= h.part
  <2>1. Part[h] > 0
    BY <1>6 DEF Pos
  <2> QED BY <1>1, <1>4, <1>5, <1>6, <2>1
<1>8. body[a] \in Seq(Calls \X Nat) /\ Len(body[a]) \in Nat
  BY <1>3 DEF CallTypes
<1>9. h.part = Len(body[a]) + 1
  <2>1. h.part > Len(body[a]) /\ (h.part > Len(body[a]) + 1 => Due(c, h.part - 1))
    BY <1>1, <1>3, <1>4, <1>6, <1>7 DEF AnswerInv, GapInv
  <2>2. h.part > Len(body[a]) + 1 => h.part - 1 \in Pos
    BY <1>6, <1>8 DEF Pos
  <2> QED BY <1>6, <1>7, <1>8, <2>1, <2>2 DEF Pos
<1>10. /\ body' \in [Callers -> Seq(Calls \X Nat)]
       /\ body'[a] = Append(body[a], <<c, h.part>>)
       /\ \A v \in Callers : v # a => body'[v] = body[v]
  <2>1. <<c, h.part>> \in Calls \X Nat
    BY <1>4, <1>6 DEF Pos
  <2>2. Append(body[a], <<c, h.part>>) \in Seq(Calls \X Nat)
    BY <1>8, <2>1
  <2>3. body \in [Callers -> Seq(Calls \X Nat)]
    BY <1>3 DEF CallTypes
  <2> QED BY <1>1, <2>2, <2>3
<1>11. /\ Len(body'[a]) = h.part /\ body'[a][h.part] = <<c, h.part>>
       /\ \A i \in 1 .. Len(body[a]) : body'[a][i] = body[a][i]
  BY <1>8, <1>9, <1>10
<1>12. \A v \in Callers : Current(v)' = Current(v)
  BY <1>1 DEF Current
<1>13. ResponseIsOwnAndInOrder'
  <2> SUFFICES ASSUME NEW v \in Callers, NEW i \in 1 .. Len(body'[v])
               PROVE  body'[v][i] = <<Current(v)', i>>
    BY DEF ResponseIsOwnAndInOrder
  <2>1. CASE v # a
    BY <1>3, <1>10, <1>12, <2>1 DEF AnswerInv, ResponseIsOwnAndInOrder
  <2>2. CASE v = a /\ i = h.part
    BY <1>11, <1>12, <2>2
  <2>3. CASE v = a /\ i # h.part
    <3>1. i \in 1 .. Len(body[a])
      BY <1>8, <1>9, <1>11, <2>3
    <3> QED BY <1>3, <1>11, <1>12, <2>3, <3>1 DEF AnswerInv, ResponseIsOwnAndInOrder
  <2> QED BY <2>1, <2>2, <2>3
<1>14. callPc \in [Callers -> {"idle", "sending", "awaiting"}]
  BY <1>3 DEF CallTypes, CallTypeOK
<1>15. UnansweredInv'
  <2> SUFFICES ASSUME NEW d \in Calls, started'[d] = 0 \/ d \in DOMAIN jobs'
               PROVE  /\ \A p \in Pos : ~Due(d, p)'
                      /\ d = Current(d[1])' => body'[d[1]] = <<>>
    BY DEF UnansweredInv
  <2>1. /\ \A p \in Pos : ~Due(d, p)
        /\ d = Current(d[1]) => body[d[1]] = <<>>
    BY <1>2, <1>3 DEF AnswerInv, UnansweredInv
  <2>2. d # c
    BY <1>6, <1>7, <2>1
  <2>3. d[1] \in Callers /\ (d = Current(d[1])' => d[1] # a)
    BY <1>12, <2>2, CallShape
  <2> QED BY <1>5, <1>10, <1>12, <2>1, <2>3
<1>16. GapInv'
  <2> SUFFICES ASSUME NEW d \in Calls, d = Current(d[1])', callPc'[d[1]] = "awaiting",
                      NEW p \in Pos, Due(d, p)'
               PROVE  /\ p > Len(body'[d[1]])
                      /\ p > Len(body'[d[1]]) + 1 => Due(d, p - 1)'
    BY DEF GapInv
  <2>1. d[1] \in Callers /\ d = Current(d[1]) /\ callPc[d[1]] = "awaiting" /\ Due(d, p)
        /\ Len(body[d[1]]) \in Nat
    BY <1>1, <1>3, <1>5, <1>12, <1>14, CallShape DEF CallTypes
  <2>2. /\ p > Len(body[d[1]])
        /\ p > Len(body[d[1]]) + 1 => Due(d, p - 1)
    BY <1>3, <2>1 DEF AnswerInv, GapInv
  <2>3. p > Len(body[d[1]]) + 1 => p - 1 \in Pos
    BY <2>1 DEF Pos
  <2>4. CASE d[1] # a
    BY <1>4, <1>1, <1>5, <1>10, <2>1, <2>2, <2>3, <2>4
  <2>5. CASE d[1] = a
    <3>1. d = c
      BY <2>1, <2>5
    <3>2. p # h.part /\ p >= h.part
      BY <1>7, <2>1, <3>1
    <3>3. p > h.part
      BY <1>6, <3>2 DEF Pos
    <3>4. p > h.part + 1 => p - 1 \in Pos /\ p - 1 # h.part /\ Due(d, p - 1)
      BY <1>6, <1>8, <1>9, <2>2, <2>5 DEF Pos
    <3> QED BY <1>5, <1>6, <1>11, <2>5, <3>3, <3>4
  <2> QED BY <2>4, <2>5
<1>17. AnswerInv'
  BY <1>5, <1>13, <1>15, <1>16 DEF AnswerInv
<1>18. CallTypes' /\ LineInv' /\ FreshInv' /\ PartialInv' /\ RInv'
  <2>1. CASE h.more
    <3>1. UNCHANGED <<callPc, outcome>>
      <4>1. outcome \in [Calls -> {"none", "OK", "failed", "sendFailed", "deadline", "left"}]
        BY <1>3 DEF CallTypes, CallTypeOK
      <4> QED BY <1>1, <1>4, <1>14, <2>1, <4>1
    <3> QED BY <1>1, <1>5, <1>10, <3>1, AwaitingKeeps
  <2>2. CASE ~h.more
    <3>1. Over(a, "OK")
      BY <1>1, <2>2 DEF Over
    <3> QED BY <1>5, <1>10, <3>1, OverKeeps
  <2> QED BY <2>1, <2>2
<1> QED BY <1>17, <1>18 DEF CInv

(* Every step of a caller preserves the invariant.                         *)
LEMMA CallerKeeps ==
  ASSUME CInv, NEW a \in Callers, Call(a) \/ CallerStep(a) \/ AwaitContext(a)
  PROVE  CInv'
<1>1. CASE AwaitDeadline(a)
  BY <1>1, LeaveStep DEF AwaitDeadline
<1>2. CASE AwaitContext(a)
  BY <1>2, LeaveStep DEF AwaitContext
<1>3. CASE AwaitEpoch(a)
  BY <1>3, LeaveStep DEF AwaitEpoch
<1> QED BY <1>1, <1>2, <1>3, CallStep, SendFragmentStep, SendFailsStep, AwaitSkipStep,
           AwaitErrorStep, AwaitFragmentStep DEF CallerStep

-----------------------------------------------------------------------------
(* The steps of the host.                                                  *)

LEMMA HostForwardStep ==
  ASSUME CInv, NEW a \in Callers, HostForward(a)
  PROVE  CInv'
<1>1. /\ Popped(a) /\ inbox' = Append(inbox, Head(outbound[a])) /\ SameCalls
      /\ UNCHANGED <<loop, outbox, tables, world, now, history, body, cancelSent, inbound>>
  BY DEF HostForward, Popped, SameCalls, callState
<1>2. CallTypes /\ LineInv /\ FreshInv /\ PartialInv /\ AnswerInv /\ RInv
  BY DEF CInv
<1>3. /\ LineInv' /\ inbox' \in Seq(Line)
      /\ \A c \in Calls : \A k \in 1 .. 3 : OnLine(c, k)' <=> OnLine(c, k)
  BY <1>1, <1>2, LineForwarded
<1>4. PICK h : h = Head(outbound[a])
  OBVIOUS
<1>5. /\ outbound' \in [Callers -> Seq(Line)]
      /\ \A v \in Callers : \A i \in 1 .. Len(outbound'[v]) : outbound'[v][i].corr[1] = v
  BY <1>1, <1>2, <1>4, RingTaken
<1>6. UNCHANGED <<outbox, inbound, reply, started, jobs, assemblies, pc, body, correlation, callPc>>
  BY <1>1 DEF loop, tables, history, SameCalls
<1>7. \A c \in Calls : Reached(c)' = Reached(c) /\ outcome'[c] = outcome[c]
  BY <1>1, SameReached
<1>8. CallTypes'
  <2>1. \A v \in Callers : Current(v)' = Current(v)
    BY <1>6 DEF Current
  <2>2. CallTypeOK'
    BY <1>1, <1>2 DEF CallTypes, CallTypeOK, SameCalls
  <2>3. \A v \in Callers : callPc'[v] = "sending" => sentChunks'[v] < Fragments(Current(v)')
    BY <1>1, <1>2, <2>1 DEF CallTypes, SameCalls
  <2> QED BY <1>2, <1>3, <1>5, <1>6, <2>2, <2>3 DEF CallTypes, Fragments
<1>9. FreshInv'
  BY <1>2, <1>3, <1>6, <1>7, PlacesOf, FreshKept
<1>10. PartialInv'
  <2>1. \A c \in Calls : SecondComes(c)' <=> SecondComes(c)
    BY <1>3, <1>7 DEF SecondComes
  <2>2. Long \subseteq Calls
    BY CallAssumption
  <2> QED BY <1>2, <1>3, <1>6, <1>7, <2>1, <2>2, PartialKept
<1>11. AnswerInv'
  <2>1. OrderInv' /\ \A c \in Calls : \A p \in Pos : Due(c, p)' <=> Due(c, p)
    BY <1>2, <1>6, AnswersStay DEF AnswerInv
  <2> QED BY <1>2, <1>6, <2>1, AnswersKept
<1>12. RInv'
  <2>1. Line \subseteq Frames
    BY LineFrame
  <2>2. inbox' \in Seq(Frames)
    BY <1>3, <2>1
  <2>3. /\ ctxDone' \in BOOLEAN /\ epochChanged' \in BOOLEAN /\ expired' \subseteq Calls
        /\ epochChanged => epochChanged'
        /\ outbox' \in Seq([corr : Calls, status : Statuses, part : Nat, more : BOOLEAN])
    BY <1>1, <1>2 DEF RInv, TypeOK, world
  <2> QED BY <1>1, <1>2, <2>2, <2>3, WorldStep
<1> QED BY <1>3, <1>8, <1>9, <1>10, <1>11, <1>12 DEF CInv

(* The module has exited: the host answers for it or drops the frame.      *)
LEMMA HostAbsentStep ==
  ASSUME CInv, NEW a \in Callers, HostAbsent(a)
  PROVE  CInv'
<1> SUFFICES ASSUME NEW f, f = Head(outbound[a]),
                    NEW r, r = [corr |-> f.corr, status |-> "CapabilityAbsent",
                                part |-> 1, more |-> FALSE]
             PROVE  CInv'
  OBVIOUS
<1>1. /\ pc = "exited" /\ Popped(a) /\ SameCalls
      /\ inbound' = inbound \/ inbound' = [inbound EXCEPT ![a] = Append(@, r)]
      /\ UNCHANGED <<vars, body, cancelSent>>
  BY DEF HostAbsent, Popped, SameCalls, callState
<1>2. CallTypes /\ LineInv /\ FreshInv /\ PartialInv /\ AnswerInv /\ RInv
  BY DEF CInv
<1>3. UNCHANGED <<inbox, outbox, reply, started, jobs, assemblies, pc, body, correlation, callPc>>
  BY <1>1 DEF vars, loop, tables, history, SameCalls
<1>4. LineInv' /\ \A c \in Calls : \A k \in 1 .. 3 : OnLine(c, k)' => OnLine(c, k)
  BY <1>1, <1>2, <1>3, LineDropped
<1>5. /\ outbound' \in [Callers -> Seq(Line)] /\ f.corr \in Calls /\ f.corr[1] = a
      /\ \A v \in Callers : \A i \in 1 .. Len(outbound'[v]) : outbound'[v][i].corr[1] = v
  BY <1>1, <1>2, RingTaken
<1>6. r \in Answer /\ r.status # "OK" /\ r.corr[1] = a
  BY <1>5 DEF Answer, Pos
<1>7. /\ OrderInv' /\ inbound' \in [Callers -> Seq(Answer)]
      /\ \A c \in Calls : \A p \in Pos : Due(c, p)' <=> Due(c, p)
  <2>1. CASE inbound' = inbound
    <3>1. inbound' \in [Callers -> Seq(Answer)]
      BY <1>2, <2>1 DEF CallTypes
    <3> QED BY <1>2, <1>3, <2>1, <3>1, AnswersStay DEF AnswerInv
  <2>2. CASE inbound' = [inbound EXCEPT ![a] = Append(@, r)]
    <3>1. Delivered(r) /\ OrderInv
      BY <1>2, <1>6, <2>2 DEF Delivered, AnswerInv
    <3> QED BY <1>2, <1>3, <1>6, <3>1, AnswerRefused
  <2> QED BY <1>1, <2>1, <2>2
<1>8. \A c \in Calls : Reached(c)' = Reached(c) /\ outcome'[c] = outcome[c]
  BY <1>1, SameReached
<1>9. CallTypes'
  <2>1. \A v \in Callers : Current(v)' = Current(v)
    BY <1>3 DEF Current
  <2>2. CallTypeOK'
    BY <1>1, <1>2 DEF CallTypes, CallTypeOK, SameCalls
  <2>3. \A v \in Callers : callPc'[v] = "sending" => sentChunks'[v] < Fragments(Current(v)')
    BY <1>1, <1>2, <2>1 DEF CallTypes, SameCalls
  <2> QED BY <1>2, <1>3, <1>5, <1>7, <2>2, <2>3 DEF CallTypes, Fragments
<1>10. FreshInv'
  BY <1>2, <1>3, <1>4, <1>8, PlacesOf, FreshKept
<1>11. PartialInv'
  BY <1>1, <1>3 DEF PartialInv
<1>12. AnswerInv'
  BY <1>2, <1>3, <1>7, AnswersKept
<1>13. RInv'
  BY <1>1, <1>2, StutterStep
<1> QED BY <1>4, <1>9, <1>10, <1>11, <1>12, <1>13 DEF CInv

LEMMA HostReturnStep ==
  ASSUME CInv, HostReturn
  PROVE  CInv'
<1>1. /\ outbox # <<>> /\ outbox' = Tail(outbox) /\ Delivered(Head(outbox)) /\ SameCalls
      /\ UNCHANGED <<loop, inbox, tables, world, now, history, body, cancelSent, outbound>>
  BY DEF HostReturn, Delivered, SameCalls, callState
<1>2. CallTypes /\ LineInv /\ FreshInv /\ PartialInv /\ AnswerInv /\ RInv
  BY DEF CInv
<1>3. UNCHANGED <<inbox, outbound, reply, started, jobs, assemblies, pc, body, correlation, callPc>>
  BY <1>1 DEF loop, tables, history, SameCalls
<1>4. /\ OrderInv' /\ inbound' \in [Callers -> Seq(Answer)] /\ outbox' \in Seq(Answer)
      /\ \A c \in Calls : \A p \in Pos : Due(c, p)' <=> Due(c, p)
  BY <1>1, <1>2, <1>3, AnswerReturned DEF AnswerInv
<1>5. \A c \in Calls : \A k \in 1 .. 3 : OnLine(c, k)' <=> OnLine(c, k)
  BY <1>3, LinesStay
<1>6. \A c \in Calls : Reached(c)' = Reached(c) /\ outcome'[c] = outcome[c]
  BY <1>1, SameReached
<1>7. CallTypes'
  <2>1. \A v \in Callers : Current(v)' = Current(v)
    BY <1>3 DEF Current
  <2>2. CallTypeOK'
    BY <1>1, <1>2 DEF CallTypes, CallTypeOK, SameCalls
  <2>3. \A v \in Callers : callPc'[v] = "sending" => sentChunks'[v] < Fragments(Current(v)')
    BY <1>1, <1>2, <2>1 DEF CallTypes, SameCalls
  <2> QED BY <1>2, <1>3, <1>4, <2>2, <2>3 DEF CallTypes, Fragments
<1>8. LineInv'
  BY <1>2, <1>3, <1>6, LineKept DEF LineInv
<1>9. FreshInv'
  BY <1>2, <1>3, <1>5, <1>6, PlacesOf, FreshKept
<1>10. PartialInv'
  <2>1. \A c \in Calls : SecondComes(c)' <=> SecondComes(c)
    BY <1>5, <1>6 DEF SecondComes
  <2>2. Long \subseteq Calls
    BY CallAssumption
  <2>3. \A c \in Calls : OnLine(c, 1)' => OnLine(c, 1)
    BY <1>5
  <2> QED BY <1>2, <1>3, <1>6, <2>1, <2>2, <2>3, PartialKept
<1>11. AnswerInv'
  BY <1>2, <1>3, <1>4, AnswersKept
<1>12. RInv'
  <2> DEFINE Out == [corr : Calls, status : Statuses, part : Nat, more : BOOLEAN]
  <2>1. outbox \in Seq(Out)
    BY <1>2 DEF RInv, TypeOK
  <2> HIDE DEF Out
  <2>2. outbox' \in Seq(Out)
    BY <1>1, <2>1
  <2>3. /\ ctxDone' \in BOOLEAN /\ epochChanged' \in BOOLEAN /\ expired' \subseteq Calls
        /\ inbox' \in Seq(Frames)
        /\ epochChanged => epochChanged'
    BY <1>1, <1>2 DEF RInv, TypeOK, world, Frames
  <2> QED BY <1>1, <1>2, <2>2, <2>3, WorldStep DEF Out
<1> QED BY <1>7, <1>8, <1>9, <1>10, <1>11, <1>12 DEF CInv

LEMMA HostKeeps ==
  ASSUME CInv, HostStep
  PROVE  CInv'
BY HostForwardStep, HostAbsentStep, HostReturnStep DEF HostStep

-----------------------------------------------------------------------------
(* The steps of the serve loop, its handlers and its environment.          *)

(* None of them touches the callers.                                       *)
LEMMA LoopTypes ==
  ASSUME CallTypes, UNCHANGED callVars, inbox' \in Seq(Line), outbox' \in Seq(Answer),
         \A i \in 1 .. Len(reply') : reply'[i].part > 0
  PROVE  CallTypes'
<1>1. UNCHANGED <<callPc, correlation, sentChunks, body, outcome, cancelSent, outbound, inbound>>
  BY DEF callVars, callState
<1>2. \A v \in Callers : Current(v)' = Current(v)
  BY <1>1 DEF Current
<1>3. CallTypeOK'
  BY <1>1 DEF CallTypes, CallTypeOK
<1>4. \A v \in Callers : callPc'[v] = "sending" => sentChunks'[v] < Fragments(Current(v)')
  BY <1>1, <1>2 DEF CallTypes
<1> QED BY <1>1, <1>3, <1>4 DEF CallTypes, Fragments

(* The loop turns to the answers; the lines of requests stay as they are.  *)
LEMMA ReplyingKeeps ==
  ASSUME CInv, RInv', UNCHANGED <<inbox, assemblies, started, callVars>>,
         outbox' \in Seq(Answer), \A i \in 1 .. Len(reply') : reply'[i].part > 0,
         AnswerInv', pc = "exited" => pc' = "exited"
  PROVE  CInv'
<1>1. CallTypes /\ LineInv /\ FreshInv /\ PartialInv
  BY DEF CInv
<1>2. UNCHANGED <<outbound, correlation, callPc>> /\ SameCalls
  BY DEF callVars, callState, SameCalls
<1>3. CallTypes'
  <2>1. inbox' \in Seq(Line)
    BY <1>1 DEF CallTypes
  <2> QED BY <1>1, <2>1, LoopTypes
<1>4. \A c \in Calls : Reached(c)' = Reached(c) /\ outcome'[c] = outcome[c]
  BY <1>2, SameReached
<1>5. \A c \in Calls : \A k \in 1 .. 3 : OnLine(c, k)' <=> OnLine(c, k)
  BY <1>2, LinesStay
<1>6. LineInv'
  BY <1>1, <1>2, <1>4, LineKept DEF LineInv
<1>7. FreshInv'
  BY <1>1, <1>4, <1>5, PlacesOf, FreshKept
<1>8. PartialInv'
  <2>1. \A c \in Calls : SecondComes(c)' <=> SecondComes(c)
    BY <1>4, <1>5 DEF SecondComes
  <2>2. Long \subseteq Calls
    BY CallAssumption
  <2>3. \A c \in Calls : OnLine(c, 1)' => OnLine(c, 1)
    BY <1>5
  <2> QED BY <1>1, <1>4, <2>1, <2>2, <2>3, PartialKept
<1> QED BY <1>3, <1>6, <1>7, <1>8 DEF CInv

(* Steps that take no frame, start no handler and answer nothing.          *)
LEMMA QuietStep ==
  ASSUME CInv, RInv', UNCHANGED <<inbox, outbox, reply, assemblies, started, callVars>>,
         DOMAIN jobs' \subseteq DOMAIN jobs, pc = "exited" => pc' = "exited"
  PROVE  CInv'
<1>1. CallTypes /\ AnswerInv
  BY DEF CInv
<1>2. UNCHANGED <<inbound, body, correlation, callPc>>
  BY DEF callVars, callState
<1>3. outbox' \in Seq(Answer) /\ \A i \in 1 .. Len(reply') : reply'[i].part > 0
  BY <1>1 DEF CallTypes
<1>4. OrderInv' /\ \A c \in Calls : \A p \in Pos : Due(c, p)' <=> Due(c, p)
  BY <1>1, <1>2, AnswersStay DEF AnswerInv
<1>5. AnswerInv'
  BY <1>1, <1>2, <1>4, AnswersKept
<1> QED BY <1>3, <1>5, ReplyingKeeps

(* A handler's result becomes the reply: its call had no response so far.  *)
LEMMA FinishWorkKeeps ==
  ASSUME CInv, FinishWork, UNCHANGED callVars
  PROVE  CInv'
<1> SUFFICES ASSUME NEW h, h = Head(done)
             PROVE  CInv'
  OBVIOUS
<1>1. /\ pc = "top" /\ pc' = "reply" /\ done # <<>>
      /\ done' = Tail(done) /\ jobs' = Without(jobs, h.corr)
      /\ reply' = <<[corr |-> h.corr, status |-> h.status, part |-> 1, size |-> h.size,
                     handled |-> TRUE]>>
      /\ UNCHANGED <<inbox, outbox, assemblies, started>>
  BY DEF FinishWork, StartReply, history
<1>2. CallTypes /\ AnswerInv /\ OrderInv /\ RInv
  BY DEF CInv, AnswerInv
<1>3. /\ h.corr \in DOMAIN jobs /\ h \in Result /\ DOMAIN jobs' = DOMAIN jobs \ {h.corr}
  BY <1>1, <1>2, TakeResult DEF RInv
<1>4. h.corr \in Calls
  BY <1>3 DEF Result
<1>5. reply = <<>>
  BY <1>1, <1>2 DEF RInv, ReplyInv
<1>6. started[h.corr] # 0
  <2>1. started[h.corr] = answered[h.corr] + 1
    BY <1>1, <1>2, <1>3, <1>4, <1>5 DEF RInv, HandlersAccounted, TypeOK
  <2>2. answered[h.corr] \in Nat
    BY <1>2, <1>4 DEF RInv, TypeOK
  <2> QED BY <2>1, <2>2
<1>7. UNCHANGED <<inbound, body, correlation, callPc>>
  BY DEF callVars, callState
<1>8. /\ \A p \in Pos : ~Due(h.corr, p)
      /\ h.corr = Current(h.corr[1]) => body[h.corr[1]] = <<>>
  BY <1>2, <1>3, <1>4 DEF AnswerInv, UnansweredInv
<1>9. \A c : \A p : ~Replying(c, p)
  BY <1>5 DEF Replying
<1>10. Len(reply') = 1 /\ reply'[1].corr = h.corr /\ reply'[1].part = 1
  BY <1>1
<1>11. \A c : \A p : Replying(c, p)' => c = h.corr /\ p = 1
  BY <1>10 DEF Replying
<1>12. ASSUME NEW c \in Calls, NEW p \in Pos
       PROVE  /\ Has(inbound[c[1]], Part, c, p)' <=> Has(inbound[c[1]], Part, c, p)
              /\ Has(outbox, Part, c, p)' <=> Has(outbox, Part, c, p)
  <2>1. Has(inbound'[c[1]], Part, c, p) <=> Has(inbound[c[1]], Part, c, p)
    BY <1>7
  <2>2. Has(outbox', Part, c, p) <=> Has(outbox, Part, c, p)
    BY <1>1
  <2> QED BY <2>1, <2>2
<1>13. /\ \A c \in Calls : \A p \in Pos : c # h.corr => (Due(c, p)' <=> Due(c, p))
       /\ \A p \in Pos : Due(h.corr, p)' => p = 1
  BY <1>4, <1>8, <1>9, <1>11, <1>12 DEF Due
<1>14. OrderInv'
  <2>1. Ranked(outbox', Part) /\ \A a \in Callers : Ranked(inbound'[a], Part)
    BY <1>1, <1>2, <1>7 DEF OrderInv
  <2>2. \A c \in Calls : \A p, q \in Pos :
          /\ Has(inbound[c[1]], Part, c, p)' /\ Has(outbox, Part, c, q)' => p < q
          /\ (Has(inbound[c[1]], Part, c, p)' \/ Has(outbox, Part, c, p)') /\ Replying(c, q)'
               => p < q
    BY <1>2, <1>8, <1>11, <1>12 DEF OrderInv, Due
  <2> QED BY <2>1, <2>2 DEF OrderInv
<1>15. \A a \in Callers : Current(a)' = Current(a)
  BY <1>7 DEF Current
<1>16. UnansweredInv'
  <2> SUFFICES ASSUME NEW c \in Calls, started'[c] = 0 \/ c \in DOMAIN jobs'
               PROVE  /\ \A p \in Pos : ~Due(c, p)'
                      /\ c = Current(c[1])' => body'[c[1]] = <<>>
    BY DEF UnansweredInv
  <2>1. c # h.corr /\ (started[c] = 0 \/ c \in DOMAIN jobs)
    BY <1>1, <1>3, <1>6
  <2>2. c[1] \in Callers
    BY CallShape
  <2> QED BY <1>2, <1>7, <1>13, <1>15, <2>1, <2>2 DEF AnswerInv, UnansweredInv
<1>17. GapInv'
  <2> SUFFICES ASSUME NEW c \in Calls, c = Current(c[1])', callPc'[c[1]] = "awaiting",
                      NEW p \in Pos, Due(c, p)'
               PROVE  /\ p > Len(body'[c[1]])
                      /\ p > Len(body'[c[1]]) + 1 => Due(c, p - 1)'
    BY DEF GapInv
  <2>1. c[1] \in Callers /\ Len(body[c[1]]) \in Nat
    BY <1>2, CallShape DEF CallTypes
  <2>2. CASE c = h.corr
    <3>1. p = 1 /\ body'[c[1]] = <<>>
      BY <1>7, <1>8, <1>13, <1>15, <2>1, <2>2
    <3> QED BY <3>1
  <2>3. CASE c # h.corr
    <3>1. p > Len(body[c[1]]) + 1 => p - 1 \in Pos
      BY <2>1 DEF Pos
    <3> QED BY <1>2, <1>7, <1>13, <1>15, <2>1, <2>3, <3>1 DEF AnswerInv, GapInv
  <2> QED BY <2>2, <2>3
<1>18. ResponseIsOwnAndInOrder'
  BY <1>2, <1>7, <1>15 DEF AnswerInv, ResponseIsOwnAndInOrder
<1>19. RInv' /\ outbox' \in Seq(Answer)
  BY <1>1, <1>2, FinishWorkStep DEF CallTypes
<1>20. AnswerInv'
  BY <1>14, <1>16, <1>17, <1>18 DEF AnswerInv
<1> QED BY <1>1, <1>10, <1>19, <1>20, ReplyingKeeps

(* One part of the response is published; the next one follows it.         *)
LEMMA ReplyFragmentKeeps ==
  ASSUME CInv, ReplyFragment, UNCHANGED callVars
  PROVE  CInv'
<1> SUFFICES ASSUME NEW r, r = reply[1], NEW last, last = (r.part = r.size),
                    NEW f, f = [corr |-> r.corr, status |-> r.status, part |-> r.part, more |-> ~last]
             PROVE  CInv'
  OBVIOUS
<1>1. /\ pc = "reply" /\ pc' # "exited"
      /\ outbox' = Append(outbox, f)
      /\ reply' = IF last THEN <<>> ELSE <<[r EXCEPT !.part = @ + 1]>>
      /\ UNCHANGED <<inbox, assemblies, started, jobs>>
  BY DEF ReplyFragment, tables
<1>2. CallTypes /\ AnswerInv /\ OrderInv /\ RInv
  BY DEF CInv, AnswerInv
<1>3. UNCHANGED <<inbound, body, correlation, callPc>>
  BY DEF callVars, callState
<1>4. Len(reply) = 1 /\ reply \in Seq(Reply)
  BY <1>1, <1>2 DEF RInv, ReplyInv, TypeOK
<1>5. r \in Reply /\ last \in BOOLEAN
  <2>1. last \in BOOLEAN
    OBVIOUS
  <2>2. r \in Reply
    BY <1>4, SMTT(40)
  <2> QED BY <2>1, <2>2
<1>6. r.part \in Pos /\ r.part + 1 \in Pos /\ r.corr \in Calls /\ r.status \in Statuses
  <2>1. reply[1].part > 0
    BY <1>2, <1>4 DEF CallTypes
  <2> QED BY <1>5, <2>1 DEF Reply, Pos
<1>7. /\ f \in Answer /\ f.corr = r.corr /\ f.status = r.status /\ f.part = r.part
  BY <1>5, <1>6 DEF Answer
<1>8. /\ OrderInv' /\ outbox' \in Seq(Answer)
      /\ \A i \in 1 .. Len(reply') : reply'[i].part > 0
      /\ \A c \in Calls : \A p \in Pos : Due(c, p)' <=>
           \/ Due(c, p)
           \/ c = r.corr /\ r.status = "OK" /\ ~last /\ p = r.part + 1
  BY <1>1, <1>2, <1>3, <1>4, <1>5, <1>7, AnswerSent
<1>9. r.status = "OK" => Due(r.corr, r.part)
  BY <1>4 DEF Due, Replying
<1>10. \A a \in Callers : Current(a)' = Current(a)
  BY <1>3 DEF Current
<1>11. UnansweredInv'
  <2> SUFFICES ASSUME NEW c \in Calls, started'[c] = 0 \/ c \in DOMAIN jobs'
               PROVE  /\ \A p \in Pos : ~Due(c, p)'
                      /\ c = Current(c[1])' => body'[c[1]] = <<>>
    BY DEF UnansweredInv
  <2>1. /\ \A p \in Pos : ~Due(c, p)
        /\ c = Current(c[1]) => body[c[1]] = <<>>
    BY <1>1, <1>2 DEF AnswerInv, UnansweredInv
  <2>2. c[1] \in Callers
    BY CallShape
  <2> QED BY <1>3, <1>6, <1>8, <1>9, <1>10, <2>1, <2>2
<1>12. GapInv'
  <2> SUFFICES ASSUME NEW c \in Calls, c = Current(c[1])', callPc'[c[1]] = "awaiting",
                      NEW p \in Pos, Due(c, p)'
               PROVE  /\ p > Len(body'[c[1]])
                      /\ p > Len(body'[c[1]]) + 1 => Due(c, p - 1)'
    BY DEF GapInv
  <2>1. c[1] \in Callers /\ Len(body[c[1]]) \in Nat
    BY <1>2, CallShape DEF CallTypes
  <2>2. ASSUME NEW q \in Pos, Due(c, q)
        PROVE  q > Len(body[c[1]]) /\ (q > Len(body[c[1]]) + 1 => Due(c, q - 1))
    BY <1>2, <1>3, <1>10, <2>1, <2>2 DEF AnswerInv, GapInv
  <2>3. CASE Due(c, p)
    <3>1. p > Len(body[c[1]]) + 1 => p - 1 \in Pos
      BY <2>1 DEF Pos
    <3> QED BY <1>3, <1>8, <2>2, <2>3, <3>1
  <2>4. CASE c = r.corr /\ r.status = "OK" /\ p = r.part + 1
    <3>1. Due(c, r.part) /\ p - 1 = r.part
      BY <1>6, <1>9, <2>4 DEF Pos
    <3>2. r.part > Len(body[c[1]])
      BY <1>6, <2>2, <3>1
    <3>3. Due(c, r.part)'
      BY <1>6, <1>8, <3>1
    <3>4. p > Len(body[c[1]])
      BY <1>6, <2>1, <2>4, <3>2 DEF Pos
    <3> QED BY <1>3, <3>1, <3>3, <3>4
  <2> QED BY <1>8, <2>3, <2>4
<1>13. ResponseIsOwnAndInOrder'
  BY <1>2, <1>3, <1>10 DEF AnswerInv, ResponseIsOwnAndInOrder
<1>14. AnswerInv'
  BY <1>8, <1>11, <1>12, <1>13 DEF AnswerInv
<1>15. RInv'
  BY <1>2, ReplyFragmentStep
<1> QED BY <1>1, <1>8, <1>14, <1>15, ReplyingKeeps

(* The loop takes a frame and answers nothing, or refuses: the answers to  *)
(* come are the same.                                                      *)
LEMMA RefusedAnswers ==
  ASSUME OrderInv, reply = <<>>, UNCHANGED <<outbox, inbound>>,
         reply' = <<>> \/ (Len(reply') = 1 /\ reply'[1].status # "OK")
  PROVE  OrderInv' /\ \A c \in Calls : \A p \in Pos : Due(c, p)' <=> Due(c, p)
<1>1. \A c : \A p : ~Replying(c, p) /\ ~Replying(c, p)'
  BY DEF Replying
<1>2. ASSUME NEW c \in Calls, NEW p \in Pos
      PROVE  /\ Has(inbound[c[1]], Part, c, p)' <=> Has(inbound[c[1]], Part, c, p)
             /\ Has(outbox, Part, c, p)' <=> Has(outbox, Part, c, p)
  <2>1. /\ Has(outbox', Part, c, p) <=> Has(outbox, Part, c, p)
        /\ Has(inbound'[c[1]], Part, c, p) <=> Has(inbound[c[1]], Part, c, p)
    OBVIOUS
  <2> QED BY <2>1
<1>3. Ranked(outbox', Part) /\ \A a \in Callers : Ranked(inbound'[a], Part)
  BY DEF OrderInv
<1>4. \A c \in Calls : \A p, q \in Pos :
         /\ Has(inbound[c[1]], Part, c, p)' /\ Has(outbox, Part, c, q)' => p < q
         /\ (Has(inbound[c[1]], Part, c, p)' \/ Has(outbox, Part, c, p)') /\ Replying(c, q)'
              => p < q
  BY <1>1, <1>2 DEF OrderInv
<1> QED BY <1>1, <1>2, <1>3, <1>4 DEF OrderInv, Due

-----------------------------------------------------------------------------
(* The loop takes a frame of call c.                                       *)

(* The assembly of c goes, or there was none.                              *)
Dropped(c) ==
    /\ DOMAIN assemblies' \subseteq DOMAIN assemblies \ {c}
    /\ \A d \in DOMAIN assemblies' : assemblies'[d] = assemblies[d]

(* The frame is the first of two and makes an assembly.                    *)
Opened(c, place) ==
    /\ c \in Long /\ place = 1
    /\ DOMAIN assemblies' = DOMAIN assemblies \cup {c}
    /\ assemblies'[c] = <<1>>
    /\ \A d \in DOMAIN assemblies : d # c => assemblies'[d] = assemblies[d]

(* The frame is the last of its request and starts the handler.            *)
Launched(c, place) ==
    /\ place = Fragments(c)
    /\ \A d \in Calls : d # c => started'[d] = started[d]
    /\ DOMAIN jobs' \subseteq DOMAIN jobs \cup {c}

LEMMA TakenKeeps ==
  ASSUME CInv, RInv', pc = "poll", inbox # <<>>, inbox' = Tail(inbox),
         UNCHANGED <<outbox, callVars>>,
         \/ reply' = <<>>
         \/ Len(reply') = 1 /\ reply'[1].status # "OK" /\ reply'[1].part = 1,
         NEW h, h = Head(inbox), NEW c, c = h.corr,
         Dropped(c) \/ Opened(c, Place[h]),
         \/ started' = started /\ DOMAIN jobs' \subseteq DOMAIN jobs
         \/ Launched(c, Place[h])
  PROVE  CInv'
<1>1. CallTypes /\ LineInv /\ FreshInv /\ PartialInv /\ AnswerInv /\ RInv
  BY DEF CInv
<1>2. UNCHANGED <<outbound, inbound, body, correlation, callPc>> /\ SameCalls
  BY DEF callVars, callState, SameCalls
<1>3. /\ LineInv' /\ inbox' \in Seq(Line) /\ h \in Line /\ OnLine(c, Place[h])
      /\ \A k \in 1 .. 3 : OnLine(c, k) => k >= Place[h]
      /\ \A d \in Calls : \A k \in 1 .. 3 :
           OnLine(d, k)' <=> OnLine(d, k) /\ ~(d = c /\ k = Place[h])
  BY <1>1, <1>2, LineTaken
<1>4. c \in Calls /\ Place[h] \in 1 .. 3 /\ Fragments(c) \in {1, 2} /\ Long \subseteq Calls
  BY <1>3, LineFrame, CallShape, CallAssumption
<1>5. Place[h] <= Reached(c) /\ Reached(c) \in 0 .. 3
  BY <1>1, <1>3, <1>4, ReachedIs DEF LineInv
<1>6. \A d \in Calls : Reached(d)' = Reached(d) /\ outcome'[d] = outcome[d]
  BY <1>2, SameReached
<1>7. CallTypes'
  <2>1. outbox' \in Seq(Answer) /\ \A i \in 1 .. Len(reply') : reply'[i].part > 0
    BY <1>1 DEF CallTypes
  <2> QED BY <1>1, <1>3, <2>1, LoopTypes
<1>8. \A d \in Calls : \A k \in 1 .. 3 : OnLine(d, k)' => OnLine(d, k)
  BY <1>3
<1>9. FreshInv'
  <2>1. CASE started' = started
    BY <1>1, <1>6, <1>8, <2>1, PlacesOf, FreshKept
  <2>2. CASE Launched(c, Place[h])
    <3> SUFFICES ASSUME NEW d \in Calls,
                        Reached(d)' < Fragments(d) \/ \E k \in 1 .. Fragments(d) : OnLine(d, k)'
                 PROVE  started'[d] = 0
      BY DEF FreshInv, Fragments
    <3>1. d # c
      <4>1. ~(Reached(c)' < Fragments(c))
        BY <1>4, <1>5, <1>6, <2>2 DEF Launched
      <4>2. ASSUME NEW k \in 1 .. Fragments(c), OnLine(c, k)' PROVE FALSE
        <5>1. k \in 1 .. 3 /\ k <= Place[h]
          BY <1>4, <2>2, PlacesOf DEF Launched
        <5>2. OnLine(c, k) /\ k # Place[h]
          BY <1>3, <1>4, <4>2, <5>1
        <5> QED BY <1>3, <1>4, <5>1, <5>2
      <4> QED BY <4>1, <4>2
    <3>2. Reached(d) < Fragments(d) \/ \E k \in 1 .. Fragments(d) : OnLine(d, k)
      BY <1>6, <1>8, PlacesOf
    <3> QED BY <1>1, <2>2, <3>1, <3>2 DEF FreshInv, Launched
  <2> QED BY <2>1, <2>2
<1>10. PartialInv'
  <2> SUFFICES ASSUME NEW d \in Calls
               PROVE  /\ d \in DOMAIN assemblies' =>
                         d \in Long /\ assemblies'[d] = <<1>> /\ ~OnLine(d, 1)' /\ Reached(d)' >= 1
                      /\ d \in DOMAIN assemblies' \/ (d \in Long /\ OnLine(d, 1)') => SecondComes(d)'
    BY DEF PartialInv
  <2>1. /\ d \in DOMAIN assemblies =>
             d \in Long /\ assemblies[d] = <<1>> /\ ~OnLine(d, 1) /\ Reached(d) >= 1
        /\ d \in DOMAIN assemblies \/ (d \in Long /\ OnLine(d, 1)) => SecondComes(d)
    BY <1>1 DEF PartialInv
  <2>2. ~OnLine(c, 1)'
    <3>1. OnLine(c, 1) => Place[h] = 1
      BY <1>3, <1>4
    <3> QED BY <1>3, <1>4, <3>1
  <2>3. CASE d # c
    <3>1. SecondComes(d)' <=> SecondComes(d)
      BY <1>3, <1>6, <2>3 DEF SecondComes
    <3>2. d \in DOMAIN assemblies' => d \in DOMAIN assemblies /\ assemblies'[d] = assemblies[d]
      BY <2>3 DEF Dropped, Opened
    <3> QED BY <1>6, <1>8, <2>1, <3>1, <3>2
  <2>4. CASE d = c /\ Dropped(c)
    BY <2>2, <2>4 DEF Dropped
  <2>5. CASE d = c /\ Opened(c, Place[h])
    <3>1. c \in Long /\ Place[h] = 1 /\ assemblies'[c] = <<1>>
      BY <2>5 DEF Opened
    <3>2. SecondComes(c)
      BY <1>3, <2>1, <2>5, <3>1
    <3>3. SecondComes(c)'
      BY <1>3, <1>4, <1>6, <3>1, <3>2 DEF SecondComes
    <3> QED BY <1>5, <1>6, <2>2, <2>5, <3>1, <3>3
  <2> QED BY <2>3, <2>4, <2>5
<1>11. AnswerInv'
  <2>1. reply = <<>>
    BY <1>1 DEF RInv, ReplyInv
  <2>2. OrderInv' /\ \A d \in Calls : \A p \in Pos : Due(d, p)' <=> Due(d, p)
    BY <1>1, <1>2, <2>1, RefusedAnswers DEF AnswerInv
  <2>3. ASSUME Launched(c, Place[h]) PROVE started[c] = 0
    <3>1. Place[h] \in 1 .. Fragments(c)
      BY <1>4, <2>3 DEF Launched
    <3> QED BY <1>1, <1>3, <1>4, <3>1 DEF FreshInv
  <2>4. \A d \in Calls : started'[d] = 0 \/ d \in DOMAIN jobs' =>
                           started[d] = 0 \/ d \in DOMAIN jobs
    BY <2>3 DEF Launched
  <2> QED BY <1>1, <1>2, <2>2, <2>4, AnswersKept
<1> QED BY <1>3, <1>7, <1>9, <1>10, <1>11 DEF CInv

(* A refused frame's reply.                                                *)
LEMMA RefuseIs ==
  ASSUME NEW c, NEW st, Refuse(c, st), st # "OK"
  PROVE  Len(reply') = 1 /\ reply'[1].status # "OK" /\ reply'[1].part = 1
BY DEF Refuse, StartReply

(* What the loop takes is a fragment it assembles, the only one of its     *)
(* call that could come now, or a cancel.                                  *)
LEMMA TakenIs ==
  ASSUME CInv, pc = "poll", inbox # <<>>, NEW h, h = Head(inbox), NEW c, c = h.corr
  PROVE  /\ h \in Line /\ c \in Calls /\ h.type # "other"
         /\ h.type = "request" =>
              /\ h.valid /\ c \notin DOMAIN jobs /\ h.chunk = Place[h]
              /\ h.chunk \in 1 .. Fragments(c)
              /\ h.more <=> h.chunk < Fragments(c)
              /\ h.chunk = 1 => c \notin DOMAIN assemblies
<1>1. CallTypes /\ LineInv /\ FreshInv /\ PartialInv /\ RInv
  BY DEF CInv
<1>2. inbox \in Seq(Line)
  BY <1>1 DEF CallTypes
<1>3. h \in Line /\ h = inbox[1] /\ 1 \in 1 .. Len(inbox)
  BY <1>2
<1>4. /\ c \in Calls /\ h.type \in {"request", "cancel"} /\ Place[h] \in 1 .. 3
      /\ h.type = "request" =>
           /\ h.valid /\ h.chunk = Place[h] /\ Place[h] \in 1 .. Fragments(c)
           /\ h.more <=> Place[h] < Fragments(c)
  BY <1>3, LineFrame
<1>5. OnLine(c, Place[h])
  BY <1>3 DEF OnLine, Has
<1>6. ASSUME h.type = "request" PROVE c \notin DOMAIN jobs
  <2>1. started[c] = 0
    BY <1>1, <1>4, <1>5, <1>6 DEF FreshInv
  <2>2. reply = <<>>
    BY <1>1 DEF RInv, ReplyInv
  <2>3. started[c] = answered[c] + (IF c \in DOMAIN jobs THEN 1 ELSE 0)
        /\ answered[c] \in Nat
    BY <1>1, <1>4, <2>2 DEF RInv, HandlersAccounted, TypeOK
  <2> QED BY <2>1, <2>3
<1>7. h.type = "request" /\ h.chunk = 1 => c \notin DOMAIN assemblies
  BY <1>1, <1>4, <1>5 DEF PartialInv
<1> QED BY <1>3, <1>4, <1>6, <1>7

LEMMA FrameKeeps ==
  ASSUME CInv, HandleFrame, UNCHANGED callVars
  PROVE  CInv'
<1> SUFFICES ASSUME NEW h, h = Head(inbox), NEW c, c = h.corr
             PROVE  CInv'
  OBVIOUS
<1>1. /\ pc = "poll" /\ inbox # <<>> /\ inbox' = Tail(inbox) /\ UNCHANGED <<outbox, callVars>>
      /\ h.type # "request" => h.type \in {"cancel", "other"}
  BY DEF HandleFrame, Cancel, Ignore, RejectInvalid, RejectAssembly, RejectOversize, KeepFragment,
         RejectExpired, RejectBusy, StartHandler, Complete, Receive
<1>2. RInv' /\ reply = <<>>
  BY <1>1, FrameStep DEF CInv, RInv, ReplyInv
<1>3. /\ h \in Line /\ c \in Calls /\ h.type # "other"
      /\ h.type = "request" =>
           /\ h.valid /\ c \notin DOMAIN jobs /\ h.chunk = Place[h]
           /\ h.chunk \in 1 .. Fragments(c)
           /\ h.more <=> h.chunk < Fragments(c)
           /\ h.chunk = 1 => c \notin DOMAIN assemblies
  BY <1>1, TakenIs
<1>4. ASSUME assemblies' = Without(assemblies, c) PROVE Dropped(c)
  BY <1>4 DEF Dropped, Without
<1>5. ASSUME NEW st, Refuse(c, st), st # "OK", Dropped(c), UNCHANGED <<jobs, started>>
      PROVE  CInv'
  <2>1. Len(reply') = 1 /\ reply'[1].status # "OK" /\ reply'[1].part = 1
    BY <1>5, RefuseIs
  <2> QED BY <1>1, <1>2, <1>5, <2>1, TakenKeeps
<1>6. CASE Cancel
  <2>1. /\ assemblies' = Without(assemblies, c) /\ UNCHANGED <<reply, started>>
        /\ jobs' = IF c \in DOMAIN jobs THEN [jobs EXCEPT ![c].cancelled = TRUE] ELSE jobs
    BY <1>6 DEF Cancel
  <2>2. DOMAIN jobs' \subseteq DOMAIN jobs
    BY <2>1
  <2> QED BY <1>1, <1>2, <1>4, <2>1, <2>2, TakenKeeps
<1>7. CASE Ignore
  BY <1>3, <1>7 DEF Ignore, Receive
<1>8. CASE RejectInvalid
  BY <1>3, <1>8 DEF RejectInvalid, Receive, Invalid
<1>9. CASE RejectAssembly
  <2>1. /\ c \notin DOMAIN assemblies /\ UNCHANGED <<assemblies, jobs, started>>
        /\ Refuse(c, "Internal")
    BY <1>9 DEF RejectAssembly, NoAssemblyRoom
  <2>2. Dropped(c)
    BY <2>1 DEF Dropped
  <2> QED BY <1>5, <2>1, <2>2
<1>10. CASE RejectOversize
  BY <1>4, <1>5, <1>10 DEF RejectOversize
<1>11. CASE RejectExpired
  BY <1>4, <1>5, <1>11 DEF RejectExpired, Complete
<1>12. CASE RejectBusy
  BY <1>4, <1>5, <1>12 DEF RejectBusy, Complete
<1>13. CASE KeepFragment
  <2>1. /\ h.type = "request" /\ h.more /\ UNCHANGED <<reply, jobs, started>>
        /\ assemblies' = With(assemblies, c, Assembled(h))
    BY <1>13 DEF KeepFragment, Receive
  <2>2. Fragments(c) = 2 /\ c \in Long /\ h.chunk = 1
    <3>1. Fragments(c) \in {1, 2} /\ (c \in Long <=> Fragments(c) = 2)
      BY <1>3, CallShape
    <3> QED BY <1>3, <2>1, <3>1
  <2>3. Assembled(h) = <<1>>
    <3>1. c \notin DOMAIN assemblies /\ h.corr = c
      BY <1>3, <2>1, <2>2
    <3>2. Assembled(h) = <<>> \o <<1>>
      BY <2>2, <3>1 DEF Assembled
    <3> QED BY <3>2
  <2>4. Opened(c, Place[h])
    <3>1. assemblies' = With(assemblies, c, <<1>>)
      BY <2>1, <2>3
    <3>2. /\ DOMAIN assemblies' = DOMAIN assemblies \cup {c}
          /\ assemblies'[c] = <<1>>
          /\ \A d \in DOMAIN assemblies : d # c => assemblies'[d] = assemblies[d]
      BY <3>1 DEF With
    <3> QED BY <1>3, <2>1, <2>2, <3>2 DEF Opened
  <2> QED BY <1>1, <1>2, <2>1, <2>4, TakenKeeps
<1>14. CASE StartHandler
  <2>1. /\ h.type = "request" /\ ~h.more /\ UNCHANGED reply
        /\ assemblies' = Without(assemblies, c)
        /\ started' = [started EXCEPT ![c] = @ + 1]
        /\ jobs' = With(jobs, c, [body |-> Assembled(h), cancelled |-> FALSE, running |-> TRUE])
    BY <1>14 DEF StartHandler, Complete, Receive
  <2>2. Place[h] = Fragments(c)
    <3>1. Fragments(c) \in {1, 2}
      BY <1>3, CallShape
    <3> QED BY <1>3, <2>1, <3>1
  <2>3. started \in [Calls -> Nat]
    BY DEF CInv, RInv, TypeOK
  <2>4. DOMAIN jobs' = DOMAIN jobs \cup {c}
    BY <2>1 DEF With
  <2>5. Launched(c, Place[h])
    BY <2>1, <2>2, <2>3, <2>4 DEF Launched
  <2> QED BY <1>1, <1>2, <1>4, <2>1, <2>5, TakenKeeps
<1> QED BY <1>6, <1>7, <1>8, <1>9, <1>10, <1>11, <1>12, <1>13, <1>14 DEF HandleFrame

LEMMA ServeKeeps ==
  ASSUME CInv, Serve
  PROVE  CInv'
<1>1. ServeLoop /\ UNCHANGED callVars /\ RInv'
  BY LoopStep DEF Serve, CInv
<1>2. CASE ContextEnds \/ DrainEnds \/ EpochEnds \/ ReadClock \/ PollNothing \/ ReplyEpoch \/ ReplyContext
  <2>1. /\ UNCHANGED <<inbox, outbox, reply, assemblies, started, callVars>>
        /\ DOMAIN jobs' = DOMAIN jobs
        /\ pc # "exited"
    BY <1>1, <1>2 DEF ContextEnds, DrainEnds, EpochEnds, ReadClock, PollNothing, ReplyEpoch,
                      ReplyContext, tables, history
  <2> QED BY <1>1, <2>1, QuietStep
<1>3. CASE DrainResult
  <2>1. /\ UNCHANGED <<inbox, outbox, reply, assemblies, started, callVars>>
        /\ jobs' = Without(jobs, Head(done).corr)
        /\ pc # "exited"
    BY <1>1, <1>3 DEF DrainResult, loop, history
  <2>2. DOMAIN jobs' \subseteq DOMAIN jobs
    BY <2>1 DEF Without
  <2> QED BY <1>1, <2>1, <2>2, QuietStep
<1> QED BY <1>1, <1>2, <1>3, FinishWorkKeeps, FrameKeeps, ReplyFragmentKeeps DEF ServeLoop

LEMMA WorldKeeps ==
  ASSUME CInv, (\E c \in Calls : Handle(c) \/ Timer(c)) \/ Environment \/ UNCHANGED allVars
  PROVE  CInv'
<1>1. /\ UNCHANGED <<inbox, outbox, reply, assemblies, started, callVars, pc>>
      /\ DOMAIN jobs' = DOMAIN jobs
  BY DEF Handle, HandlerReturns, Timer, DeadlinePasses, Environment, EndContext, HostRestart,
         allVars, vars, loop, tables, history
<1>2. RInv'
  BY HandlerStep, EnvironmentStep, StutterStep DEF CInv, Handle, Timer, Environment, allVars
<1> QED BY <1>1, <1>2, QuietStep

-----------------------------------------------------------------------------
LEMMA CallInit == Init => CInv
<1> SUFFICES ASSUME Init PROVE CInv
  OBVIOUS
<1> USE DEF Init
<1>1. RInv
  BY RuntimeInitInv
<1>2. /\ inbox = <<>> /\ outbox = <<>> /\ reply = <<>> /\ assemblies = <<>>
      /\ started = [c \in Calls |-> 0]
  BY DEF RuntimeInit
<1>3. \A a \in Callers : outbound[a] = <<>> /\ inbound[a] = <<>> /\ body[a] = <<>>
  OBVIOUS
<1>4. ASSUME NEW S PROVE <<>> \in Seq(S)
  OBVIOUS
<1>5. CallTypes
  <2>1. CallTypeOK
    BY CallShape DEF CallTypeOK
  <2>2. /\ inbox \in Seq(Line) /\ outbox \in Seq(Answer)
        /\ outbound \in [Callers -> Seq(Line)] /\ inbound \in [Callers -> Seq(Answer)]
        /\ body \in [Callers -> Seq(Calls \X Nat)]
    BY <1>2, <1>4
  <2>3. /\ \A a \in Callers : \A i \in 1 .. Len(outbound[a]) : outbound[a][i].corr[1] = a
        /\ \A i \in 1 .. Len(reply) : reply[i].part > 0
    BY <1>2, <1>3
  <2>4. \A a \in Callers : callPc[a] = "idle"
    OBVIOUS
  <2> HIDE DEF Init
  <2> QED BY <2>1, <2>2, <2>3, <2>4 DEF CallTypes
<1>6. \A c \in Calls : Reached(c) = 0
  <2> SUFFICES ASSUME NEW c \in Calls PROVE Reached(c) = 0
    OBVIOUS
  <2>1. c[1] \in Callers /\ c[2] \in 1 .. CallsPer /\ CallsPer \in Nat
    BY CallShape
  <2> QED BY <2>1 DEF Reached
<1>7. ASSUME NEW rank, NEW c, NEW k PROVE ~Has(<<>>, rank, c, k) /\ Ranked(<<>>, rank)
  BY DEF Has, Ranked
<1>8. \A c \in Calls : \A k : ~OnLine(c, k)
  BY <1>2, <1>3, <1>7, CallShape DEF OnLine
<1>9. \A c \in Calls : \A p : ~Due(c, p)
  BY <1>2, <1>3, <1>7, CallShape DEF Due, Replying
<1>10. LineInv
  <2>1. Ranked(inbox, Place) /\ \A a \in Callers : Ranked(outbound[a], Place)
    BY <1>2, <1>3, <1>7
  <2>2. \A c \in Calls : \A k : ~Has(inbox, Place, c, k)
    BY <1>2, <1>7
  <2>3. \A c \in Calls : outcome[c] # "sendFailed"
    OBVIOUS
  <2> QED BY <1>8, <2>1, <2>2, <2>3 DEF LineInv
<1>11. FreshInv
  BY <1>2 DEF FreshInv
<1>12. PartialInv
  <2>1. DOMAIN assemblies = {}
    BY <1>2
  <2> QED BY <1>8, <2>1 DEF PartialInv
<1>13. AnswerInv
  <2>1. OrderInv
    <3>1. Ranked(outbox, Part) /\ \A a \in Callers : Ranked(inbound[a], Part)
      BY <1>2, <1>3, <1>7
    <3>2. \A c \in Calls : \A p : ~Has(inbound[c[1]], Part, c, p) /\ ~Has(outbox, Part, c, p)
      BY <1>9 DEF Due
    <3> QED BY <3>1, <3>2 DEF OrderInv
  <2>2. UnansweredInv
    BY <1>3, <1>9, CallShape DEF UnansweredInv
  <2>3. GapInv
    BY <1>9 DEF GapInv
  <2>4. ResponseIsOwnAndInOrder
    BY <1>3 DEF ResponseIsOwnAndInOrder
  <2> QED BY <2>1, <2>2, <2>3, <2>4 DEF AnswerInv
<1> QED BY <1>1, <1>5, <1>10, <1>11, <1>12, <1>13 DEF CInv

LEMMA CallKeeps == CInv /\ [Next]_allVars => CInv'
BY CallerKeeps, HostKeeps, ServeKeeps, WorldKeeps DEF Next

(* The inductive invariant of stage calls.                                 *)
THEOREM CallInvariant == SafetySpec => []CInv
BY CallInit, CallKeeps, PTL DEF SafetySpec

(* Whatever the callers send and the host does, no handler goroutine ever  *)
(* blocks on `done`.                                                       *)
THEOREM CallDone == SafetySpec => []DoneNeverBlocks
<1>1. CInv => DoneNeverBlocks
  BY DEF CInv, RInv, DoneInv
<1> QED BY <1>1, CallInvariant, PTL

(* awaitReply collects the response of the call it makes, from its first   *)
(* part and without a gap: no late answer of an earlier call, no part out  *)
(* of order, gets into it, for any interleaving of callers, host and       *)
(* module.                                                                 *)
THEOREM CallResponse == SafetySpec => []ResponseIsOwnAndInOrder
<1>1. CInv => ResponseIsOwnAndInOrder
  BY DEF CInv, AnswerInv
<1> QED BY <1>1, CallInvariant, PTL

(* A partial request stays in the module only while the rest of it is on   *)
(* the way, or its send failed half way and Call returned without a        *)
(* cancel.                                                                 *)
THEOREM CallAssemblies == SafetySpec => []NoOrphanAssembly
<1>1. CInv => NoOrphanAssembly
  <2> SUFFICES ASSUME CInv, pc # "exited", NEW c \in DOMAIN assemblies
               PROVE  Coming(c) \/ outcome[c] = "sendFailed"
    BY DEF NoOrphanAssembly
  <2>1. CallTypes /\ c \in Calls /\ SecondComes(c)
    BY DEF CInv, PartialInv, RInv, TypeOK
  <2>2. ASSUME Reached(c) = 1 PROVE Coming(c)
    <3>1. c[1] \in Callers /\ c = <<c[1], c[2]>> /\ Fragments(c) = 2
      BY <2>1, CallShape DEF CInv, PartialInv
    <3>2. c[2] = correlation[c[1]] /\ callPc[c[1]] = "sending"
      BY <2>2, <3>1 DEF Reached
    <3> QED BY <3>1, <3>2 DEF Coming, Current
  <2>3. ASSUME OnLine(c, 2) PROVE Coming(c)
    BY <2>3 DEF OnLine, Has, Coming
  <2> QED BY <2>1, <2>2, <2>3 DEF SecondComes
<1> QED BY <1>1, CallInvariant, PTL

-----------------------------------------------------------------------------
(* Whole requests, when every long one can have an assembly.               *)

BodiesKept ==
    /\ DOMAIN jobs' \subseteq DOMAIN jobs
    /\ \A c \in DOMAIN jobs' : jobs'[c].body = jobs[c].body

LEMMA JobRecords ==
  ASSUME CInv
  PROVE  \A c \in DOMAIN jobs :
           jobs[c] \in [body : Seq(Nat), cancelled : BOOLEAN, running : BOOLEAN]
BY DEF CInv, RInv, TypeOK

(* A step that takes no frame: a second fragment comes only after its head.*)
LEMMA HeadKept ==
  ASSUME HeadInv, assemblies' = assemblies, pc = "exited" => pc' = "exited",
         \A c \in Long : OnLine(c, 1) => OnLine(c, 1)',
         \A c \in Long : Reached(c)' = 1 => Reached(c) = 1 \/ OnLine(c, 1)',
         \A c \in Long : OnLine(c, 2)' => OnLine(c, 2) \/ Reached(c) = 1
  PROVE  HeadInv'
<1> SUFFICES ASSUME pc' # "exited", NEW c \in Long, Reached(c)' = 1 \/ OnLine(c, 2)',
                    ~OnLine(c, 1)'
             PROVE  c \in DOMAIN assemblies'
  BY DEF HeadInv
<1>1. Reached(c) = 1 \/ OnLine(c, 2)
  OBVIOUS
<1> QED BY <1>1 DEF HeadInv

LEMMA WholeKept ==
  ASSUME HandlerSeesWholeRequest, BodiesKept
  PROVE  HandlerSeesWholeRequest'
BY DEF HandlerSeesWholeRequest, BodiesKept, Whole, Fragments

LEMMA HeadCall ==
  ASSUME CInv, HeadInv, NEW a \in Callers, Call(a)
  PROVE  HeadInv'
<1>1. /\ callPc[a] = "idle" /\ correlation[a] < CallsPer
      /\ correlation' = [correlation EXCEPT ![a] = @ + 1]
      /\ callPc' = [callPc EXCEPT ![a] = "sending"]
      /\ sentChunks' = [sentChunks EXCEPT ![a] = 0]
      /\ UNCHANGED <<vars, outbound>>
  BY DEF Call
<1>2. /\ correlation \in [Callers -> 0 .. CallsPer]
      /\ callPc \in [Callers -> {"idle", "sending", "awaiting"}]
      /\ sentChunks \in [Callers -> 0 .. 2]
  BY DEF CInv, CallTypes, CallTypeOK
<1>3. UNCHANGED <<inbox, outbound, assemblies, pc>>
  BY <1>1 DEF vars, loop, tables
<1>4. \A c \in Calls : Reached(c)' = Reached(c)
  <2> SUFFICES ASSUME NEW c \in Calls PROVE Reached(c)' = Reached(c)
    OBVIOUS
  <2>1. c[1] \in Callers /\ c[2] \in Nat
    BY CallShape
  <2>2. CASE c[1] # a
    BY <1>1, <2>1, <2>2 DEF Reached, Fragments
  <2>3. CASE c[1] = a
    <3>1. correlation[a] \in Nat
      BY <1>2, CallShape
    <3>2. correlation'[a] = correlation[a] + 1 /\ callPc'[a] = "sending" /\ sentChunks'[a] = 0
      BY <1>1, <1>2
    <3> QED BY <1>1, <2>1, <2>3, <3>1, <3>2 DEF Reached
  <2> QED BY <2>2, <2>3
<1>5. \A c \in Calls : \A k \in 1 .. 3 : OnLine(c, k)' <=> OnLine(c, k)
  BY <1>3, LinesStay
<1>6. Long \subseteq Calls /\ 1 \in 1 .. 3 /\ 2 \in 1 .. 3
  BY CallAssumption
<1> QED BY <1>3, <1>4, <1>5, <1>6, HeadKept

LEMMA HeadSend ==
  ASSUME CInv, HeadInv, NEW a \in Callers, SendFragment(a)
  PROVE  HeadInv'
<1> SUFFICES ASSUME NEW c, c = Current(a), NEW k, k = sentChunks[a] + 1
             PROVE  HeadInv'
  OBVIOUS
<1>1. /\ callPc[a] = "sending"
      /\ outbound' = [outbound EXCEPT ![a] = Append(@, Request(c, k))]
      /\ sentChunks' = [sentChunks EXCEPT ![a] = k]
      /\ callPc' = [callPc EXCEPT ![a] = IF k < Fragments(c) THEN "sending" ELSE "awaiting"]
      /\ UNCHANGED <<vars, correlation>>
  BY DEF SendFragment
<1>2. CallTypes /\ LineInv
  BY DEF CInv
<1>3. c \in Calls /\ c[1] = a /\ Fragments(c) \in {1, 2}
  BY <1>1, <1>2, CurrentIs, CallShape
<1>4. /\ callPc \in [Callers -> {"idle", "sending", "awaiting"}]
      /\ sentChunks \in [Callers -> 0 .. 2]
  BY <1>2 DEF CallTypes, CallTypeOK
<1>5. Reached(c) = k - 1 /\ k \in 1 .. Fragments(c) /\ k \in 1 .. 2
  BY <1>1, <1>2, <1>3, <1>4, ReachedIs
<1>6. /\ Request(c, k) \in Line /\ Request(c, k).corr = c /\ Place[Request(c, k)] = k
  BY <1>3, <1>5, RequestIs
<1>7. UNCHANGED <<inbox, assemblies, pc>>
  BY <1>1 DEF vars, loop, tables
<1>8. \A d \in Calls : \A j \in 1 .. 3 : OnLine(d, j)' <=> OnLine(d, j) \/ (d = c /\ j = k)
  <2>1. callPc[a] # "idle" /\ Reached(Current(a)) < k
    BY <1>1, <1>5
  <2>2. Published(a, Request(c, k))
    BY <1>1 DEF Published
  <2> QED BY <1>2, <1>6, <1>7, <2>1, <2>2, LineExtended
<1>9. \A d \in Calls : d # c => Reached(d)' = Reached(d)
  BY <1>1, <1>2, <1>4, OnlyCurrentMoves
<1>10. Reached(c)' = k
  <2>1. c[2] = correlation[a] /\ correlation'[a] = correlation[a] /\ c[2] \in Nat
        /\ Fragments(c)' = Fragments(c)
    BY <1>1, <1>3, CallShape DEF Current, Fragments
  <2>2. sentChunks'[a] = k /\ callPc'[a] = (IF k < Fragments(c) THEN "sending" ELSE "awaiting")
    BY <1>1, <1>4
  <2> QED BY <1>3, <1>5, <2>1, <2>2 DEF Reached
<1>11. Long \subseteq Calls /\ 1 \in 1 .. 3 /\ 2 \in 1 .. 3
  BY CallAssumption
<1>12. \A d \in Long : Reached(d)' = 1 => Reached(d) = 1 \/ OnLine(d, 1)'
  BY <1>8, <1>9, <1>10, <1>11
<1>13. \A d \in Long : OnLine(d, 2)' => OnLine(d, 2) \/ Reached(d) = 1
  BY <1>5, <1>8, <1>11
<1> QED BY <1>7, <1>8, <1>11, <1>12, <1>13, HeadKept

LEMMA HeadOver ==
  ASSUME CInv, HeadInv, NEW a \in Callers,
         NEW why \in {"OK", "failed", "sendFailed", "deadline", "left"}, Over(a, why)
  PROVE  HeadInv'
<1> SUFFICES ASSUME NEW c, c = Current(a) PROVE HeadInv'
  OBVIOUS
<1>1. /\ callPc[a] = IF why = "sendFailed" THEN "sending" ELSE "awaiting"
      /\ callPc' = [callPc EXCEPT ![a] = "idle"]
      /\ outbound' = outbound \/ (why # "sendFailed" /\ Published(a, CancelFrame(c)))
      /\ UNCHANGED <<vars, correlation, sentChunks>>
  BY DEF Over
<1>2. CallTypes /\ LineInv
  BY DEF CInv
<1>3. c \in Calls /\ c[1] = a /\ Fragments(c) \in {1, 2}
  BY <1>1, <1>2, CurrentIs, CallShape
<1>4. callPc \in [Callers -> {"idle", "sending", "awaiting"}]
  BY <1>2 DEF CallTypes, CallTypeOK
<1>5. why # "sendFailed" => Reached(c) = Fragments(c)
  BY <1>1, <1>2, <1>3, ReachedIs
<1>6. UNCHANGED <<inbox, assemblies, pc>>
  BY <1>1 DEF vars, loop, tables
<1>7. Reached(c)' = 3
  <2>1. c[2] = correlation[a] /\ correlation'[a] = correlation[a] /\ c[2] \in Nat
    BY <1>1, <1>3, CallShape DEF Current
  <2>2. callPc'[a] = "idle"
    BY <1>1, <1>4
  <2> QED BY <1>3, <2>1, <2>2 DEF Reached
<1>8. \A d \in Calls : d # c => Reached(d)' = Reached(d)
  BY <1>1, <1>2, <1>4, OnlyCurrentMoves
<1>9. \A d \in Calls : \A k \in 1 .. 2 : OnLine(d, k)' <=> OnLine(d, k)
  <2>1. CASE outbound' = outbound
    BY <1>6, <2>1, LinesStay
  <2>2. CASE why # "sendFailed" /\ Published(a, CancelFrame(c))
    <3>1. CancelFrame(c) \in Line /\ CancelFrame(c).corr = c /\ Place[CancelFrame(c)] = 3
      BY <1>3, CancelIs
    <3>2. callPc[a] # "idle" /\ Reached(Current(a)) < 3
      BY <1>1, <1>3, <1>5, <2>2
    <3>3. \A d \in Calls : \A k \in 1 .. 3 : OnLine(d, k)' <=> OnLine(d, k) \/ (d = c /\ k = 3)
      BY <1>2, <1>6, <2>2, <3>1, <3>2, LineExtended
    <3> QED BY <3>3
  <2> QED BY <1>1, <2>1, <2>2
<1>10. Long \subseteq Calls /\ 1 \in 1 .. 2 /\ 2 \in 1 .. 2
  BY CallAssumption
<1>11. \A d \in Long : Reached(d)' = 1 => Reached(d) = 1
  BY <1>7, <1>8, <1>10
<1> QED BY <1>6, <1>9, <1>10, <1>11, HeadKept

(* Nothing happens to the frames of requests and their callers.            *)
LEMMA HeadStays ==
  ASSUME HeadInv, UNCHANGED <<inbox, outbound, assemblies>>, SameCalls,
         pc = "exited" => pc' = "exited"
  PROVE  HeadInv'
<1>1. \A c \in Calls : \A k \in 1 .. 3 : OnLine(c, k)' <=> OnLine(c, k)
  BY LinesStay
<1>2. \A c \in Calls : Reached(c)' = Reached(c)
  BY SameReached
<1>3. Long \subseteq Calls /\ 1 \in 1 .. 3 /\ 2 \in 1 .. 3
  BY CallAssumption
<1> QED BY <1>1, <1>2, <1>3, HeadKept

LEMMA HeadAwait ==
  ASSUME CInv, HeadInv, NEW a \in Callers, AwaitFragment(a)
  PROVE  HeadInv'
<1> SUFFICES ASSUME NEW c, c = Current(a), NEW h, h = Head(inbound[a])
             PROVE  HeadInv'
  OBVIOUS
<1>1. /\ callPc[a] = "awaiting"
      /\ callPc' = [callPc EXCEPT ![a] = IF h.more THEN @ ELSE "idle"]
      /\ outcome' = [outcome EXCEPT ![c] = IF h.more THEN @ ELSE "OK"]
      /\ UNCHANGED <<vars, outbound, correlation, sentChunks, cancelSent>>
  BY DEF AwaitFragment, Receiving
<1>2. CASE h.more
  <2>1. /\ outcome \in [Calls -> {"none", "OK", "failed", "sendFailed", "deadline", "left"}]
        /\ callPc \in [Callers -> {"idle", "sending", "awaiting"}]
    BY DEF CInv, CallTypes, CallTypeOK
  <2>2. SameCalls
    BY <1>1, <1>2, <2>1 DEF SameCalls
  <2>3. UNCHANGED <<inbox, outbound, assemblies, pc>>
    BY <1>1 DEF vars, loop, tables
  <2> QED BY <2>2, <2>3, HeadStays
<1>3. CASE ~h.more
  <2>1. Over(a, "OK")
    BY <1>1, <1>3 DEF Over
  <2> QED BY <2>1, HeadOver
<1> QED BY <1>2, <1>3

LEMMA CallerWhole ==
  ASSUME CInv, WholeInv, NEW a \in Callers, Call(a) \/ CallerStep(a) \/ AwaitContext(a)
  PROVE  WholeInv'
<1>1. UNCHANGED vars
  BY DEF Call, CallerStep, AwaitContext, SendFragment, SendFails, AwaitSkip, AwaitError,
         AwaitFragment, AwaitDeadline, AwaitEpoch, Leave
<1>2. HandlerSeesWholeRequest'
  BY <1>1 DEF WholeInv, HandlerSeesWholeRequest, Whole, Fragments, vars, tables
<1>3. HeadInv /\ UNCHANGED <<inbox, assemblies, pc>>
  BY <1>1 DEF WholeInv, vars, loop, tables
<1>4. HeadInv'
  <2>1. ASSUME NEW why \in {"failed", "deadline", "left"}, callPc[a] = "awaiting", Leave(a, why)
        PROVE  HeadInv'
    BY <1>3, <2>1, LeaveIsOver, HeadOver
  <2>2. CASE AwaitError(a)
    BY <2>1, <2>2 DEF AwaitError, Receiving
  <2>3. CASE AwaitDeadline(a) \/ AwaitContext(a) \/ AwaitEpoch(a)
    BY <2>1, <2>3 DEF AwaitDeadline, AwaitContext, AwaitEpoch
  <2>4. CASE SendFails(a)
    <3>1. Over(a, "sendFailed")
      BY <2>4 DEF SendFails, Over
    <3> QED BY <1>3, <3>1, HeadOver
  <2>5. CASE AwaitSkip(a)
    BY <1>3, <2>5, HeadStays DEF AwaitSkip, SameCalls, callState
  <2> QED BY <1>3, <2>2, <2>3, <2>4, <2>5, HeadCall, HeadSend, HeadAwait DEF CallerStep
<1> QED BY <1>2, <1>4 DEF WholeInv

LEMMA HostWhole ==
  ASSUME CInv, WholeInv, HostStep
  PROVE  WholeInv'
<1>1. UNCHANGED <<pc, jobs, assemblies>> /\ SameCalls
  BY DEF HostStep, HostForward, HostAbsent, HostReturn, vars, loop, tables, SameCalls, callState
<1>2. HandlerSeesWholeRequest'
  BY <1>1 DEF WholeInv, HandlerSeesWholeRequest, Whole, Fragments
<1>3. HeadInv'
  <2>1. ASSUME NEW a \in Callers, HostForward(a) PROVE HeadInv'
    <3>1. Popped(a) /\ inbox' = Append(inbox, Head(outbound[a]))
      BY <2>1 DEF HostForward, Popped
    <3>2. \A c \in Calls : \A k \in 1 .. 3 : OnLine(c, k)' <=> OnLine(c, k)
      BY <1>1, <3>1, LineForwarded DEF CInv
    <3>3. \A c \in Calls : Reached(c)' = Reached(c)
      BY <1>1, SameReached
    <3>4. Long \subseteq Calls /\ 1 \in 1 .. 3 /\ 2 \in 1 .. 3
      BY CallAssumption
    <3> QED BY <1>1, <3>2, <3>3, <3>4, HeadKept DEF WholeInv
  <2>2. ASSUME NEW a \in Callers, HostAbsent(a) PROVE HeadInv'
    BY <1>1, <2>2 DEF HostAbsent, HeadInv
  <2>3. CASE HostReturn
    BY <1>1, <2>3, HeadStays DEF HostReturn, WholeInv
  <2> QED BY <2>1, <2>2, <2>3 DEF HostStep
<1> QED BY <1>2, <1>3 DEF WholeInv

(* The loop takes a frame: the last of a long request finds the head in    *)
(* its assembly, and a head finds room for one.                            *)
LEMMA FrameWhole ==
  ASSUME CInv, WholeInv, RoomForLong, HandleFrame, UNCHANGED callVars
  PROVE  WholeInv'
<1> SUFFICES ASSUME NEW h, h = Head(inbox), NEW c, c = h.corr
             PROVE  WholeInv'
  OBVIOUS
<1>1. /\ pc = "poll" /\ inbox # <<>> /\ inbox' = Tail(inbox)
      /\ h.type # "request" => h.type \in {"cancel", "other"}
  BY DEF HandleFrame, Cancel, Ignore, RejectInvalid, RejectAssembly, RejectOversize, KeepFragment,
         RejectExpired, RejectBusy, StartHandler, Complete, Receive
<1>2. /\ h \in Line /\ c \in Calls /\ h.type # "other"
      /\ h.type = "request" =>
           /\ h.valid /\ c \notin DOMAIN jobs /\ h.chunk = Place[h]
           /\ h.chunk \in 1 .. Fragments(c)
           /\ h.more <=> h.chunk < Fragments(c)
           /\ h.chunk = 1 => c \notin DOMAIN assemblies
  BY <1>1, TakenIs
<1>3. /\ Place[h] \in 1 .. 3 /\ (h.type = "cancel" => Place[h] = 3)
      /\ Fragments(c) \in {1, 2} /\ (c \in Long <=> Fragments(c) = 2) /\ Long \subseteq Calls
  BY <1>2, LineFrame, CallShape, CallAssumption
<1>4. UNCHANGED outbound /\ SameCalls
  BY DEF callVars, callState, SameCalls
<1>5. /\ OnLine(c, Place[h])
      /\ \A k \in 1 .. 3 : OnLine(c, k) => k >= Place[h]
      /\ \A d \in Calls : \A k \in 1 .. 3 :
           OnLine(d, k)' <=> OnLine(d, k) /\ ~(d = c /\ k = Place[h])
  BY <1>1, <1>4, LineTaken DEF CInv
<1>6. \A d \in Calls : Reached(d)' = Reached(d)
  BY <1>4, SameReached
<1>7. Reached(c) >= Place[h] /\ Reached(c) \in 0 .. 3
  BY <1>2, <1>3, <1>5, ReachedIs DEF CInv, LineInv
<1>8. Reached(c) = 1 \/ OnLine(c, 2)' => Place[h] = 1
  <2>1. Reached(c) = 1 => Place[h] = 1
    BY <1>3, <1>7
  <2>2. OnLine(c, 2)' => Place[h] = 1
    BY <1>2, <1>3, <1>5
  <2> QED BY <2>1, <2>2
<1>9. HeadInv /\ HandlerSeesWholeRequest
  BY DEF WholeInv
<1>10. ASSUME Place[h] = 1 => c \notin Long \/ c \in DOMAIN assemblies',
              \A d \in DOMAIN assemblies : d # c => d \in DOMAIN assemblies'
       PROVE  HeadInv'
  <2> SUFFICES ASSUME NEW d \in Long, Reached(d)' = 1 \/ OnLine(d, 2)'
               PROVE  OnLine(d, 1)' \/ d \in DOMAIN assemblies'
    BY DEF HeadInv
  <2>1. CASE d = c
    BY <1>3, <1>6, <1>8, <1>10, <2>1
  <2>2. CASE d # c
    <3>1. Reached(d) = 1 \/ OnLine(d, 2)
      BY <1>3, <1>5, <1>6
    <3>2. OnLine(d, 1) \/ d \in DOMAIN assemblies
      BY <1>1, <1>9, <3>1 DEF HeadInv
    <3> QED BY <1>3, <1>5, <1>10, <2>2, <3>2
  <2> QED BY <2>1, <2>2
<1>11. ASSUME assemblies' = Without(assemblies, c)
       PROVE  \A d \in DOMAIN assemblies : d # c => d \in DOMAIN assemblies'
  BY <1>11 DEF Without
<1>12. ASSUME jobs' = jobs PROVE HandlerSeesWholeRequest'
  BY <1>9, <1>12 DEF HandlerSeesWholeRequest, Whole, Fragments
<1>13. CASE Cancel
  <2>1. /\ assemblies' = Without(assemblies, c) /\ h.type = "cancel"
        /\ jobs' = IF c \in DOMAIN jobs THEN [jobs EXCEPT ![c].cancelled = TRUE] ELSE jobs
    BY <1>13 DEF Cancel, Receive
  <2>2. BodiesKept
    <3> QED BY <2>1, JobRecords DEF BodiesKept
  <2> QED BY <1>3, <1>9, <1>10, <1>11, <2>1, <2>2, WholeKept DEF WholeInv
<1>14. CASE Ignore
  BY <1>2, <1>14 DEF Ignore, Receive
<1>15. CASE RejectInvalid
  BY <1>2, <1>15 DEF RejectInvalid, Receive, Invalid
<1>16. CASE RejectAssembly
  <2>1. /\ c \notin DOMAIN assemblies /\ Cardinality(DOMAIN assemblies) >= MaxInFlight
        /\ UNCHANGED <<assemblies, jobs>> /\ h.type = "request"
    BY <1>16 DEF RejectAssembly, NoAssemblyRoom, Receive
  <2>2. c \notin Long
    <3> SUFFICES ASSUME c \in Long PROVE FALSE
      OBVIOUS
    <3>1. DOMAIN assemblies \subseteq Long \ {c}
      BY <1>1, <2>1 DEF CInv, PartialInv, RInv, TypeOK
    <3>2. IsFiniteSet(Long)
      BY <1>3, RuntimeAssumption, FS_Subset
    <3>3. /\ IsFiniteSet(Long \ {c}) /\ Cardinality(Long \ {c}) = Cardinality(Long) - 1
          /\ Cardinality(Long) \in Nat
      BY <3>2, FS_RemoveElement, FS_CardinalityType
    <3>4. Cardinality(DOMAIN assemblies) <= Cardinality(Long \ {c})
          /\ Cardinality(DOMAIN assemblies) \in Nat
      BY <3>1, <3>3, FS_Subset, FS_CardinalityType
    <3> QED BY <2>1, <3>3, <3>4, RuntimeAssumption DEF RoomForLong
  <2> QED BY <1>10, <1>12, <2>1, <2>2 DEF WholeInv
<1>17. CASE RejectOversize
  <2>1. /\ assemblies' = Without(assemblies, c) /\ jobs' = jobs /\ h.type = "request"
        /\ Len(Assembled(h)) > MaxBody
    BY <1>17 DEF RejectOversize, Receive
  <2>2. Place[h] # 1
    <3> SUFFICES ASSUME Place[h] = 1 PROVE FALSE
      OBVIOUS
    <3>1. Assembled(h) = <<>> \o <<1>>
      BY <1>2, <2>1 DEF Assembled
    <3>2. Len(Assembled(h)) = 1
      BY <3>1
    <3>3. ~(1 > MaxBody)
      BY RuntimeAssumption
    <3>4. Len(Assembled(h)) > MaxBody
      BY <2>1
    <3>5. \A n : n = 1 /\ n > MaxBody => FALSE
      BY <3>3
    <3> QED BY <3>2, <3>4, <3>5
  <2> QED BY <1>10, <1>11, <1>12, <2>1, <2>2 DEF WholeInv
<1>18. ASSUME assemblies' = Without(assemblies, c), h.type = "request", ~h.more
       PROVE  HeadInv'
  <2>1. Place[h] = 1 => c \notin Long
    BY <1>2, <1>3, <1>18
  <2> QED BY <1>10, <1>11, <1>18, <2>1
<1>19. CASE RejectExpired \/ RejectBusy
  <2>1. /\ assemblies' = Without(assemblies, c) /\ jobs' = jobs /\ h.type = "request" /\ ~h.more
    BY <1>19 DEF RejectExpired, RejectBusy, Complete, Receive
  <2> QED BY <1>12, <1>18, <2>1 DEF WholeInv
<1>20. CASE KeepFragment
  <2>1. assemblies' = With(assemblies, c, Assembled(h)) /\ jobs' = jobs
    BY <1>20 DEF KeepFragment
  <2>2. DOMAIN assemblies' = DOMAIN assemblies \cup {c}
    BY <2>1 DEF With
  <2> QED BY <1>10, <1>12, <2>1, <2>2 DEF WholeInv
<1>21. CASE StartHandler
  <2>1. /\ h.type = "request" /\ ~h.more
        /\ assemblies' = Without(assemblies, c)
        /\ jobs' = With(jobs, c, [body |-> Assembled(h), cancelled |-> FALSE, running |-> TRUE])
    BY <1>21 DEF StartHandler, Complete, Receive
  <2>2. Assembled(h) = Whole(c)
    <3>1. h.chunk = Fragments(c)
      BY <1>2, <1>3, <2>1
    <3>2. CASE Fragments(c) = 1
      <4>1. Assembled(h) = <<>> \o <<1>>
        BY <1>2, <2>1, <3>1, <3>2 DEF Assembled
      <4>2. Whole(c) = <<1>>
        BY <3>2 DEF Whole
      <4> QED BY <4>1, <4>2
    <3>3. CASE Fragments(c) = 2
      <4>1. OnLine(c, 2) /\ ~OnLine(c, 1)
        BY <1>2, <1>5, <2>1, <3>1, <3>3
      <4>2. c \in DOMAIN assemblies
        BY <1>1, <1>3, <1>9, <3>3, <4>1 DEF HeadInv
      <4>3. assemblies[c] = <<1>>
        BY <1>1, <1>2, <4>2 DEF CInv, PartialInv
      <4>4. Assembled(h) = <<1>> \o <<2>>
        BY <3>1, <3>3, <4>2, <4>3 DEF Assembled
      <4>5. Whole(c) = <<1, 2>>
        BY <3>3 DEF Whole
      <4> QED BY <4>4, <4>5
    <3> QED BY <1>3, <3>2, <3>3
  <2>3. /\ DOMAIN jobs' = DOMAIN jobs \cup {c} /\ jobs'[c].body = Assembled(h)
        /\ \A d \in DOMAIN jobs : d # c => jobs'[d] = jobs[d]
    BY <2>1 DEF With
  <2>4. HandlerSeesWholeRequest'
    <3> SUFFICES ASSUME NEW d \in DOMAIN jobs' PROVE jobs'[d].body = Whole(d)
      BY DEF HandlerSeesWholeRequest, Whole, Fragments
    <3>1. CASE d = c
      BY <2>2, <2>3, <3>1
    <3>2. CASE d # c
      BY <1>9, <2>3, <3>2 DEF HandlerSeesWholeRequest
    <3> QED BY <3>1, <3>2
  <2> QED BY <1>18, <2>1, <2>4 DEF WholeInv
<1> QED BY <1>13, <1>14, <1>15, <1>16, <1>17, <1>19, <1>20, <1>21 DEF HandleFrame

(* Every other step of the module process and of the world.                *)
LEMMA RestWhole ==
  ASSUME WholeInv, UNCHANGED <<inbox, assemblies, callVars>>, BodiesKept,
         pc = "exited" => pc' = "exited"
  PROVE  WholeInv'
<1>1. SameCalls /\ UNCHANGED outbound
  BY DEF SameCalls, callVars, callState
<1> QED BY <1>1, HeadStays, WholeKept DEF WholeInv

LEMMA ServeWhole ==
  ASSUME CInv, WholeInv, RoomForLong, Serve
  PROVE  WholeInv'
<1>1. ServeLoop /\ UNCHANGED callVars
  BY DEF Serve
<1>2. CASE DrainEnds \/ EpochEnds \/ ReadClock \/ PollNothing \/ ReplyEpoch \/ ReplyContext \/ ReplyFragment
  <2>1. UNCHANGED <<inbox, assemblies, callVars, jobs>> /\ pc # "exited"
    BY <1>1, <1>2 DEF DrainEnds, EpochEnds, ReadClock, PollNothing, ReplyEpoch, ReplyContext,
                      ReplyFragment, tables
  <2> QED BY <2>1, RestWhole DEF BodiesKept
<1>3. CASE DrainResult \/ FinishWork
  <2>1. /\ UNCHANGED <<inbox, assemblies, callVars>> /\ pc # "exited"
        /\ jobs' = Without(jobs, Head(done).corr)
    BY <1>1, <1>3 DEF DrainResult, FinishWork, loop
  <2>2. BodiesKept
    BY <2>1 DEF Without, BodiesKept
  <2> QED BY <2>1, <2>2, RestWhole
<1>4. CASE ContextEnds
  <2>1. /\ UNCHANGED <<inbox, assemblies, callVars>> /\ pc # "exited"
        /\ jobs' = [c \in DOMAIN jobs |-> [jobs[c] EXCEPT !.cancelled = TRUE]]
    BY <1>1, <1>4 DEF ContextEnds
  <2>2. BodiesKept
    BY <2>1, JobRecords DEF BodiesKept
  <2> QED BY <2>1, <2>2, RestWhole
<1> QED BY <1>1, <1>2, <1>3, <1>4, FrameWhole DEF ServeLoop

LEMMA WorldWhole ==
  ASSUME CInv, WholeInv, (\E c \in Calls : Handle(c) \/ Timer(c)) \/ Environment \/ UNCHANGED allVars
  PROVE  WholeInv'
<1>1. UNCHANGED <<inbox, assemblies, callVars, pc>>
  BY DEF Handle, HandlerReturns, Timer, DeadlinePasses, Environment, EndContext, HostRestart,
         allVars, vars, loop, tables
<1>2. BodiesKept
  <2>1. CASE jobs' = jobs
    BY <2>1 DEF BodiesKept
  <2>2. ASSUME NEW c \in Calls, HandlerReturns(c) PROVE BodiesKept
    <3>1. jobs' = [jobs EXCEPT ![c].running = FALSE]
      BY <2>2 DEF HandlerReturns
    <3> QED BY <3>1, JobRecords DEF BodiesKept
  <2> QED BY <2>1, <2>2 DEF Handle, Timer, DeadlinePasses, Environment, EndContext, HostRestart,
                            allVars, vars, tables
<1> QED BY <1>1, <1>2, RestWhole

(* A handler only ever runs on the whole request of its call, as long as   *)
(* the module has room to assemble every long request.                     *)
THEOREM CallWhole ==
  ASSUME RoomForLong
  PROVE  SafetySpec => []HandlerSeesWholeRequest
<1>1. Init => WholeInv
  <2> SUFFICES ASSUME Init PROVE WholeInv
    OBVIOUS
  <2>1. inbox = <<>> /\ jobs = <<>> /\ \A a \in Callers : outbound[a] = <<>> /\ correlation[a] = 0
    BY DEF Init, RuntimeInit
  <2>2. ASSUME NEW c \in Long PROVE Reached(c) # 1 /\ ~OnLine(c, 2)
    <3>1. c[1] \in Callers /\ c[2] \in 1 .. CallsPer /\ CallsPer \in Nat
      BY CallShape, CallAssumption
    <3>2. Reached(c) = 0
      BY <2>1, <3>1 DEF Reached
    <3> QED BY <2>1, <3>1, <3>2 DEF OnLine, Has
  <2>3. HandlerSeesWholeRequest
    BY <2>1 DEF HandlerSeesWholeRequest
  <2> QED BY <2>2, <2>3 DEF WholeInv, HeadInv
<1>2. CInv /\ WholeInv /\ [Next]_allVars => WholeInv'
  BY CallerWhole, HostWhole, ServeWhole, WorldWhole DEF Next
<1>3. WholeInv => HandlerSeesWholeRequest
  BY DEF WholeInv
<1> QED BY <1>1, <1>2, <1>3, CallInvariant, PTL DEF SafetySpec
=============================================================================
