----------------------------- MODULE BusProofs -----------------------------
(***************************************************************************)
(* Proofs about the two sides of a bus client: its ring in shared memory   *)
(* (Ring), for every capacity, word size and set of frames, and its link   *)
(* to the host (CallerLink), for every heartbeat interval, stale window,   *)
(* lateness and number of failed clock reads that LinkAssumption admits.   *)
(*                                                                         *)
(* The ring: read the wrapped indices as the totals of committed and       *)
(* released slots (IndexInv).  At most Capacity slots separate the totals, *)
(* so slots of unreleased frames are pairwise different and differ from    *)
(* the one being written, which keeps their contents (SlotInv).  The       *)
(* arithmetic of wrapped words is in the lemmas of the first part.         *)
(*                                                                         *)
(* The link: ResourceInv says what ConnectClient holds at each point of    *)
(* the attach.  TimeInv bounds the age of the heartbeat: while no tick     *)
(* waits, by one interval per missed beat, the time since the last tick    *)
(* and one lateness; while one waits, by a further interval and the time   *)
(* it has been waiting, which is the time since that tick.  The waiting    *)
(* time being tied to the ticker's phase is what keeps misses from adding  *)
(* up latenesses, and needs Lateness < Interval.                           *)
(***************************************************************************)
EXTENDS Ring, CallerLink, TLAPS

(* Division with remainder, as the provers know it.                        *)
LEMMA DivMod == ASSUME NEW a \in Int, NEW b \in Nat, b > 0
  PROVE /\ (a % b) \in 0..b-1 
        /\ (a \div b) \in Int 
        /\ a = b * (a \div b) + (a % b)
OBVIOUS

(* Quotient and remainder are determined by the number divided.            *)
LEMMA Uniq == ASSUME NEW b \in Nat, b > 0, NEW q1 \in Int, NEW q2 \in Int,
    NEW r1 \in 0..b-1, NEW r2 \in 0..b-1, b*q1 + r1 = b*q2+r2
  PROVE q1 = q2 /\ r1 = r2
<1>1. ~(q1 < q2)
  <2> SUFFICES ASSUME q1 < q2 PROVE FALSE OBVIOUS
  <2>1. b*q1 + b <= b*q2 OBVIOUS
  <2> QED BY <2>1
<1>2. ~(q2 < q1)
  <2> SUFFICES ASSUME q2 < q1 PROVE FALSE OBVIOUS
  <2>1. b*q2 + b <= b*q1 OBVIOUS
  <2> QED BY <2>1
<1> QED BY <1>1, <1>2

(* How a remainder is computed: exhibit a quotient.                        *)
LEMMA ModIs == ASSUME NEW b \in Nat, b > 0, NEW a \in Int, NEW q \in Int, NEW r \in 0..b-1, a = b*q + r
  PROVE a % b = r
<1>1. /\ (a % b) \in 0..b-1 
      /\ (a \div b) \in Int 
      /\ a = b * (a \div b) + (a % b)
  BY DivMod
<1> DEFINE q2 == a \div b
           r2 == a % b
<1>2. q2 \in Int /\ r2 \in 0..b-1 /\ b*q + r = b*q2 + r2
  BY <1>1
<1> HIDE DEF q2, r2
<1>3. r = r2 BY <1>2, Uniq
<1> QED BY <1>3 DEF r2

(* NextIndex counts modulo the word size.                                  *)
LEMMA ModStep == ASSUME NEW m \in Nat, m > 0, NEW a \in Nat
  PROVE ((a % m) + 1) % m = (a + 1) % m
<1> DEFINE q == a \div m
           r == a % m
<1>1. q \in Int /\ r \in 0..m-1 /\ a = m*q + r
  BY DivMod
<1> HIDE DEF q, r
<1>2. CASE r + 1 < m
  <2>1. (r+1) % m = r+1 BY <1>1, <1>2, ModIs, r+1 = m*0+(r+1), r+1 \in 0..m-1
  <2>2. (a+1) % m = r+1 BY <1>1, <1>2, ModIs, a+1 = m*q+(r+1), r+1 \in 0..m-1
  <2> QED BY <2>1, <2>2 DEF r
<1>3. CASE r + 1 = m
  <2>1. (r+1) % m = 0 BY <1>1, <1>3, ModIs, r+1 = m*1+0, 0 \in 0..m-1
  <2>2. a + 1 = m*(q+1)+0 BY <1>1, <1>3
  <2>3. (a+1) % m = 0 BY <1>1, <1>3, <2>2, ModIs, q+1 \in Int, 0 \in 0..m-1
  <2> QED BY <2>1, <2>3 DEF r
<1> QED BY <1>1, <1>2, <1>3

(* A difference of wrapped indices is the true difference while that fits  *)
(* in a word: why Count may subtract wrapped words.                        *)
LEMMA ModDiff == ASSUME NEW m \in Nat, m > 0, NEW p \in Nat, NEW c \in Nat, c <= p, p - c < m
  PROVE ((p % m) - (c % m)) % m = p - c
<1> DEFINE qp == p \div m
           rp == p % m
           qc == c \div m
           rc == c % m
<1>1. qp \in Int /\ rp \in 0..m-1 /\ p = m*qp + rp
  BY DivMod
<1>2. qc \in Int /\ rc \in 0..m-1 /\ c = m*qc + rc
  BY DivMod
<1> HIDE DEF qp, rp, qc, rc
<1>3. rp - rc = m*(qc - qp) + (p - c) BY <1>1, <1>2
<1>4. (rp - rc) % m = p - c
  BY <1>1, <1>2, <1>3, ModIs, qc - qp \in Int, rp - rc \in Int, p - c \in 0..m-1
<1> QED BY <1>4 DEF rp, rc

(* Masking a wrapped index gives the slot of the unwrapped one, because    *)
(* the capacity divides the word size.                                     *)
LEMMA ModMod == ASSUME NEW m \in Nat, NEW d \in Nat, d > 0, NEW k \in Nat, k > 0, m = k*d, NEW a \in Nat
  PROVE (a % m) % d = a % d
<1> DEFINE q == a \div m
           r == a % m
           s == r \div d
           t == r % d
<1>0. m > 0 BY k*d > 0
<1>1. q \in Int /\ r \in 0..m-1 /\ a = m*q + r
  BY <1>0, DivMod
<1> HIDE DEF q, r
<1>2. s \in Int /\ t \in 0..d-1 /\ r = d*s + t
  BY <1>1, DivMod
<1> HIDE DEF s, t
<1>3. m*q = d*(k*q) BY <1>1
<1>4. a = d*(k*q + s) + t BY <1>1, <1>2, <1>3
<1> DEFINE u == k*q + s
<1>5. u \in Int /\ a = d*u + t BY <1>1, <1>2, <1>4
<1> HIDE DEF u
<1>6. a % d = t BY <1>2, <1>5, ModIs
<1> QED BY <1>6 DEF t, r

(* Indices less than a capacity apart use different slots.                 *)
LEMMA ModDistinct == ASSUME NEW d \in Nat, d > 0, NEW a \in Nat, NEW b \in Nat, a < b, b < a + d
  PROVE a % d # b % d
<1> DEFINE q == a \div d
           r == a % d
           s == b \div d
           t == b % d
<1>1. q \in Int /\ r \in 0..d-1 /\ a = d*q + r
  BY DivMod
<1>2. s \in Int /\ t \in 0..d-1 /\ b = d*s + t
  BY DivMod
<1> HIDE DEF q, r, s, t
<1> SUFFICES ASSUME r = t PROVE FALSE BY DEF r, t
<1>3. b - a = d*(s-q) BY <1>1, <1>2
<1>4. 0 < d*(s-q) /\ d*(s-q) < d BY <1>3
<1>5. CASE s - q <= 0
  BY <1>4, <1>5, <1>1, <1>2
<1>6. CASE s - q >= 1
  BY <1>4, <1>6, <1>1, <1>2
<1> QED BY <1>5, <1>6, <1>1, <1>2

-----------------------------------------------------------------------------
(* Slots released so far: every slot taken out but the one still held.     *)
Released == Len(seen) - (IF pendingRead THEN 1 ELSE 0)

(* The index word and the slot that belong to a total.                     *)
Wrap(a) == a % IndexMod
Place(a) == a % Capacity

(* The indices are the wrapped totals of committed and released slots, and *)
(* no more than Capacity slots lie between them; the slot being written is *)
(* a free one.                                                             *)
IndexInv ==
    /\ Released \in 0 .. Len(sent)
    /\ Len(sent) - Released <= Capacity
    /\ emit # "idle" => Len(sent) - Released < Capacity
    /\ head = Wrap(Len(sent))
    /\ tail = Wrap(Released)

(* Every committed frame that is not released is still in its slot, and    *)
(* the frame being written is whole before it is committed.                *)
SlotInv ==
    /\ \A k \in Released .. Len(sent) - 1 : slots[Place(k)] = sent[k + 1]
    /\ emit # "idle" => emitting \in Frames
    /\ emit = "copied" => slots[Place(Len(sent))] = emitting
    /\ poll = "released" => ~pendingRead

IInv == TypeOK /\ IndexInv /\ InOrder /\ SlotInv

(* The constants, as the code's AttachRing accepts them.                   *)
LEMMA Constants ==
    /\ Capacity \in Nat /\ Capacity >= 2
    /\ IndexMod \in Nat /\ Capacity < IndexMod
BY GeometryAssumption

(* The index operations of the ring, read on totals.                       *)
LEMMA Geometry ==
    \A a \in Nat : /\ SlotOf(Wrap(a)) = Place(a)
                   /\ NextIndex(Wrap(a)) = Wrap(a + 1)
                   /\ Place(a) \in 0 .. Capacity - 1
                   /\ Wrap(a) \in 0 .. IndexMod - 1
<1> SUFFICES ASSUME NEW a \in Nat
             PROVE  /\ SlotOf(Wrap(a)) = Place(a)
                    /\ NextIndex(Wrap(a)) = Wrap(a + 1)
                    /\ Place(a) \in 0 .. Capacity - 1
                    /\ Wrap(a) \in 0 .. IndexMod - 1
  OBVIOUS
<1>2. PICK k \in 1 .. IndexMod : IndexMod = k * Capacity
  BY GeometryAssumption
<1>3. (a % IndexMod) % Capacity = a % Capacity
  BY Constants, <1>2, ModMod, k \in Nat, k > 0, Capacity > 0
<1>4. ((a % IndexMod) + 1) % IndexMod = (a + 1) % IndexMod
  BY Constants, ModStep, IndexMod > 0
<1>5. a % Capacity \in 0 .. Capacity - 1 /\ a % IndexMod \in 0 .. IndexMod - 1
  BY Constants, DivMod, Capacity > 0, IndexMod > 0
<1> QED BY <1>3, <1>4, <1>5 DEF SlotOf, NextIndex, Wrap, Place

(* Unreleased frames and the frame being written never share a slot.       *)
LEMMA PlacesDiffer ==
    \A a, b \in Nat : a < b /\ b < a + Capacity => Place(a) # Place(b)
BY Constants, ModDistinct, Capacity > 0 DEF Place

(* What Count and the slot of an index mean in terms of the totals.        *)
LEMMA Totals ==
    ASSUME IndexInv, TypeOK
    PROVE  /\ Len(sent) \in Nat /\ Released \in Nat
           /\ Count = Len(sent) - Released
           /\ SlotOf(head) = Place(Len(sent))
           /\ SlotOf(tail) = Place(Released)
           /\ Place(Len(sent)) \in 0 .. Capacity - 1
           /\ Place(Released) \in 0 .. Capacity - 1
<1>1. Len(sent) \in Nat /\ Len(seen) \in Nat
  BY DEF TypeOK
<1>2. Released \in Nat /\ Released <= Len(sent) /\ Len(sent) - Released < IndexMod
  BY <1>1, Constants DEF IndexInv
<1>3. (Wrap(Len(sent)) - Wrap(Released)) % IndexMod = Len(sent) - Released
  BY <1>1, <1>2, Constants, ModDiff, IndexMod > 0 DEF Wrap
<1> QED BY <1>1, <1>2, <1>3, Geometry DEF IndexInv, Count

(* The inductive invariant holds of a freshly laid out, empty ring         *)
(* (initRing).                                                             *)
LEMMA InitIInv == Init => IInv
<1> SUFFICES ASSUME Init PROVE IInv
  OBVIOUS
<1> USE Constants DEF Init
<1>1. TypeOK
  <2>1. slots \in [0 .. Capacity - 1 -> Frames \cup {Garbage}]
    OBVIOUS
  <2>2. sent \in Seq(Frames) /\ seen \in Seq(Frames \cup {Garbage})
    OBVIOUS
  <2>3. head \in 0 .. IndexMod - 1 /\ tail \in 0 .. IndexMod - 1
    OBVIOUS
  <2> QED BY <2>1, <2>2, <2>3 DEF TypeOK
<1>1a. InOrder
  BY DEF InOrder
<1>2. Released = 0 /\ Len(sent) = 0
  BY DEF Released
<1>3. Wrap(0) = 0
  BY ModIs, IndexMod > 0, 0 \in 0 .. IndexMod - 1, 0 = IndexMod * 0 + 0 DEF Wrap
<1>4. IndexInv
  BY <1>2, <1>3 DEF IndexInv
<1>5. SlotInv
  BY <1>2 DEF SlotInv
<1> QED BY <1>1, <1>1a, <1>4, <1>5 DEF IInv

(* Every step of emit and of Poll, in any order, keeps the inductive       *)
(* invariant: one step of the proof per action.                            *)
LEMMA StepIInv == IInv /\ [Next]_vars => IInv'
<1> SUFFICES ASSUME IInv, [Next]_vars PROVE IInv'
  OBVIOUS
<1> USE DEF IInv, producer, consumer
<1>0. /\ Len(sent) \in Nat /\ Len(seen) \in Nat /\ Released \in Nat
      /\ Released <= Len(sent)
      /\ Count = Len(sent) - Released
      /\ SlotOf(head) = Place(Len(sent))
      /\ SlotOf(tail) = Place(Released)
      /\ Place(Len(sent)) \in 0 .. Capacity - 1
      /\ Place(Released) \in 0 .. Capacity - 1
  BY Totals DEF TypeOK, IndexInv
<1>1. ASSUME NEW f \in Frames, EmitBegin(f) PROVE IInv'
  <2> USE <1>1 DEF EmitBegin
  <2>1. TypeOK'
    BY <1>0 DEF TypeOK
  <2>2. Released' = Released /\ Len(sent) - Released < Capacity
    BY <1>0, Constants DEF Released, Full
  <2>3. IndexInv'
    BY <2>2 DEF IndexInv
  <2>4. \A k \in Released .. Len(sent) - 1 : Place(k) # Place(Len(sent))
    BY <1>0, <2>2, Constants, PlacesDiffer
  <2>5. \A k \in Released .. Len(sent) - 1 : slots'[Place(k)] = sent[k + 1]
    <3> TAKE k \in Released .. Len(sent) - 1
    <3>0. k \in Nat
      BY <1>0
    <3>1. Place(k) \in 0 .. Capacity - 1
      BY <3>0, Geometry
    <3>2. slots'[Place(k)] = slots[Place(k)]
      BY <1>0, <2>4, <3>1 DEF TypeOK
    <3> QED BY <3>2 DEF SlotInv
  <2>6. SlotInv'
    BY <2>2, <2>5 DEF SlotInv
  <2> QED BY <2>1, <2>3, <2>6 DEF InOrder
<1>2. ASSUME EmitCopy PROVE IInv'
  <2> USE <1>2 DEF EmitCopy
  <2>0. emitting \in Frames
    BY DEF SlotInv
  <2>1. TypeOK'
    BY <1>0, <2>0 DEF TypeOK
  <2>2. Released' = Released /\ Len(sent) - Released < Capacity
    BY DEF Released, IndexInv
  <2>3. IndexInv'
    BY <2>2 DEF IndexInv
  <2>4. \A k \in Released .. Len(sent) - 1 : Place(k) # Place(Len(sent))
    BY <1>0, <2>2, Constants, PlacesDiffer
  <2>5. \A k \in Released .. Len(sent) - 1 : slots'[Place(k)] = sent[k + 1]
    <3> TAKE k \in Released .. Len(sent) - 1
    <3>0. k \in Nat
      BY <1>0
    <3>1. Place(k) \in 0 .. Capacity - 1
      BY <3>0, Geometry
    <3>2. slots'[Place(k)] = slots[Place(k)]
      BY <1>0, <2>4, <3>1 DEF TypeOK
    <3> QED BY <3>2 DEF SlotInv
  <2>5a. slots'[Place(Len(sent))] = emitting
    BY <1>0 DEF TypeOK
  <2>6. SlotInv'
    BY <2>0, <2>2, <2>5, <2>5a DEF SlotInv
  <2> QED BY <2>1, <2>3, <2>6 DEF InOrder
<1>3. ASSUME ProduceCommit PROVE IInv'
  <2> USE <1>3 DEF ProduceCommit
  <2>0. emitting \in Frames /\ slots[Place(Len(sent))] = emitting
    BY DEF SlotInv
  <2>1. /\ Len(sent') = Len(sent) + 1
        /\ sent'[Len(sent) + 1] = emitting
        /\ \A k \in 1 .. Len(sent) : sent'[k] = sent[k]
        /\ sent' \in Seq(Frames)
    BY <2>0 DEF TypeOK
  <2>2. Released' = Released /\ Len(sent) - Released < Capacity
    BY DEF Released, IndexInv
  <2>3. head' = Wrap(Len(sent) + 1) /\ head' \in 0 .. IndexMod - 1
    BY <1>0, Geometry DEF IndexInv
  <2>4. TypeOK'
    BY <2>1, <2>3 DEF TypeOK
  <2>5. IndexInv'
    BY <1>0, <2>1, <2>2, <2>3, Constants DEF IndexInv
  <2>6. InOrder'
    BY <1>0, <2>1 DEF InOrder
  <2>7. SlotInv'
    BY <1>0, <2>0, <2>1, <2>2 DEF SlotInv
  <2> QED BY <2>4, <2>5, <2>6, <2>7
<1>4. ASSUME PollRelease PROVE IInv'
  <2> USE <1>4 DEF PollRelease
  <2>1. CASE pendingRead
    <3>1. Released' = Released + 1 /\ Len(seen) = Released + 1
      BY <2>1, <1>0 DEF Released
    <3>2. tail' = Wrap(Released + 1) /\ tail' \in 0 .. IndexMod - 1
      BY <2>1, <1>0, Geometry DEF IndexInv
    <3>3. Released + 1 <= Len(sent)
      BY <3>1 DEF InOrder
    <3>4. TypeOK'
      BY <3>2 DEF TypeOK
    <3>5. IndexInv'
      BY <1>0, <3>1, <3>2, <3>3, Constants DEF IndexInv
    <3>6. SlotInv'
      BY <1>0, <3>1, <3>3 DEF SlotInv
    <3> QED BY <3>4, <3>5, <3>6 DEF InOrder
  <2>2. CASE ~pendingRead
    <3>1. Released' = Released /\ tail' = tail
      BY <2>2 DEF Released, TypeOK
    <3> QED BY <2>2, <3>1, <1>0 DEF TypeOK, IndexInv, SlotInv, InOrder
  <2> QED BY <2>1, <2>2
<1>5. ASSUME PollEmpty PROVE IInv'
  <2>1. Released' = Released
    BY <1>5 DEF PollEmpty, Released
  <2> QED BY <1>5, <2>1 DEF PollEmpty, TypeOK, IndexInv, SlotInv, InOrder
<1>6. ASSUME poll = "released", head # tail
      PROVE  /\ ~pendingRead
             /\ Released = Len(seen)
             /\ Released < Len(sent)
             /\ slots[SlotOf(tail)] = sent[Len(seen) + 1]
             /\ sent[Len(seen) + 1] \in Frames
  <2>1. ~pendingRead
    BY <1>6 DEF SlotInv
  <2>2. Released = Len(seen)
    BY <2>1, <1>0 DEF Released
  <2>3. Released < Len(sent)
    BY <1>0, <1>6 DEF IndexInv
  <2>4. slots[Place(Released)] = sent[Released + 1]
    BY <1>0, <2>3 DEF SlotInv
  <2>5. sent[Len(seen) + 1] \in Frames
    BY <1>0, <2>2, <2>3 DEF TypeOK
  <2> QED BY <1>0, <2>1, <2>2, <2>3, <2>4, <2>5
<1>7. ASSUME PollDeliver PROVE IInv'
  <2> USE <1>7 DEF PollDeliver
  <2>1. /\ Len(seen') = Len(seen) + 1
        /\ seen'[Len(seen) + 1] = sent[Len(seen) + 1]
        /\ \A k \in 1 .. Len(seen) : seen'[k] = seen[k]
        /\ seen' \in Seq(Frames \cup {Garbage})
    BY <1>6 DEF TypeOK
  <2>2. Released' = Released
    BY <1>0, <1>6, <2>1 DEF Released
  <2>3. TypeOK'
    BY <2>1 DEF TypeOK
  <2>4. IndexInv'
    BY <2>2 DEF IndexInv
  <2>5. InOrder'
    BY <1>0, <1>6, <2>1 DEF InOrder
  <2>6. SlotInv'
    BY <2>2 DEF SlotInv
  <2> QED BY <2>3, <2>4, <2>5, <2>6
<1>8. ASSUME PollDiscard PROVE IInv'
  <2> USE <1>8 DEF PollDiscard
  <2>1. /\ Len(seen') = Len(seen) + 1
        /\ seen'[Len(seen) + 1] = sent[Len(seen) + 1]
        /\ \A k \in 1 .. Len(seen) : seen'[k] = seen[k]
        /\ seen' \in Seq(Frames \cup {Garbage})
    BY <1>6 DEF TypeOK
  <2>2. Released' = Released + 1
    BY <1>0, <1>6, <2>1 DEF Released
  <2>3. tail' = Wrap(Released + 1) /\ tail' \in 0 .. IndexMod - 1
    BY <1>0, Geometry DEF IndexInv
  <2>4. TypeOK'
    BY <2>1, <2>3 DEF TypeOK
  <2>5. IndexInv'
    BY <1>0, <1>6, <2>2, <2>3, Constants DEF IndexInv
  <2>6. InOrder'
    BY <1>0, <1>6, <2>1 DEF InOrder
  <2>7. SlotInv'
    BY <1>0, <1>6, <2>2 DEF SlotInv
  <2> QED BY <2>4, <2>5, <2>6, <2>7
<1>9. ASSUME HostRestart PROVE IInv'
  <2>1. Released' = Released
    BY <1>9 DEF HostRestart, Released
  <2> QED BY <1>9, <2>1 DEF HostRestart, TypeOK, IndexInv, SlotInv, InOrder
<1>10. ASSUME UNCHANGED vars PROVE IInv'
  <2>1. Released' = Released
    BY <1>10 DEF vars, Released
  <2> QED BY <1>10, <2>1 DEF vars, TypeOK, IndexInv, SlotInv, InOrder
<1> QED
  BY <1>1, <1>2, <1>3, <1>4, <1>5, <1>7, <1>8, <1>9, <1>10 DEF Next, Emit, Poll

(* The inductive invariant holds of every reachable state of the ring: the *)
(* 64-bit head and tail of ring.go stand for running totals at most a      *)
(* capacity apart, and each unreleased frame is intact in its slot.        *)
THEOREM RingInvariant == Spec => []IInv
BY InitIInv, StepIInv, PTL DEF Spec

(* Every state of the ring is well typed: no index leaves its word and no  *)
(* access leaves the mapped slots (ring.go slot, ProduceBegin,             *)
(* ConsumeBegin), whatever the capacity and word size.                     *)
THEOREM TypeCorrect == Spec => []TypeOK
BY RingInvariant, PTL DEF IInv

(* FIFO delivery for every geometry and any number of index wraps: what    *)
(* Poll takes out is exactly what emit committed, in order.                *)
THEOREM FifoDelivery == Spec => []InOrder
BY RingInvariant, PTL DEF IInv

(* The payload Poll hands out is not overwritten before the next Poll, for *)
(* every capacity and every schedule of the producer.                      *)
THEOREM HeldPayload == Spec => []HeldPayloadStable
<1>1. IInv => HeldPayloadStable
  <2> SUFFICES ASSUME IInv, pendingRead, poll = "idle"
               PROVE  slots[SlotOf(tail)] = seen[Len(seen)]
    BY DEF HeldPayloadStable
  <2>1. SlotOf(tail) = Place(Released) /\ Len(sent) \in Nat /\ Released \in Nat
    BY Totals DEF IInv
  <2>2. Len(seen) \in Nat /\ Released = Len(seen) - 1
    BY DEF IInv, TypeOK, Released
  <2>3. Released < Len(sent) /\ seen[Len(seen)] = sent[Released + 1]
    BY <2>1, <2>2 DEF IInv, InOrder
  <2> QED BY <2>1, <2>2, <2>3 DEF IInv, SlotInv
<1> QED BY <1>1, RingInvariant, PTL

-----------------------------------------------------------------------------
(* The ring as a bounded channel (FifoChannel).                            *)

(* An offset may be added before or after the wrap.                        *)
LEMMA Offset ==
    \A a, j \in Nat : ((a % IndexMod) + j) % Capacity = (a + j) % Capacity
<1> SUFFICES ASSUME NEW a \in Nat, NEW j \in Nat
             PROVE  ((a % IndexMod) + j) % Capacity = (a + j) % Capacity
  OBVIOUS
<1>1. PICK k \in 1 .. IndexMod : IndexMod = k * Capacity
  BY GeometryAssumption
<1> DEFINE q == a \div IndexMod
           r == a % IndexMod
           u == (r + j) \div Capacity
           t == (r + j) % Capacity
<1>2. q \in Int /\ r \in 0 .. IndexMod - 1 /\ a = IndexMod * q + r
  BY Constants, DivMod, IndexMod > 0
<1> HIDE DEF q, r
<1>3. u \in Int /\ t \in 0 .. Capacity - 1 /\ r + j = Capacity * u + t
  BY <1>2, Constants, DivMod, Capacity > 0, r + j \in Int
<1> HIDE DEF u, t
<1>4. k \in Nat /\ Capacity \in Nat /\ IndexMod * q = Capacity * (k * q)
  BY <1>1, <1>2, Constants
<1> DEFINE v == k * q + u
<1>5. v \in Int /\ a + j = Capacity * v + t
  BY <1>2, <1>3, <1>4
<1> HIDE DEF v
<1>6. (a + j) % Capacity = t
  BY <1>3, <1>5, Constants, ModIs, Capacity > 0, a + j \in Int
<1> QED BY <1>6 DEF t, r

(* The occupied slots, in index order, hold the unreleased frames.         *)
ContentsInv ==
    /\ Contents \in Seq(Frames) /\ Len(Contents) = Len(sent) - Released
    /\ \A i \in 1 .. Len(Contents) : Contents[i] = sent[Released + i]
    /\ sent \in Seq(Frames) /\ Len(sent) \in Nat /\ Len(seen) \in Nat /\ Released \in Nat

LEMMA ContentsAre == IInv => ContentsInv
<1> SUFFICES ASSUME IInv PROVE ContentsInv
  OBVIOUS
<1>1. /\ Len(sent) \in Nat /\ Released \in Nat /\ Released <= Len(sent)
      /\ Count = Len(sent) - Released /\ sent \in Seq(Frames)
  BY Totals DEF IInv, IndexInv, TypeOK
<1>2. ASSUME NEW i \in 1 .. Len(sent) - Released
      PROVE  slots[SlotOf(tail + i - 1)] = sent[Released + i] /\ sent[Released + i] \in Frames
  <2>2. PICK j \in Nat : i = j + 1
    BY <1>1
  <2>3. ((Released % IndexMod) + j) % Capacity = (Released + j) % Capacity
    BY <1>1, Offset
  <2>4. tail = Released % IndexMod /\ tail \in Nat
    BY DEF IInv, IndexInv, Wrap, TypeOK
  <2>5. SlotOf(tail + i - 1) = Place(Released + j)
    <3>1. tail + i - 1 = tail + j
      BY <2>2, <2>4
    <3> QED BY <2>3, <2>4, <3>1 DEF SlotOf, Place
  <2>6. Released + j \in Released .. Len(sent) - 1 /\ Released + j + 1 = Released + i
    BY <1>1, <2>2
  <2>7. slots[Place(Released + j)] = sent[Released + j + 1]
    BY <2>6 DEF IInv, SlotInv
  <2>8. Released + i \in 1 .. Len(sent)
    BY <1>1
  <2> QED BY <1>1, <2>5, <2>6, <2>7, <2>8
<1>3. Contents = [i \in 1 .. Len(sent) - Released |-> sent[Released + i]]
  BY <1>1, <1>2 DEF Contents
<1>4. Contents \in [1 .. Len(sent) - Released -> Frames]
  BY <1>2, <1>3
<1>5. Len(sent) - Released \in Nat
  BY <1>1
<1>6. Contents \in Seq(Frames) /\ Len(Contents) = Len(sent) - Released
  BY <1>4, <1>5
<1> QED BY <1>1, <1>3, <1>6 DEF ContentsInv, IInv, TypeOK

(* Sequences of one length with equal elements are equal.                  *)
LEMMA SameElements ==
  ASSUME NEW S, NEW s \in Seq(S), NEW t \in Seq(S), Len(s) = Len(t),
         \A i \in 1 .. Len(s) : s[i] = t[i]
  PROVE  s = t
OBVIOUS

LEMMA TailIs ==
  ASSUME NEW S, NEW s \in Seq(S), Len(s) >= 1
  PROVE  /\ s # <<>> /\ Tail(s) \in Seq(S) /\ Len(Tail(s)) = Len(s) - 1
         /\ \A i \in 1 .. Len(s) - 1 : Tail(s)[i] = s[i + 1]
OBVIOUS

(* A freshly laid out ring is an empty channel.                            *)
LEMMA ChannelInit == Init => Channel!Init
<1> SUFFICES ASSUME Init PROVE Channel!Init
  OBVIOUS
<1>1. IInv
  BY InitIInv
<1>2. Len(sent) - Released = 0
  BY DEF Init, Released
<1>3. Len(Contents) = 0 /\ Contents \in Seq(Frames)
  BY <1>1, <1>2, ContentsAre DEF ContentsInv
<1>4. Contents = <<>>
  BY <1>3
<1> QED BY <1>4 DEF Init, Channel!Init

(* Each step of emit and of Poll is a step of the channel or none.         *)
LEMMA ChannelStep == IInv /\ [Next]_vars => [Channel!Next]_(Channel!vars)
<1> SUFFICES ASSUME IInv, [Next]_vars PROVE Channel!Next \/ UNCHANGED <<Contents, pendingRead>>
  BY DEF Channel!vars
<1>0. IInv'
  BY StepIInv
<1>1. /\ Contents \in Seq(Frames) /\ Len(Contents) = Len(sent) - Released
      /\ \A i \in 1 .. Len(Contents) : Contents[i] = sent[Released + i]
      /\ sent \in Seq(Frames) /\ Len(sent) \in Nat /\ Len(seen) \in Nat /\ Released \in Nat
  BY ContentsAre DEF ContentsInv
<1>2a. ContentsInv'
  BY <1>0, ContentsAre, PTL
<1>2. /\ Contents' \in Seq(Frames) /\ Len(Contents') = Len(sent') - Released'
      /\ \A i \in 1 .. Len(Contents') : Contents'[i] = sent'[Released' + i]
  BY <1>2a DEF ContentsInv
<1> USE DEF producer, consumer
<1>3. ASSUME sent' = sent, Released' = Released PROVE Contents' = Contents
  BY <1>1, <1>2, <1>3, SameElements
<1>4. ASSUME sent' = sent, Released' = Released + 1
      PROVE  Contents # <<>> /\ Contents' = Tail(Contents)
  <2>1. Len(Contents) >= 1 /\ Len(Contents') = Len(Contents) - 1
    BY <1>1, <1>2, <1>4
  <2>2. /\ Contents # <<>>
        /\ Tail(Contents) \in Seq(Frames) /\ Len(Tail(Contents)) = Len(Contents) - 1
        /\ \A i \in 1 .. Len(Contents) - 1 : Tail(Contents)[i] = Contents[i + 1]
    BY <1>1, <2>1, TailIs
  <2>3. \A i \in 1 .. Len(Contents') : Contents'[i] = Tail(Contents)[i]
    <3> TAKE i \in 1 .. Len(Contents')
    <3>1. i \in 1 .. Len(Contents) - 1 /\ i + 1 \in 1 .. Len(Contents)
      BY <1>1, <2>1
    <3>2. Contents'[i] = sent[(Released + 1) + i] /\ Contents[i + 1] = sent[Released + (i + 1)]
      BY <1>1, <1>2, <1>4, <3>1
    <3>3. (Released + 1) + i = Released + (i + 1)
      BY <1>1, <3>1
    <3> QED BY <2>2, <3>1, <3>2, <3>3
  <2> QED BY <1>2, <2>1, <2>2, <2>3, SameElements
<1>5. CASE (\E f \in Frames : EmitBegin(f)) \/ EmitCopy \/ PollEmpty \/ HostRestart
  BY <1>3, <1>5 DEF EmitBegin, EmitCopy, PollEmpty, HostRestart, Released
<1>6. CASE ProduceCommit
  <2>1. /\ sent' = Append(sent, emitting) /\ emitting \in Frames /\ pendingRead' = pendingRead
        /\ Released' = Released /\ Len(sent) - Released < Capacity
    BY <1>6 DEF ProduceCommit, IInv, IndexInv, SlotInv, Released
  <2>2. Len(sent') = Len(sent) + 1
    BY <1>1, <2>1
  <2>3. /\ sent'[Len(sent) + 1] = emitting
        /\ \A k \in 1 .. Len(sent) : sent'[k] = sent[k]
    BY <1>1, <2>1
  <2>4. Len(Contents) < Capacity /\ Len(Contents') = Len(Contents) + 1
    BY <1>1, <1>2, <2>1, <2>2
  <2>5. /\ Append(Contents, emitting) \in Seq(Frames)
        /\ Len(Append(Contents, emitting)) = Len(Contents) + 1
        /\ Append(Contents, emitting)[Len(Contents) + 1] = emitting
        /\ \A i \in 1 .. Len(Contents) : Append(Contents, emitting)[i] = Contents[i]
    BY <1>1, <2>1
  <2>6. \A i \in 1 .. Len(Contents') : Contents'[i] = Append(Contents, emitting)[i]
    <3> TAKE i \in 1 .. Len(Contents')
    <3>1. Contents'[i] = sent'[Released + i]
      BY <1>2, <2>1
    <3>2. CASE i = Len(Contents) + 1
      BY <1>1, <2>3, <2>5, <3>1, <3>2
    <3>3. CASE i # Len(Contents) + 1
      <4>1. i \in 1 .. Len(Contents) /\ Released + i \in 1 .. Len(sent)
        BY <1>1, <2>4, <3>3
      <4> QED BY <1>1, <2>3, <2>5, <3>1, <4>1
    <3> QED BY <3>2, <3>3
  <2>7. Contents' = Append(Contents, emitting)
    BY <1>2, <2>4, <2>5, <2>6, SameElements
  <2> QED BY <2>1, <2>4, <2>7 DEF Channel!Next, Channel!Send
<1>7. CASE PollRelease
  <2>1. sent' = sent /\ pendingRead' = FALSE /\ seen' = seen
    BY <1>7 DEF PollRelease
  <2>2. CASE pendingRead
    <3>1. Released' = Released + 1
      BY <1>1, <2>1, <2>2 DEF Released
    <3> QED BY <1>4, <2>1, <2>2, <3>1 DEF Channel!Next, Channel!Release
  <2>3. CASE ~pendingRead
    <3>1. Released' = Released /\ pendingRead' = pendingRead
      BY <2>1, <2>3 DEF Released, IInv, TypeOK
    <3> QED BY <1>3, <2>1, <3>1
  <2> QED BY <2>2, <2>3
<1>8. CASE PollDeliver
  <2>1. /\ sent' = sent /\ pendingRead' = TRUE /\ ~pendingRead /\ head # tail
        /\ seen' = Append(seen, slots[SlotOf(tail)])
    BY <1>8 DEF PollDeliver, IInv, SlotInv
  <2>2. Len(seen') = Len(seen) + 1
    BY <2>1 DEF IInv, TypeOK
  <2>3. Released' = Released
    BY <1>1, <2>1, <2>2 DEF Released
  <2>4. Contents # <<>>
    <3>1. Len(sent) # Released
      BY <2>1 DEF IInv, IndexInv
    <3>2. Len(Contents) >= 1
      BY <1>1, <3>1
    <3> QED BY <1>1, <3>2, TailIs
  <2> QED BY <1>3, <2>1, <2>3, <2>4 DEF Channel!Next, Channel!Hold
<1>9. CASE PollDiscard
  <2>1. /\ sent' = sent /\ pendingRead' = pendingRead /\ ~pendingRead
        /\ seen' = Append(seen, slots[SlotOf(tail)])
    BY <1>9 DEF PollDiscard, IInv, SlotInv
  <2>2. Len(seen') = Len(seen) + 1
    BY <2>1 DEF IInv, TypeOK
  <2>3. Released' = Released + 1
    BY <1>1, <2>1, <2>2 DEF Released
  <2> QED BY <1>4, <2>1, <2>3 DEF Channel!Next, Channel!Discard
<1>10. CASE UNCHANGED vars
  BY <1>3, <1>10 DEF vars, Released
<1> QED BY <1>5, <1>6, <1>7, <1>8, <1>9, <1>10 DEF Next, Emit, Poll

(* The ring of emit and Poll implements a bounded FIFO channel of Capacity *)
(* places, the held event's included, for every capacity and word size.    *)
THEOREM RingIsChannel == Spec => ImplementsChannel
<1>1. Init => Channel!Init
  BY ChannelInit
<1>2. IInv /\ [Next]_vars => [Channel!Next]_(Channel!vars)
  BY ChannelStep
<1> QED BY <1>1, <1>2, RingInvariant, PTL DEF Spec, ImplementsChannel, Channel!Spec

-----------------------------------------------------------------------------
(* The link.                                                               *)

Dialing == {"dial", "connect", "retry"}
Asking == {"request", "reply"}

LinkTypes ==
    /\ pc \in Dialing \cup Asking \cup Attaching \cup Returned
    /\ ctxDone \in BOOLEAN /\ beating \in BOOLEAN /\ pending \in BOOLEAN
    /\ slot \in {"none", "held", "reaped"}
    /\ age \in Nat /\ late \in Nat /\ countdown \in Nat /\ missed \in Nat

(* The mappings the attempt has at each of its points, and those that are  *)
(* in the fields of the Client and not in local variables.                 *)
Mapped == CASE pc = "arena" -> {"control"}
            [] pc = "queue" -> {"control", "arena"}
            [] pc \in {"validate", "pair", "ready", "attached"} -> Regions
            [] OTHER -> {}

ResourceInv ==
    /\ sock <=> pc \in {"connect"} \cup Asking \cup Attaching
    /\ open = IF pc \in {"check", "arena", "queue"} THEN fds \cup unread ELSE unread
    /\ fds \cap unread = {}
    /\ mapped = Mapped
    /\ kept = IF pc \in {"arena", "queue"} THEN {} ELSE mapped
    /\ pc \in Dialing \cup Asking => answer = "none" /\ fds = {} /\ unread = {}
    /\ pc \in Attaching \ {"check", "error"} => answer = "granted"

(* How old the heartbeat can be, and what the goroutine's clocks say.      *)
HeartbeatAge ==
    IF pending
    THEN /\ late = Interval - countdown
         /\ late <= Lateness
         /\ age <= (missed + 1) * Interval + Lateness + late
    ELSE age <= missed * Interval + (Interval - countdown) + Lateness

TimeInv ==
    /\ pc \in Dialing \cup Asking => slot = "none"
    /\ pc \notin {"attached", "detached"} => ~beating
    /\ ~beating => ~pending
    /\ beating => countdown \in 1 .. Interval
    /\ pc \in Dialing \cup Asking \cup Attaching => missed = 0
    /\ pc \in Attaching /\ answer = "granted" =>
         slot = "held" /\ age = late /\ late <= Lateness
    /\ pc \in Attaching /\ answer # "granted" => slot = "none"
    /\ pc = "attached" /\ ~ctxDone =>
         /\ beating
         /\ slot = "held"
         /\ missed <= MaxMissed
         /\ HeartbeatAge

LinkInv == LinkTypes /\ ResourceInv /\ TimeInv

-----------------------------------------------------------------------------
(* Arithmetic the provers do not find by themselves.                       *)
LEMMA Scale ==
  ASSUME NEW m \in Nat, NEW n \in Nat, NEW k \in Nat, m <= n
  PROVE  /\ m * k \in Nat /\ n * k \in Nat
         /\ m * k <= n * k
         /\ (m + 1) * k = m * k + k
         /\ 0 * k = 0
<1>1. n = m + (n - m) /\ n - m \in Nat
  OBVIOUS
<1>2. n * k = m * k + (n - m) * k
  BY <1>1
<1>3. (n - m) * k \in Nat
  BY <1>1
<1> QED BY <1>2, <1>3

(* While the context lives the heartbeat of an attached client is inside   *)
(* the window, at every moment and not just at a beat.                     *)
LEMMA AgeWithinWindow ==
  ASSUME LinkTypes, TimeInv, pc = "attached", ~ctxDone
  PROVE  age <= Window
<1>1. /\ missed * Interval \in Nat /\ MaxMissed * Interval \in Nat
      /\ missed * Interval <= MaxMissed * Interval
      /\ (missed + 1) * Interval = missed * Interval + Interval
      /\ (MaxMissed + 1) * Interval = MaxMissed * Interval + Interval
  BY LinkAssumption, Scale DEF LinkTypes, TimeInv
<1> QED BY <1>1, LinkAssumption DEF LinkTypes, TimeInv, HeartbeatAge

LEMMA InitLinkInv == LinkInit => LinkInv
<1> SUFFICES ASSUME LinkInit PROVE LinkInv
  OBVIOUS
<1> USE DEF LinkInit, Dialing, Asking, Attaching, Returned
<1>1. LinkTypes
  BY DEF LinkTypes
<1>2. ResourceInv
  BY DEF ResourceInv, Mapped
<1>3. TimeInv
  BY DEF TimeInv
<1> QED BY <1>1, <1>2, <1>3 DEF LinkInv

(* Each step of the client, of its goroutine, of the host and of time      *)
(* preserves what is held where.                                           *)
LEMMA StepResources == LinkInv /\ [LinkNext]_linkVars => ResourceInv'
<1> SUFFICES ASSUME LinkInv, [LinkNext]_linkVars PROVE ResourceInv'
  OBVIOUS
<1> USE DEF ResourceInv, Mapped, Regions, Dialing, Asking, Attaching, Returned, resources, rights
<1>0. LinkTypes /\ ResourceInv
  BY DEF LinkInv
<1>1. CASE Dial
  BY <1>0, <1>1 DEF Dial, OpenSocket, SocketFails, Connected, ConnectFails, Retry,
     RetryContext
<1>2. CASE Request
  BY <1>0, <1>2 DEF Request
<1>3. CASE HostAnswers
  <2>1. CASE Reply
    <3>1. PICK n \in 0 .. MaxRights :
            /\ open' = 1 .. n
            /\ \/ fds' = 1 .. n /\ unread' = {}
               \/ fds' = {} /\ unread' = 1 .. n
      BY <2>1 DEF Reply
    <3>2. open' = fds' \cup unread' /\ fds' \cap unread' = {}
      BY <3>1
    <3> QED BY <1>0, <2>1, <3>2 DEF Reply
  <2>2. CASE ReplyFails
    BY <1>0, <2>2 DEF ReplyFails
  <2> QED BY <1>3, <2>1, <2>2 DEF HostAnswers
<1>4. CASE RefuseReply \/ MapRegions \/ MapFails
  <2> USE DEF closeAll
  <2>1. (fds \cup unread) \ fds = unread
    BY <1>0
  <2>2. CASE RefuseReply
    BY <1>0, <2>1, <2>2 DEF RefuseReply, Malformed, Denied, WrongCount
  <2>3. CASE MapRegions
    <3>1. CASE MapControl
      BY <1>0, <2>1, <3>1 DEF MapControl, Accepted
    <3>2. CASE MapArena
      BY <1>0, <2>1, <3>2 DEF MapArena
    <3>3. CASE MapQueue
      BY <1>0, <2>1, <3>3 DEF MapQueue
    <3> QED BY <2>3, <3>1, <3>2, <3>3 DEF MapRegions
  <2>4. CASE MapFails
    <3>1. CASE ControlFails
      BY <1>0, <2>1, <3>1 DEF ControlFails, Accepted
    <3>2. CASE ArenaFails
      BY <1>0, <2>1, <3>2 DEF ArenaFails
    <3>3. CASE QueueFails
      BY <1>0, <2>1, <3>3 DEF QueueFails
    <3> QED BY <2>4, <3>1, <3>2, <3>3 DEF MapFails
  <2> QED BY <1>4, <2>2, <2>3, <2>4
<1>5. CASE Validate \/ ValidateFails \/ AttachReturns
  BY <1>0, <1>5 DEF Validate, ValidateFails, unmapFields, AttachReturns, AttachFailed, Attached
<1>6. CASE KeepAlive
  BY <1>0, <1>6 DEF KeepAlive, Beat, BeatUnmapped, StopBeating
<1>7. CASE Detach
  BY <1>0, <1>7 DEF Detach, unmapFields
<1>8. CASE EndContext \/ Tick \/ Reap \/ UNCHANGED linkVars
  BY <1>0, <1>8 DEF EndContext, Tick, Reap, linkVars
<1> QED BY <1>1, <1>2, <1>3, <1>4, <1>5, <1>6, <1>7, <1>8 DEF LinkNext, Attach

LEMMA StepTypes == LinkInv /\ [LinkNext]_linkVars => LinkTypes'
<1> SUFFICES ASSUME LinkInv, [LinkNext]_linkVars PROVE LinkTypes'
  OBVIOUS
<1> USE LinkAssumption DEF LinkInv, LinkTypes, Dialing, Asking, Attaching, Returned,
    host, ticker
<1>1. CASE Dial
  BY <1>1 DEF Dial, OpenSocket, SocketFails, Connected, ConnectFails, Retry, RetryContext
<1>2. CASE Request \/ HostAnswers
  BY <1>2 DEF Request, HostAnswers, Reply, ReplyFails
<1>3. CASE Attach
  <2>1. CASE RefuseReply \/ MapRegions
    BY <2>1 DEF RefuseReply, Malformed, Denied, WrongCount, MapRegions, MapControl,
       MapArena, MapQueue
  <2>2. CASE MapFails \/ Validate \/ ValidateFails
    BY <2>2 DEF MapFails, ControlFails, ArenaFails, QueueFails, Validate, ValidateFails
  <2>3. CASE AttachFailed
    BY <2>3 DEF AttachFailed
  <2>4. CASE Attached
    BY <2>4 DEF Attached
  <2> QED BY <1>3, <2>1, <2>2, <2>3, <2>4 DEF Attach, AttachReturns
<1>4. CASE KeepAlive
  <2>1. CASE Beat
    <3>1. age' \in Nat /\ missed' \in Nat
      BY <2>1 DEF Beat
    <3> QED BY <2>1, <3>1 DEF Beat
  <2>2. CASE BeatUnmapped
    BY <2>2 DEF BeatUnmapped
  <2>3. CASE StopBeating
    BY <2>3 DEF StopBeating
  <2> QED BY <1>4, <2>1, <2>2, <2>3 DEF KeepAlive
<1>5. CASE Detach \/ EndContext \/ Reap \/ UNCHANGED linkVars
  BY <1>5 DEF Detach, EndContext, Reap, linkVars
<1>6. CASE Tick
  <2>1. countdown' \in Nat
    BY <1>6 DEF Tick, TimeInv
  <2>2. pending' \in BOOLEAN
    BY <1>6 DEF Tick
  <2> QED BY <1>6, <2>1, <2>2 DEF Tick, Due
<1> QED BY <1>1, <1>2, <1>3, <1>4, <1>5, <1>6 DEF LinkNext

(* Time: the steps that move a clock of the heartbeat are Reply,           *)
(* Attached, Beat and Tick; Reap finds nothing to take.                    *)
LEMMA StepTime == LinkInv /\ [LinkNext]_linkVars => TimeInv'
<1> SUFFICES ASSUME LinkInv, [LinkNext]_linkVars PROVE TimeInv'
  OBVIOUS
<1> USE DEF Dialing, Asking, Attaching, host, ticker
<1>0. LinkTypes /\ TimeInv /\ ResourceInv
  BY DEF LinkInv
<1>1. CASE Dial
  BY <1>0, <1>1 DEF Dial, OpenSocket, SocketFails, Connected, ConnectFails, Retry,
     RetryContext, resources, TimeInv
<1>2. CASE Request \/ ReplyFails
  BY <1>0, <1>2 DEF Request, ReplyFails, resources, ResourceInv, TimeInv
<1>3. CASE Reply
  BY <1>0, <1>3, LinkAssumption DEF Reply, TimeInv
<1>4. CASE Attach /\ ~Attached
  <2>1. /\ pc \in Attaching /\ pc' \in Attaching \cup {"failed"}
        /\ UNCHANGED <<answer, ctxDone, host, ticker>>
    <3>1. CASE RefuseReply
      BY <3>1 DEF RefuseReply, Malformed, Denied, WrongCount
    <3>2. CASE MapRegions
      BY <3>2 DEF MapRegions, MapControl, Accepted, MapArena, MapQueue
    <3>3. CASE MapFails
      BY <3>3 DEF MapFails, ControlFails, Accepted, ArenaFails, QueueFails
    <3>4. CASE Validate \/ ValidateFails \/ AttachFailed
      BY <3>4 DEF Validate, ValidateFails, AttachFailed, resources
    <3> QED BY <1>4, <3>1, <3>2, <3>3, <3>4 DEF Attach, AttachReturns
  <2> QED BY <1>0, <2>1 DEF TimeInv
<1>5. CASE Attached
  <2>1. pc = "ready" /\ missed = 0 /\ age = late /\ late <= Lateness /\ slot = "held"
    BY <1>0, <1>5 DEF Attached, TimeInv, ResourceInv
  <2>2. /\ pc' = "attached" /\ beating' /\ ~pending' /\ countdown' = Interval
        /\ age' = age /\ slot' = slot /\ missed' = 0
    BY <1>5, <2>1 DEF Attached
  <2>3. missed' * Interval = 0
    BY <2>2, LinkAssumption
  <2>4. HeartbeatAge'
    BY <1>0, <2>1, <2>2, <2>3, LinkAssumption DEF HeartbeatAge, LinkTypes
  <2> QED BY <2>1, <2>2, <2>4, LinkAssumption DEF TimeInv
<1>6. CASE Beat
  <2>1. pc = "attached" /\ pc' = pc /\ beating /\ beating' = beating /\ pending
        /\ ctxDone' = ctxDone /\ slot' = slot /\ countdown' = countdown /\ ~pending'
    BY <1>6 DEF Beat
  <2>2. SUFFICES ASSUME ~ctxDone
                 PROVE  missed' <= MaxMissed /\ HeartbeatAge'
    BY <1>0, <2>1 DEF TimeInv
  <2>3. /\ countdown \in 1 .. Interval /\ missed <= MaxMissed
        /\ late = Interval - countdown
        /\ age <= (missed + 1) * Interval + Lateness + late
    BY <1>0, <2>1, <2>2 DEF TimeInv, HeartbeatAge
  <2>4. CASE age' = 0 /\ missed' = 0
    <3>1. missed' * Interval = 0
      BY <2>4, LinkAssumption
    <3> QED BY <2>1, <2>3, <2>4, <3>1, LinkAssumption DEF HeartbeatAge
  <2>5. CASE missed < MaxMissed /\ missed' = missed + 1 /\ UNCHANGED age
    BY <1>0, <2>1, <2>3, <2>5, LinkAssumption DEF HeartbeatAge, LinkTypes
  <2> QED BY <1>6, <2>4, <2>5 DEF Beat
<1>7. CASE BeatUnmapped \/ StopBeating \/ Detach \/ EndContext
  BY <1>0, <1>7 DEF BeatUnmapped, StopBeating, Detach, EndContext, resources, TimeInv,
     LinkTypes, HeartbeatAge
<1>8. CASE Tick
  <2>1. /\ UNCHANGED <<pc, answer, ctxDone, slot, beating, missed>>
        /\ age' = age + 1 /\ slot = "held"
    BY <1>8 DEF Tick, resources
  <2>2. CASE pc \in Attaching
    <3>1. ~beating /\ ~pending /\ age = late /\ late < Lateness /\ late' = late + 1
      BY <1>0, <1>8, <2>2 DEF Tick, Due, TimeInv
    <3>2. ~pending'
      BY <1>8, <3>1 DEF Tick
    <3> QED BY <1>0, <2>1, <2>2, <3>1, <3>2, LinkAssumption DEF TimeInv, LinkTypes
  <2>3. CASE pc = "attached" /\ ~ctxDone
    <3>0. /\ beating /\ countdown \in 1 .. Interval /\ HeartbeatAge
          /\ missed * Interval \in Nat
          /\ (missed + 1) * Interval = missed * Interval + Interval
      BY <1>0, <2>3, LinkAssumption, Scale DEF TimeInv, LinkTypes
    <3>1. CASE pending
      <4>1. late < Lateness /\ late' = late + 1 /\ pending'
        BY <1>8, <3>1 DEF Tick, Due
      <4>2. countdown > 1 /\ countdown' = countdown - 1
        BY <1>0, <1>8, <3>0, <3>1, <4>1, LinkAssumption DEF Tick, HeartbeatAge, LinkTypes
      <4>3. HeartbeatAge'
        BY <1>0, <2>1, <3>0, <3>1, <4>1, <4>2, LinkAssumption DEF HeartbeatAge, LinkTypes
      <4> QED BY <1>0, <2>1, <2>3, <3>0, <4>2, <4>3, LinkAssumption DEF TimeInv
    <3>2. CASE ~pending /\ countdown = 1
      <4>1. late' = 0 /\ pending' /\ countdown' = Interval
        BY <1>8, <2>3, <3>0, <3>2 DEF Tick, Due
      <4>2. HeartbeatAge'
        BY <1>0, <2>1, <3>0, <3>2, <4>1, LinkAssumption DEF HeartbeatAge, LinkTypes
      <4> QED BY <1>0, <2>1, <2>3, <3>0, <4>1, <4>2, LinkAssumption DEF TimeInv
    <3>3. CASE ~pending /\ countdown # 1
      <4>1. ~pending' /\ countdown' = countdown - 1
        BY <1>8, <3>0, <3>3 DEF Tick
      <4>2. HeartbeatAge'
        BY <1>0, <2>1, <3>0, <3>3, <4>1, LinkAssumption DEF HeartbeatAge, LinkTypes
      <4> QED BY <1>0, <2>1, <2>3, <3>0, <3>3, <4>1, <4>2, LinkAssumption DEF TimeInv
    <3> QED BY <1>0, <3>1, <3>2, <3>3 DEF LinkTypes
  <2>4. CASE ~(pc \in Attaching) /\ ~(pc = "attached" /\ ~ctxDone)
    <3>1. beating' => countdown' \in 1 .. Interval
      BY <1>0, <1>8, LinkAssumption DEF Tick, TimeInv, LinkTypes
    <3>2. ~beating' => ~pending'
      BY <1>0, <1>8 DEF Tick, TimeInv
    <3> QED BY <1>0, <2>1, <2>4, <3>1, <3>2 DEF TimeInv
  <2> QED BY <2>2, <2>3, <2>4
<1>9. CASE Reap
  <2>1. CASE pc \in Attaching
    <3>1. Lateness <= Window
      BY LinkAssumption, Scale
    <3> QED BY <1>0, <1>9, <2>1, <3>1, LinkAssumption DEF Reap, resources, TimeInv, LinkTypes
  <2>2. CASE pc = "attached" /\ ~ctxDone
    BY <1>0, <1>9, <2>2, AgeWithinWindow, LinkAssumption DEF Reap, resources, LinkTypes
  <2>3. CASE ~(pc \in Attaching) /\ ~(pc = "attached" /\ ~ctxDone)
    BY <1>0, <1>9, <2>3 DEF Reap, resources, TimeInv, HeartbeatAge
  <2> QED BY <2>1, <2>2, <2>3
<1>10. CASE UNCHANGED linkVars
  BY <1>0, <1>10 DEF linkVars, resources, TimeInv, HeartbeatAge
<1> QED
  BY <1>1, <1>2, <1>3, <1>4, <1>5, <1>6, <1>7, <1>8, <1>9, <1>10
  DEF LinkNext, HostAnswers, KeepAlive

(* The inductive invariant holds of every reachable state of the link.     *)
THEOREM LinkInvariant == LinkSpec => []LinkInv
<1>1. LinkInv /\ [LinkNext]_linkVars => LinkInv'
  BY StepTypes, StepResources, StepTime DEF LinkInv
<1> QED BY <1>1, InitLinkInv, PTL DEF LinkSpec

(* Every branch on which ConnectClient or AttachAs fails gives back what   *)
(* was acquired before it, at whatever point that is and whatever the host *)
(* sent; a client that is returned keeps its three mappings, a detached    *)
(* one nothing.                                                            *)
THEOREM NoLeak == LinkSpec => []ReturnLeaksNothing
<1>1. LinkInv => ReturnLeaksNothing
  BY DEF LinkInv, ResourceInv, Mapped, ReturnLeaksNothing, Returned, Dialing, Asking, Attaching
<1> QED BY <1>1, LinkInvariant, PTL

(* keepAlive keeps an idle caller's slot for every heartbeat interval and  *)
(* every stale window with room for the missed beats and two latenesses.   *)
THEOREM SlotKept == LinkSpec => []IdleCallerKeepsSlot
<1>1. LinkInv => IdleCallerKeepsSlot
  BY DEF LinkInv, TimeInv, IdleCallerKeepsSlot
<1> QED BY <1>1, LinkInvariant, PTL
=============================================================================
