---------------------------- MODULE RepairProofs ----------------------------
(***************************************************************************)
(* What the proofs about loops share, and what they say of history repair  *)
(* (Repair).                                                               *)
(*                                                                         *)
(* A set of positions that holds 0 and the successor of each of its        *)
(* members holds them all (Upwards), for else there were a least one that  *)
(* it lacks. So a fold goes through its prefixes (FoldExists, FoldPath).   *)
(*                                                                         *)
(* History repair: an answer adds one result, of its own call, in one      *)
(* place (AnswerIs), and keeps the calls (AnswerKept). What is dropped     *)
(* leaves the rest in order, each element with a place of its own          *)
(* (WithoutIs, DropIs). So a history of one format comes out well formed   *)
(* (RepairedIs), a well-formed one is left as it is (WellFormedStays), and *)
(* a second repair changes nothing (RepairTwice); no result is doubled on  *)
(* the way (RepairedOnce).                                                 *)
(***************************************************************************)
EXTENDS Repair, Integers, FiniteSetsExt, FiniteSetTheorems, WellFoundedInduction, TLAPS

-----------------------------------------------------------------------------
(* A set of subsets of a finite set has a least one.                       *)
LEMMA LeastSubset ==
  ASSUME NEW S, IsFiniteSet(S), NEW T, T \subseteq SUBSET S, T # {}
  PROVE  \E t \in T : \A y \in T : y \subseteq t => y = t
<1>1. IsWellFoundedOn(StrictSubsetOrdering(S), SUBSET S)
  BY FS_StrictSubsetOrderingWellFounded, FS_FiniteSubsetsOfFinite
<1>2. PICK t \in T : \A y \in T : ~ (<<y, t>> \in StrictSubsetOrdering(S))
  BY <1>1, WFMin
<1>3. \A y \in T : y \subseteq t => y = t
  BY <1>2 DEF StrictSubsetOrdering
<1> QED BY <1>3

(* A finite set of integers has a least and a greatest element.            *)
LEMMA Extremes ==
  ASSUME NEW S, IsFiniteSet(S), \A x \in S : x \in Int, S # {}
  PROVE  (\E x \in S : \A y \in S : x <= y) /\ (\E x \in S : \A y \in S : x >= y)
<1>0. \A V \in SUBSET SUBSET S : V # {} => \E t \in V : \A y \in V : y \subseteq t => y = t
  BY LeastSubset
<1> DEFINE Low(s) == \E x \in s : \A y \in s : x <= y
           High(s) == \E x \in s : \A y \in s : x >= y
           T == {s \in SUBSET S : s # {} /\ ~(Low(s) /\ High(s))}
<1> SUFFICES ASSUME T # {} PROVE FALSE
  OBVIOUS
<1>1. PICK s \in T : \A y \in T : y \subseteq s => y = s
  <2>1. T \in SUBSET SUBSET S
    OBVIOUS
  <2> HIDE DEF T
  <2>2. \E t \in T : \A y \in T : y \subseteq t => y = t
    BY <1>0, <2>1
  <2> QED BY <2>2
<1>2. PICK e \in s : TRUE
  OBVIOUS
<1>3. s \ {e} # {}
  BY <1>1, <1>2
<1>4. Low(s \ {e}) /\ High(s \ {e})
  <2> HIDE DEF Low, High
  <2> QED BY <1>1, <1>2, <1>3
<1>5. s \subseteq Int
  OBVIOUS
<1>6. Low(s)
  <2> PICK x \in s \ {e} : \A y \in s \ {e} : x <= y
    BY <1>4
  <2> PICK z : z = IF x <= e THEN x ELSE e
    OBVIOUS
  <2> QED BY <1>2, <1>5
<1>7. High(s)
  <2> PICK x \in s \ {e} : \A y \in s \ {e} : x >= y
    BY <1>4
  <2> PICK z : z = IF x >= e THEN x ELSE e
    OBVIOUS
  <2> QED BY <1>2, <1>5
<1> QED BY <1>1, <1>6, <1>7

(* Min of a finite set of integers is its least element.                   *)
LEMMA MinIs ==
  ASSUME NEW S, IsFiniteSet(S), S \subseteq Int, S # {}
  PROVE  Min(S) \in S /\ \A y \in S : Min(S) <= y
BY Extremes DEF Min

(* Max of a finite set of integers is its greatest element.                *)
LEMMA MaxIs ==
  ASSUME NEW S, IsFiniteSet(S), S \subseteq Int, S # {}
  PROVE  Max(S) \in S /\ \A y \in S : Max(S) >= y
BY Extremes DEF Max

-----------------------------------------------------------------------------
(* The first n positions are n.                                            *)
LEMMA IntervalCount ==
  ASSUME NEW n \in Nat
  PROVE  IsFiniteSet(1 .. n) /\ Cardinality(1 .. n) = n
<1>1. 1 \in Int /\ n \in Int
  OBVIOUS
<1>2. IsFiniteSet(1 .. n) /\ Cardinality(1 .. n) = IF 1 > n THEN 0 ELSE n - 1 + 1
  BY <1>1, FS_Interval
<1> QED BY <1>2

(* A set of positions that holds 0 and the next of each holds them all.    *)
LEMMA Upwards ==
  ASSUME NEW n \in Nat, NEW H, 0 \in H, \A k \in 1 .. n : k - 1 \in H => k \in H
  PROVE  0 .. n \subseteq H
<1> DEFINE M == {k \in 0 .. n : k \notin H}
<1> SUFFICES ASSUME M # {} PROVE FALSE
  OBVIOUS
<1>1. IsFiniteSet(0 .. n) /\ M \in SUBSET (0 .. n)
  BY FS_Interval
<1>2. IsFiniteSet(M) /\ M \subseteq Int
  BY <1>1, FS_Subset
<1>3. Min(M) \in M /\ \A k \in M : Min(M) <= k
  <2> HIDE DEF M
  <2> QED BY <1>2, MinIs
<1>4. PICK k \in M : \A j \in M : k <= j
  BY <1>3
<1>5. k \in 1 .. n /\ k - 1 \notin M /\ k - 1 \in 0 .. n
  BY <1>4
<1> QED BY <1>4, <1>5

(* The recursion of FoldLeft, for a step that is a function.               *)
IsFold(f, n, base, step) ==
    f = [s \in SUBSET (1 .. n) |-> IF s = {} THEN base ELSE step[Max(s)][f[s \ {Max(s)}]]]

(* Max of a set of positions is one of them.                               *)
LEMMA MaxOf ==
  ASSUME NEW n \in Nat, NEW s \in SUBSET (1 .. n), s # {}
  PROVE  Max(s) \in s /\ Max(s) \in 1 .. n
<1>1. IsFiniteSet(1 .. n)
  BY FS_Interval
<1>2. IsFiniteSet(s)
  BY <1>1, FS_Subset
<1>3. s \subseteq Int
  OBVIOUS
<1> QED BY <1>2, <1>3, MaxIs

(* A step that stays in a set has a fold with values in the set.           *)
LEMMA FoldExists ==
  ASSUME NEW n \in Nat, NEW V, NEW base \in V, NEW step \in [1 .. n -> [V -> V]]
  PROVE  \E f \in [SUBSET (1 .. n) -> V] : IsFold(f, n, base, step)
<1> DEFINE H == {k \in 0 .. n : \E f \in [SUBSET (1 .. k) -> V] : IsFold(f, k, base, step)}
<1>1. 0 \in H
  <2> DEFINE f == [s \in SUBSET (1 .. 0) |-> base]
  <2>1. \A s \in SUBSET (1 .. 0) : s = {}
    OBVIOUS
  <2>2. PICK h : h = f
    OBVIOUS
  <2>3. h = [s \in SUBSET (1 .. 0) |-> IF s = {} THEN base ELSE step[Max(s)][h[s \ {Max(s)}]]]
    BY <2>1, <2>2
  <2>4. IsFold(h, 0, base, step)
    BY <2>3 DEF IsFold
  <2>5. h \in [SUBSET (1 .. 0) -> V]
    BY <2>2
  <2>6. \E g \in [SUBSET (1 .. 0) -> V] : IsFold(g, 0, base, step)
    BY <2>4, <2>5
  <2>7. 0 \in 0 .. n
    OBVIOUS
  <2> HIDE DEF f
  <2> QED BY <2>6, <2>7
<1>2. ASSUME NEW k \in 1 .. n, k - 1 \in H PROVE k \in H
  <2>1. PICK m \in 0 .. n : m = k - 1 /\ k = m + 1
    OBVIOUS
  <2>2. PICK g \in [SUBSET (1 .. m) -> V] : IsFold(g, m, base, step)
    BY <1>2, <2>1
  <2> DEFINE Of(s) == IF k \in s THEN step[k][g[s \ {k}]] ELSE g[s]
             f == [s \in SUBSET (1 .. k) |-> Of(s)]
  <2>3. \A s \in SUBSET (1 .. k) : s \ {k} \in SUBSET (1 .. m) /\ (k \notin s => s \in SUBSET (1 .. m))
    BY <2>1
  <2>4. f \in [SUBSET (1 .. k) -> V]
    <3>1. \A s \in SUBSET (1 .. k) : Of(s) \in V
      BY <2>3
    <3> HIDE DEF Of
    <3> QED BY <3>1
  <2>5. ASSUME NEW s \in SUBSET (1 .. k)
        PROVE  f[s] = IF s = {} THEN base ELSE step[Max(s)][f[s \ {Max(s)}]]
    <3>1. CASE s = {}
      <4>1. g[{}] = base
        BY <2>2 DEF IsFold
      <4>2. f[s] = g[{}]
        BY <3>1
      <4> QED BY <3>1, <4>1, <4>2
    <3>2. CASE s # {} /\ k \in s
      <4>1. Max(s) \in s /\ \A y \in s : Max(s) >= y
        <5>1. IsFiniteSet(s)
          <6>1. IsFiniteSet(1 .. k)
            BY FS_Interval
          <6> QED BY <6>1, FS_Subset
        <5>2. s \subseteq Int
          OBVIOUS
        <5> QED BY <3>2, <5>1, <5>2, MaxIs
      <4>2. PICK x : x = Max(s)
        OBVIOUS
      <4>3. x = k
        <5>1. x \in 1 .. k /\ x >= k
          BY <3>2, <4>1, <4>2
        <5> QED BY <5>1
      <4>4. f[s \ {k}] = g[s \ {k}] /\ f[s] = step[k][g[s \ {k}]]
        BY <3>2, <2>3
      <4>5. f[s] = step[x][f[s \ {x}]]
        <5> HIDE DEF f
        <5> QED BY <4>3, <4>4
      <4> HIDE DEF f
      <4> QED BY <3>2, <4>2, <4>5
    <3>3. CASE s # {} /\ k \notin s
      <4>1. PICK x : x = Max(s)
        OBVIOUS
      <4>2. s \in SUBSET (1 .. m)
        BY <2>3, <3>3
      <4>3. g[s] = step[x][g[s \ {x}]]
        BY <2>2, <3>3, <4>1, <4>2 DEF IsFold
      <4>4. f[s] = g[s] /\ f[s \ {x}] = g[s \ {x}]
        BY <3>3
      <4>5. f[s] = step[x][f[s \ {x}]]
        <5> HIDE DEF f
        <5> QED BY <4>3, <4>4
      <4> HIDE DEF f
      <4> QED BY <3>3, <4>1, <4>5
    <3> QED BY <3>1, <3>2, <3>3
  <2>6. IsFold(f, k, base, step)
    <3>1. PICK h : h = f
      OBVIOUS
    <3>2. h \in [SUBSET (1 .. k) -> V]
      BY <2>4, <3>1
    <3>3. \A s \in SUBSET (1 .. k) : h[s] = IF s = {} THEN base ELSE step[Max(s)][h[s \ {Max(s)}]]
      BY <2>5, <3>1
    <3> HIDE DEF f
    <3>4. h = [s \in SUBSET (1 .. k) |-> IF s = {} THEN base ELSE step[Max(s)][h[s \ {Max(s)}]]]
      BY <3>2, <3>3
    <3> QED BY <3>1, <3>4 DEF IsFold
  <2> HIDE DEF f
  <2> QED BY <2>4, <2>6
<1>3. 0 .. n \subseteq H
  <2> HIDE DEF H
  <2> QED BY <1>1, <1>2, Upwards
<1>4. n \in H
  <2>1. n \in 0 .. n
    OBVIOUS
  <2> HIDE DEF H
  <2> QED BY <1>3, <2>1
<1> QED BY <1>4

(* A fold goes through the prefixes.                                       *)
LEMMA FoldPath ==
  ASSUME NEW n \in Nat, NEW k \in 1 .. n
  PROVE  /\ 1 .. k \in SUBSET (1 .. n) /\ 1 .. k # {} /\ Max(1 .. k) = k
         /\ (1 .. k) \ {Max(1 .. k)} = 1 .. k - 1
<1>1. 1 .. k \in SUBSET (1 .. n) /\ 1 .. k # {}
  OBVIOUS
<1>2. Max(1 .. k) \in 1 .. k /\ \A y \in 1 .. k : Max(1 .. k) >= y
  <2>1. IsFiniteSet(1 .. k)
    BY FS_Interval
  <2>2. 1 .. k \subseteq Int
    OBVIOUS
  <2> QED BY <1>1, <2>1, <2>2, MaxIs
<1>3. PICK m : m = Max(1 .. k)
  OBVIOUS
<1>4. m = k
  <2>1. m \in 1 .. k /\ m >= k
    BY <1>2, <1>3
  <2> QED BY <2>1
<1>5. (1 .. k) \ {k} = 1 .. k - 1
  OBVIOUS
<1> QED BY <1>1, <1>3, <1>4, <1>5

-----------------------------------------------------------------------------
(* The sets of ids: what they contain, each once.                          *)

Unrepeated(ids) == \A i, j \in 1 .. Len(ids) : ids[i] = ids[j] => i = j

(* Adding an id to a list (addID of the code) keeps what is there, holds   *)
(* the id, and lists nothing twice.                                        *)
LEMMA AddIdIs ==
  ASSUME NEW U, NEW ids \in Seq(U), NEW id \in U
  PROVE  /\ AddId(ids, id) \in Seq(U)
         /\ \A x : Contains(AddId(ids, id), x) <=> Contains(ids, x) \/ x = id
         /\ Unrepeated(ids) => Unrepeated(AddId(ids, id))
<1>1. CASE Contains(ids, id)
  BY <1>1 DEF AddId, Contains
<1>2. CASE ~Contains(ids, id)
  <2>1. AddId(ids, id) = Append(ids, id)
    BY <1>2 DEF AddId
  <2>2. PICK t : t = Append(ids, id)
    OBVIOUS
  <2> t \in Seq(U)
    BY <2>2
  <2>3. Len(t) = Len(ids) + 1 /\ t[Len(ids) + 1] = id /\ \A i \in 1 .. Len(ids) : t[i] = ids[i]
    BY <2>2
  <2>4. ASSUME NEW x PROVE Contains(t, x) <=> Contains(ids, x) \/ x = id
    BY <2>3 DEF Contains
  <2>5. Unrepeated(ids) => Unrepeated(t)
    BY <1>2, <2>3 DEF Unrepeated, Contains
  <2> QED BY <2>1, <2>2, <2>4, <2>5
<1> QED BY <1>1, <1>2

(* Adding ids one by one goes through lists of ids.                        *)
AddsEach(p, n, V, ids, d) ==
    /\ p \in [0 .. n -> V] /\ p[0] = ids /\ p[n] = AddIds(ids, d)
    /\ \A k \in 1 .. n : p[k] = AddId(p[k - 1], d[k])

(* A fold that adds ids goes through the lists of its prefixes.            *)
LEMMA FoldAddId ==
  ASSUME NEW U, NEW n \in Nat, NEW d \in [1 .. n -> U], NEW V, V = Seq(U), NEW ids \in V
  PROVE  \E p : AddsEach(p, n, V, ids, d)
<1> DEFINE step == [x \in 1 .. n |-> [v \in V |-> AddId(v, d[x])]]
           IsIter(f) == f = [s \in SUBSET (DOMAIN d) |->
                               IF s = {} THEN ids
                               ELSE AddId(f[s \ {Max(s)}], d[Max(s)])]
<1>0. ids \in V
  OBVIOUS
<1>1. PICK f \in [SUBSET (1 .. n) -> V] : IsFold(f, n, ids, step)
  <2>1. step \in [1 .. n -> [V -> V]]
    <3>1. ASSUME NEW x \in 1 .. n, NEW v \in V PROVE AddId(v, d[x]) \in V
      BY AddIdIs
    <3> QED BY <3>1
  <2> HIDE DEF step
  <2> QED BY <1>0, <2>1, FoldExists
<1>2. IsIter(f)
  <2>1. ASSUME NEW s \in SUBSET (1 .. n)
        PROVE f[s] = IF s = {} THEN ids ELSE AddId(f[s \ {Max(s)}], d[Max(s)])
    <3>1. f[s] = IF s = {} THEN ids ELSE step[Max(s)][f[s \ {Max(s)}]]
      <4> HIDE DEF step
      <4> QED BY <1>1 DEF IsFold
    <3>2. CASE s = {}
      BY <3>1, <3>2
    <3>3. CASE s # {}
      <4>1. Max(s) \in 1 .. n
        BY <3>3, MaxOf
      <4>2. f[s \ {Max(s)}] \in V
        OBVIOUS
      <4> QED BY <3>1, <3>3, <4>1, <4>2
    <3> QED BY <3>2, <3>3
  <2>2. DOMAIN d = 1 .. n
    OBVIOUS
  <2> HIDE DEF step
  <2> QED BY <2>1, <2>2
<1>3. PICK g : IsIter(g) /\ AddIds(ids, d) = g[DOMAIN d]
  <2> DEFINE iter == CHOOSE g : IsIter(g)
  <2>1. IsIter(iter)
    <3> HIDE DEF IsIter
    <3> QED BY <1>2
  <2>2. AddIds(ids, d) = iter[DOMAIN d]
    BY DEF AddIds, FoldLeft, MapThenFoldSet
  <2> QED BY <2>1, <2>2
<1>4. ASSUME NEW k \in 1 .. n
      PROVE  g[1 .. k] = AddId(g[1 .. k - 1], d[k])
  <2>1. /\ 1 .. k \in SUBSET (1 .. n) /\ 1 .. k # {} /\ Max(1 .. k) = k
        /\ (1 .. k) \ {Max(1 .. k)} = 1 .. k - 1
    BY FoldPath
  <2>2. DOMAIN d = 1 .. n
    OBVIOUS
  <2>3. \A s \in SUBSET (1 .. n) :
          g[s] = IF s = {} THEN ids ELSE AddId(g[s \ {Max(s)}], d[Max(s)])
    BY <1>3, <2>2
  <2>4. g[1 .. k] = AddId(g[(1 .. k) \ {Max(1 .. k)}], d[Max(1 .. k)])
    BY <2>1, <2>3
  <2> QED BY <2>1, <2>4
<1>5. g[1 .. 0] = ids
  <2>1. 1 .. 0 = {} /\ {} \in SUBSET (DOMAIN d)
    OBVIOUS
  <2> QED BY <1>3, <2>1
<1> DEFINE p == [k \in 0 .. n |-> g[1 .. k]]
           H == {k \in 0 .. n : p[k] \in V}
<1>6. p[0] = ids /\ \A k \in 1 .. n : p[k] = AddId(p[k - 1], d[k])
  BY <1>4, <1>5
<1> HIDE DEF IsIter
<1>7. p[n] = AddIds(ids, d)
  <2>1. DOMAIN d = 1 .. n
    OBVIOUS
  <2> QED BY <1>3, <2>1
<1>8. 0 .. n \subseteq H
  <2>1. 0 \in H
    <3>1. p[0] \in V
      <4> HIDE DEF p
      <4> QED BY <1>0, <1>6
    <3> QED BY <3>1
  <2>2. ASSUME NEW k \in 1 .. n, k - 1 \in H PROVE k \in H
    <3>1. p[k - 1] \in V
      BY <2>2
    <3>2. p[k] \in V
      <4> HIDE DEF p
      <4>1. p[k] = AddId(p[k - 1], d[k])
        BY <1>6
      <4>2. AddId(p[k - 1], d[k]) \in V
        BY <3>1, AddIdIs
      <4> QED BY <4>1, <4>2
    <3> QED BY <3>2
  <2> HIDE DEF H
  <2> QED BY <2>1, <2>2, Upwards
<1>9. p \in [0 .. n -> V]
  BY <1>8
<1> HIDE DEF p, H
<1>10. AddsEach(p, n, V, ids, d)
  BY <1>6, <1>7, <1>9 DEF AddsEach
<1> QED BY <1>10

(* Adding the ids of a list one by one adds just these.                    *)
LEMMA AddIdsIs ==
  ASSUME NEW U, NEW ids \in Seq(U), NEW more \in Seq(U)
  PROVE  /\ AddIds(ids, more) \in Seq(U)
         /\ \A x : Contains(AddIds(ids, more), x) <=> Contains(ids, x) \/ Contains(more, x)
         /\ Unrepeated(ids) => Unrepeated(AddIds(ids, more))
<1>1. PICK n \in Nat : n = Len(more) /\ more \in [1 .. n -> U]
  OBVIOUS
<1> PICK V : V = Seq(U)
  OBVIOUS
<1>0. PICK p : AddsEach(p, n, V, ids, more)
  <2>1. ids \in V
    OBVIOUS
  <2> QED BY <1>1, <2>1, FoldAddId
<1>2. /\ p \in [0 .. n -> V] /\ p[0] = ids /\ p[n] = AddIds(ids, more)
      /\ \A k \in 1 .. n : p[k] = AddId(p[k - 1], more[k])
  BY <1>0 DEF AddsEach
<1>3. p[n] = AddIds(ids, more)
  BY <1>2
<1> DEFINE Holds(k) == /\ \A x : Contains(p[k], x) <=> Contains(ids, x) \/ \E i \in 1 .. k : more[i] = x
                       /\ Unrepeated(ids) => Unrepeated(p[k])
           H == {k \in 0 .. n : Holds(k)}
<1>4. 0 \in H
  BY <1>2
<1>5. ASSUME NEW k \in 1 .. n, k - 1 \in H PROVE k \in H
  <2>1. p[k - 1] \in Seq(U) /\ more[k] \in U
    <3> HIDE DEF H, Holds
    <3>1. k \in 0 .. n /\ k - 1 \in 0 .. n
      OBVIOUS
    <3>2. p[k - 1] \in V
      BY <1>2, <3>1
    <3>3. more[k] \in U
      BY <1>1
    <3> QED BY <3>2, <3>3
  <2>2. p[k] = AddId(p[k - 1], more[k])
    BY <1>2
  <2>3. /\ \A x : Contains(p[k], x) <=> Contains(p[k - 1], x) \/ x = more[k]
        /\ Unrepeated(p[k - 1]) => Unrepeated(p[k])
    <3>1. PICK a \in Seq(U) : a = p[k - 1]
      BY <2>1
    <3>2. PICK e \in U : e = more[k]
      BY <2>1
    <3>3. p[k] = AddId(a, e)
      BY <2>2, <3>1, <3>2
    <3>4. /\ \A x : Contains(AddId(a, e), x) <=> Contains(a, x) \/ x = e
          /\ Unrepeated(a) => Unrepeated(AddId(a, e))
      BY AddIdIs
    <3> QED BY <3>1, <3>2, <3>3, <3>4
  <2>4. Holds(k - 1)
    BY <1>5
  <2>5. ASSUME NEW x
        PROVE  (\E i \in 1 .. k : more[i] = x) <=> (\E i \in 1 .. k - 1 : more[i] = x) \/ x = more[k]
    OBVIOUS
  <2>6. ASSUME NEW x PROVE Contains(p[k], x) <=> Contains(ids, x) \/ \E i \in 1 .. k : more[i] = x
    BY <2>3, <2>4, <2>5
  <2>7. Unrepeated(ids) => Unrepeated(p[k])
    BY <2>3, <2>4
  <2>8. Holds(k) /\ k \in 0 .. n
    BY <2>6, <2>7
  <2> HIDE DEF Holds
  <2> QED BY <2>8
<1>6. n \in H
  <2>1. 0 .. n \subseteq H
    <3> HIDE DEF H
    <3> QED BY <1>4, <1>5, Upwards
  <2> HIDE DEF H
  <2> QED BY <2>1
<1>7. Holds(n)
  BY <1>6
<1>8. ASSUME NEW x PROVE (\E i \in 1 .. n : more[i] = x) <=> Contains(more, x)
  BY <1>1 DEF Contains
<1>9. p[n] \in Seq(U)
  BY <1>2
<1> QED BY <1>3, <1>7, <1>8, <1>9

(* Adding lists one by one goes through lists of ids.                      *)
AddsAll(p, n, V, d) ==
    /\ p \in [0 .. n -> V] /\ p[0] = <<>> /\ p[n] = IdsIn(d)
    /\ \A k \in 1 .. n : p[k] = AddIds(p[k - 1], d[k])

(* The same for the lists of a sequence of messages.                       *)
LEMMA FoldAddIds ==
  ASSUME NEW U, NEW n \in Nat, NEW V, V = Seq(U), NEW d \in [1 .. n -> V]
  PROVE  \E p : AddsAll(p, n, V, d)
<1> DEFINE step == [x \in 1 .. n |-> [v \in V |-> AddIds(v, d[x])]]
           IsIter(f) == f = [s \in SUBSET (DOMAIN d) |->
                               IF s = {} THEN <<>>
                               ELSE AddIds(f[s \ {Max(s)}], d[Max(s)])]
<1>0. <<>> \in V
  OBVIOUS
<1>1. PICK f \in [SUBSET (1 .. n) -> V] : IsFold(f, n, <<>>, step)
  <2>1. step \in [1 .. n -> [V -> V]]
    <3>1. ASSUME NEW x \in 1 .. n, NEW v \in V PROVE AddIds(v, d[x]) \in V
      BY AddIdsIs
    <3> QED BY <3>1
  <2> HIDE DEF step
  <2> QED BY <1>0, <2>1, FoldExists
<1>2. IsIter(f)
  <2>1. ASSUME NEW s \in SUBSET (1 .. n)
        PROVE f[s] = IF s = {} THEN <<>> ELSE AddIds(f[s \ {Max(s)}], d[Max(s)])
    <3>1. f[s] = IF s = {} THEN <<>> ELSE step[Max(s)][f[s \ {Max(s)}]]
      <4> HIDE DEF step
      <4> QED BY <1>1 DEF IsFold
    <3>2. CASE s = {}
      BY <3>1, <3>2
    <3>3. CASE s # {}
      <4>1. Max(s) \in 1 .. n
        BY <3>3, MaxOf
      <4>2. f[s \ {Max(s)}] \in V
        OBVIOUS
      <4> QED BY <3>1, <3>3, <4>1, <4>2
    <3> QED BY <3>2, <3>3
  <2>2. DOMAIN d = 1 .. n
    OBVIOUS
  <2> HIDE DEF step
  <2> QED BY <2>1, <2>2
<1>3. PICK g : IsIter(g) /\ IdsIn(d) = g[DOMAIN d]
  <2> DEFINE iter == CHOOSE g : IsIter(g)
  <2>1. IsIter(iter)
    <3> HIDE DEF IsIter
    <3> QED BY <1>2
  <2>2. IdsIn(d) = iter[DOMAIN d]
    BY DEF IdsIn, FoldLeft, MapThenFoldSet
  <2> QED BY <2>1, <2>2
<1>4. ASSUME NEW k \in 1 .. n
      PROVE  g[1 .. k] = AddIds(g[1 .. k - 1], d[k])
  <2>1. /\ 1 .. k \in SUBSET (1 .. n) /\ 1 .. k # {} /\ Max(1 .. k) = k
        /\ (1 .. k) \ {Max(1 .. k)} = 1 .. k - 1
    BY FoldPath
  <2>2. DOMAIN d = 1 .. n
    OBVIOUS
  <2>3. \A s \in SUBSET (1 .. n) :
          g[s] = IF s = {} THEN <<>> ELSE AddIds(g[s \ {Max(s)}], d[Max(s)])
    BY <1>3, <2>2
  <2>4. g[1 .. k] = AddIds(g[(1 .. k) \ {Max(1 .. k)}], d[Max(1 .. k)])
    BY <2>1, <2>3
  <2> QED BY <2>1, <2>4
<1>5. g[1 .. 0] = <<>>
  <2>1. 1 .. 0 = {} /\ {} \in SUBSET (DOMAIN d)
    OBVIOUS
  <2> QED BY <1>3, <2>1
<1> DEFINE p == [k \in 0 .. n |-> g[1 .. k]]
           H == {k \in 0 .. n : p[k] \in V}
<1>6. p[0] = <<>> /\ \A k \in 1 .. n : p[k] = AddIds(p[k - 1], d[k])
  BY <1>4, <1>5
<1> HIDE DEF IsIter
<1>7. p[n] = IdsIn(d)
  <2>1. DOMAIN d = 1 .. n
    OBVIOUS
  <2> QED BY <1>3, <2>1
<1>8. 0 .. n \subseteq H
  <2>1. 0 \in H
    <3>1. p[0] \in V
      <4> HIDE DEF p
      <4> QED BY <1>0, <1>6
    <3> QED BY <3>1
  <2>2. ASSUME NEW k \in 1 .. n, k - 1 \in H PROVE k \in H
    <3>1. p[k - 1] \in V
      BY <2>2
    <3>2. p[k] \in V
      <4> HIDE DEF p
      <4>1. p[k] = AddIds(p[k - 1], d[k])
        BY <1>6
      <4>2. AddIds(p[k - 1], d[k]) \in V
        BY <3>1, AddIdsIs
      <4> QED BY <4>1, <4>2
    <3> QED BY <3>2
  <2> HIDE DEF H
  <2> QED BY <2>1, <2>2, Upwards
<1>9. p \in [0 .. n -> V]
  BY <1>8
<1> HIDE DEF p, H
<1>10. AddsAll(p, n, V, d)
  BY <1>6, <1>7, <1>9 DEF AddsAll
<1> QED BY <1>10

(* All the ids that lists mention.                                         *)
LEMMA Collected ==
  ASSUME NEW U, NEW n \in Nat, NEW d \in [1 .. n -> Seq(U)]
  PROVE  /\ IdsIn(d) \in Seq(U)
         /\ \A x : Contains(IdsIn(d), x) <=> \E i \in 1 .. n : Contains(d[i], x)
         /\ Unrepeated(IdsIn(d))
<1> PICK V : V = Seq(U)
  OBVIOUS
<1>0. PICK p : AddsAll(p, n, V, d)
  <2>1. d \in [1 .. n -> V]
    OBVIOUS
  <2> QED BY <2>1, FoldAddIds
<1>2. /\ p \in [0 .. n -> V] /\ p[0] = <<>> /\ p[n] = IdsIn(d)
      /\ \A k \in 1 .. n : p[k] = AddIds(p[k - 1], d[k])
  BY <1>0 DEF AddsAll
<1> DEFINE Holds(k) == /\ \A x : Contains(p[k], x) <=> \E i \in 1 .. k : Contains(d[i], x)
                       /\ Unrepeated(p[k])
           H == {k \in 0 .. n : Holds(k)}
<1>4. 0 \in H
  BY <1>2 DEF Contains, Unrepeated
<1>5. ASSUME NEW k \in 1 .. n, k - 1 \in H PROVE k \in H
  <2>2. p[k] = AddIds(p[k - 1], d[k])
    BY <1>2
  <2>3. /\ \A x : Contains(p[k], x) <=> Contains(p[k - 1], x) \/ Contains(d[k], x)
        /\ Unrepeated(p[k - 1]) => Unrepeated(p[k])
    <3>0. p[k - 1] \in Seq(U)
      <4>1. p[k - 1] \in V
        BY <1>2
      <4> QED BY <4>1
    <3>1. PICK a \in Seq(U) : a = p[k - 1]
      BY <3>0
    <3>2. PICK e \in Seq(U) : e = d[k]
      OBVIOUS
    <3>3. p[k] = AddIds(a, e)
      BY <2>2, <3>1, <3>2
    <3>4. /\ \A x : Contains(AddIds(a, e), x) <=> Contains(a, x) \/ Contains(e, x)
          /\ Unrepeated(a) => Unrepeated(AddIds(a, e))
      BY AddIdsIs
    <3> QED BY <3>1, <3>2, <3>3, <3>4
  <2>4. Holds(k - 1)
    BY <1>5
  <2>5. ASSUME NEW x
        PROVE  (\E i \in 1 .. k : Contains(d[i], x)) <=>
                 (\E i \in 1 .. k - 1 : Contains(d[i], x)) \/ Contains(d[k], x)
    OBVIOUS
  <2>6. ASSUME NEW x PROVE Contains(p[k], x) <=> \E i \in 1 .. k : Contains(d[i], x)
    BY <2>3, <2>4, <2>5
  <2>7. Unrepeated(p[k])
    BY <2>3, <2>4
  <2>8. Holds(k) /\ k \in 0 .. n
    BY <2>6, <2>7
  <2> HIDE DEF Holds
  <2> QED BY <2>8
<1>6. n \in H
  <2>1. 0 .. n \subseteq H
    <3> HIDE DEF H
    <3> QED BY <1>4, <1>5, Upwards
  <2> HIDE DEF H
  <2> QED BY <2>1
<1>7. Holds(n)
  BY <1>6
<1>9. p[n] \in Seq(U)
  BY <1>2
<1> QED BY <1>2, <1>7, <1>9

(* What a history calls and answers.                                       *)
Calls(messages, id) == \E i \in 1 .. Len(messages) : Contains(messages[i].calls, id)
Results(messages, id) == \E i \in 1 .. Len(messages) : Contains(messages[i].results, id)

(* A history whose calls and results are lists of ids.                     *)
IsHistory(messages, U) ==
    /\ \E T : messages \in Seq(T)
    /\ \A i \in 1 .. Len(messages) : messages[i].calls \in Seq(U) /\ messages[i].results \in Seq(U)

(* collectToolCallIDs and collectToolResultIDs find them all.              *)
LEMMA IdsAre ==
  ASSUME NEW U, NEW messages, IsHistory(messages, U)
  PROVE  /\ CallIds(messages) \in Seq(U) /\ ResultIds(messages) \in Seq(U)
         /\ \A x : Contains(CallIds(messages), x) <=> Calls(messages, x)
         /\ \A x : Contains(ResultIds(messages), x) <=> Results(messages, x)
         /\ Unrepeated(CallIds(messages))
<1>1. PICK n \in Nat : n = Len(messages)
  BY DEF IsHistory
<1>2. PICK c : c = [i \in 1 .. n |-> messages[i].calls]
  OBVIOUS
<1>3. PICK r : r = [i \in 1 .. n |-> messages[i].results]
  OBVIOUS
<1>4. c \in [1 .. n -> Seq(U)] /\ r \in [1 .. n -> Seq(U)]
  BY <1>1, <1>2, <1>3 DEF IsHistory
<1>5. CallIds(messages) = IdsIn(c) /\ ResultIds(messages) = IdsIn(r)
  BY <1>1, <1>2, <1>3 DEF CallIds, ResultIds
<1>6. /\ IdsIn(c) \in Seq(U)
      /\ \A x : Contains(IdsIn(c), x) <=> \E i \in 1 .. n : Contains(c[i], x)
      /\ Unrepeated(IdsIn(c))
  BY <1>4, Collected
<1>7. /\ IdsIn(r) \in Seq(U)
      /\ \A x : Contains(IdsIn(r), x) <=> \E i \in 1 .. n : Contains(r[i], x)
  BY <1>4, Collected
<1>8. ASSUME NEW x PROVE (\E i \in 1 .. n : Contains(c[i], x)) <=> Calls(messages, x)
  BY <1>1, <1>2 DEF Calls
<1>9. ASSUME NEW x PROVE (\E i \in 1 .. n : Contains(r[i], x)) <=> Results(messages, x)
  BY <1>1, <1>3 DEF Results
<1> QED BY <1>5, <1>6, <1>7, <1>8, <1>9

(* A history whose arguments parse is left as it is.                       *)
LEMMA AlreadyClean ==
  ASSUME NEW messages, \E T : messages \in Seq(T),
         \A i \in 1 .. Len(messages) : Sanitize(messages[i]) = messages[i]
  PROVE  Each(messages, Sanitize) = messages
<1>1. PICK T : messages \in Seq(T)
  OBVIOUS
<1>2. messages = [i \in 1 .. Len(messages) |-> messages[i]]
  BY <1>1
<1>3. Each(messages, Sanitize) = [i \in 1 .. Len(messages) |-> messages[i]]
  BY DEF Each
<1> QED BY <1>2, <1>3

(* Answering calls one by one stays among histories.                       *)
AnswersEach(p, n, V, format, messages, d, results) ==
    /\ p \in [0 .. n -> V] /\ p[0] = messages /\ p[n] = Answered(format, messages, d, results)
    /\ \A k \in 1 .. n : p[k] = AnswerOrphan(format, results, p[k - 1], d[k])

(* Answering the missing calls goes through histories of their own.        *)
LEMMA FoldAnswer ==
  ASSUME NEW U, NEW n \in Nat, NEW d \in [1 .. n -> U], NEW V, NEW messages \in V,
         NEW format, NEW results,
         \A v \in V : \A x \in U : AnswerOrphan(format, results, v, x) \in V
  PROVE  \E p : AnswersEach(p, n, V, format, messages, d, results)
<1> DEFINE step == [x \in 1 .. n |-> [v \in V |-> AnswerOrphan(format, results, v, d[x])]]
           IsIter(f) == f = [s \in SUBSET (DOMAIN d) |->
                               IF s = {} THEN messages
                               ELSE AnswerOrphan(format, results, f[s \ {Max(s)}], d[Max(s)])]
<1>0. messages \in V
  OBVIOUS
<1>1. PICK f \in [SUBSET (1 .. n) -> V] : IsFold(f, n, messages, step)
  <2>1. step \in [1 .. n -> [V -> V]]
    <3>1. ASSUME NEW x \in 1 .. n, NEW v \in V PROVE AnswerOrphan(format, results, v, d[x]) \in V
      OBVIOUS
    <3> QED BY <3>1
  <2> HIDE DEF step
  <2> QED BY <1>0, <2>1, FoldExists
<1>2. IsIter(f)
  <2>1. ASSUME NEW s \in SUBSET (1 .. n)
        PROVE f[s] = IF s = {} THEN messages ELSE AnswerOrphan(format, results, f[s \ {Max(s)}], d[Max(s)])
    <3>1. f[s] = IF s = {} THEN messages ELSE step[Max(s)][f[s \ {Max(s)}]]
      <4> HIDE DEF step
      <4> QED BY <1>1 DEF IsFold
    <3>2. CASE s = {}
      BY <3>1, <3>2
    <3>3. CASE s # {}
      <4>1. Max(s) \in 1 .. n
        BY <3>3, MaxOf
      <4>2. f[s \ {Max(s)}] \in V
        OBVIOUS
      <4> QED BY <3>1, <3>3, <4>1, <4>2
    <3> QED BY <3>2, <3>3
  <2>2. DOMAIN d = 1 .. n
    OBVIOUS
  <2> HIDE DEF step
  <2> QED BY <2>1, <2>2
<1>3. PICK g : IsIter(g) /\ Answered(format, messages, d, results) = g[DOMAIN d]
  <2> DEFINE iter == CHOOSE g : IsIter(g)
  <2>1. IsIter(iter)
    <3> HIDE DEF IsIter
    <3> QED BY <1>2
  <2>2. Answered(format, messages, d, results) = iter[DOMAIN d]
    BY DEF Answered, FoldLeft, MapThenFoldSet
  <2> QED BY <2>1, <2>2
<1>4. ASSUME NEW k \in 1 .. n
      PROVE  g[1 .. k] = AnswerOrphan(format, results, g[1 .. k - 1], d[k])
  <2>1. /\ 1 .. k \in SUBSET (1 .. n) /\ 1 .. k # {} /\ Max(1 .. k) = k
        /\ (1 .. k) \ {Max(1 .. k)} = 1 .. k - 1
    BY FoldPath
  <2>2. DOMAIN d = 1 .. n
    OBVIOUS
  <2>3. \A s \in SUBSET (1 .. n) :
          g[s] = IF s = {} THEN messages ELSE AnswerOrphan(format, results, g[s \ {Max(s)}], d[Max(s)])
    BY <1>3, <2>2
  <2>4. g[1 .. k] = AnswerOrphan(format, results, g[(1 .. k) \ {Max(1 .. k)}], d[Max(1 .. k)])
    BY <2>1, <2>3
  <2> QED BY <2>1, <2>4
<1>5. g[1 .. 0] = messages
  <2>1. 1 .. 0 = {} /\ {} \in SUBSET (DOMAIN d)
    OBVIOUS
  <2> QED BY <1>3, <2>1
<1> DEFINE p == [k \in 0 .. n |-> g[1 .. k]]
           H == {k \in 0 .. n : p[k] \in V}
<1>6. p[0] = messages /\ \A k \in 1 .. n : p[k] = AnswerOrphan(format, results, p[k - 1], d[k])
  BY <1>4, <1>5
<1> HIDE DEF IsIter
<1>7. p[n] = Answered(format, messages, d, results)
  <2>1. DOMAIN d = 1 .. n
    OBVIOUS
  <2> QED BY <1>3, <2>1
<1>8. 0 .. n \subseteq H
  <2>1. 0 \in H
    <3>1. p[0] \in V
      <4> HIDE DEF p
      <4> QED BY <1>0, <1>6
    <3> QED BY <3>1
  <2>2. ASSUME NEW k \in 1 .. n, k - 1 \in H PROVE k \in H
    <3>1. p[k - 1] \in V
      BY <2>2
    <3>2. p[k] \in V
      <4> HIDE DEF p
      <4>1. p[k] = AnswerOrphan(format, results, p[k - 1], d[k])
        BY <1>6
      <4>2. AnswerOrphan(format, results, p[k - 1], d[k]) \in V
        BY <3>1
      <4> QED BY <4>1, <4>2
    <3> QED BY <3>2
  <2> HIDE DEF H
  <2> QED BY <2>1, <2>2, Upwards
<1>9. p \in [0 .. n -> V]
  BY <1>8
<1> HIDE DEF p, H
<1>10. AnswersEach(p, n, V, format, messages, d, results)
  BY <1>6, <1>7, <1>9 DEF AnswersEach
<1> QED BY <1>10

(* When every call has its result nothing is answered.                     *)
LEMMA NothingToAnswer ==
  ASSUME NEW U, NEW calls \in Seq(U), NEW format, NEW results, NEW messages,
         \A k \in 1 .. Len(calls) : Contains(results, calls[k])
  PROVE  Answered(format, messages, calls, results) = messages
<1>1. PICK n \in Nat : n = Len(calls)
  OBVIOUS
<1>2. PICK S : S = {x \in U : Contains(results, x)}
  OBVIOUS
<1>3. calls \in [1 .. n -> S]
  BY <1>1, <1>2
<1>4. PICK V : V = {messages}
  OBVIOUS
<1>5. messages \in V /\ \A v \in V : \A x \in S : AnswerOrphan(format, results, v, x) \in V
  BY <1>2, <1>4 DEF AnswerOrphan
<1>6. PICK p : AnswersEach(p, n, V, format, messages, calls, results)
  BY <1>3, <1>5, FoldAnswer
<1>7. p \in [0 .. n -> V] /\ p[n] = Answered(format, messages, calls, results)
  BY <1>6 DEF AnswersEach
<1> QED BY <1>4, <1>7

(* Every call of a history has its result, every result its call.          *)
AllPaired(messages) == \A id : Calls(messages, id) <=> Results(messages, id)

(* A paired history needs no repair (MessageHistoryRepair returns 0).      *)
LEMMA PairedNeedsNone ==
  ASSUME NEW U, NEW messages, IsHistory(messages, U), AllPaired(messages),
         \A i \in 1 .. Len(messages) : Sanitize(messages[i]) = messages[i]
  PROVE  MessageHistoryRepair(messages).repairs = 0
<1>1. Each(messages, Sanitize) = messages
  BY AlreadyClean DEF IsHistory
<1>2. PICK calls \in Seq(U) : calls = CallIds(messages)
  BY IdsAre
<1>3. PICK results \in Seq(U) : results = ResultIds(messages)
  BY IdsAre
<1>4. \A x : Contains(calls, x) <=> Contains(results, x)
  BY <1>2, <1>3, IdsAre DEF AllPaired
<1>5. PICK format : format = DetectFormat(messages)
  OBVIOUS
<1>6. \A k \in 1 .. Len(calls) : Contains(results, calls[k])
  BY <1>4 DEF Contains
<1>7. Answered(format, messages, calls, results) = messages
  BY <1>6, NothingToAnswer
<1>8. Missing(calls, results) = {}
  BY <1>6 DEF Missing
<1>9. Orphans(format, messages, calls) = {}
  <2>1. ASSUME NEW p \in Places(messages)
        PROVE  ~IsOrphan(format, messages[p[1]], calls, ResultAt(messages, p))
    <3>1. PICK i \in 1 .. Len(messages) : \E k \in 1 .. Len(messages[i].results) : p = <<i, k>>
      BY DEF Places
    <3> PICK k \in 1 .. Len(messages[i].results) : p = <<i, k>>
      BY <3>1
    <3>2. Contains(messages[i].results, messages[i].results[k])
      BY DEF Contains
    <3>3. Results(messages, messages[i].results[k])
      BY <3>2 DEF Results
    <3>4. Contains(calls, messages[i].results[k])
      BY <1>3, <1>4, <3>3, IdsAre
    <3> QED BY <3>1, <3>4 DEF IsOrphan, ResultAt
  <2> QED BY <2>1 DEF Orphans
<1>10. Cardinality({}) = 0
  BY FS_EmptySet
<1>11. MessageHistoryRepair(messages).repairs
         = IF calls = <<>> /\ results = <<>> THEN 0
           ELSE Cardinality(Missing(calls, results)) + Cardinality(Orphans(format, messages, calls))
  BY <1>1, <1>2, <1>3, <1>5, <1>7 DEF MessageHistoryRepair
<1> QED BY <1>8, <1>9, <1>10, <1>11

-----------------------------------------------------------------------------
(* Answering a call leaves a list of messages: one gets a result, or one   *)
(* more is at the end.                                                     *)
Repairable(R, U) ==
    /\ \A m \in R : m.results \in Seq(U)
    /\ \A m \in R : \A id \in U : [m EXCEPT !.results = Append(@, id)] \in R
    /\ \A id \in U : ResultOf("anthropic", id) \in R

(* A message that takes a result in keeps everything else.                 *)
LEMMA WithResultIs ==
  ASSUME NEW R, NEW v \in Seq(R), NEW at \in 1 .. Len(v), NEW id,
         [v[at] EXCEPT !.results = Append(@, id)] \in R
  PROVE  WithResult(v, at, id) \in Seq(R)
<1>1. PICK n \in Nat : n = Len(v)
  OBVIOUS
<1>2. PICK m \in R : m = [v[at] EXCEPT !.results = Append(@, id)]
  OBVIOUS
<1>3. WithResult(v, at, id) = [i \in 1 .. n |-> IF i = at THEN m ELSE v[i]]
  <2>1. ASSUME NEW i \in 1 .. n
        PROVE  (IF i = at THEN [v[i] EXCEPT !.results = Append(@, id)] ELSE v[i])
                 = IF i = at THEN m ELSE v[i]
    BY <1>2
  <2>2. WithResult(v, at, id)
          = [i \in 1 .. n |-> IF i = at THEN [v[i] EXCEPT !.results = Append(@, id)] ELSE v[i]]
    BY <1>1, Zenon DEF WithResult
  <2> QED BY <2>1, <2>2
<1>4. \A i \in 1 .. n : v[i] \in R
  BY <1>1
<1> QED BY <1>3, <1>4

(* The first of some of n positions, or 0, is a position or 0.             *)
LEMMA FirstOf ==
  ASSUME NEW n \in Nat, NEW S, S \subseteq 1 .. n
  PROVE  (IF S # {} THEN Min(S) ELSE 0) \in 0 .. n
<1>1. CASE S # {}
  <2>1. IsFiniteSet(S)
    BY IntervalCount, FS_Subset
  <2>2. Min(S) \in S
    <3>1. S \subseteq Int
      OBVIOUS
    <3> QED BY <1>1, <2>1, <3>1, MinIs
  <2>3. \A x \in S : x \in 0 .. n
    OBVIOUS
  <2>4. Min(S) \in 0 .. n
    BY <2>2, <2>3, Zenon
  <2> QED BY <1>1, <2>4
<1>2. CASE S = {}
  BY <1>2
<1> QED BY <1>1, <1>2

(* An answer leaves a history of such messages one.                        *)
LEMMA AnswerStays ==
  ASSUME NEW U, NEW R, Repairable(R, U), NEW v \in Seq(R), NEW id \in U, NEW results
  PROVE  AnswerOrphan("anthropic", results, v, id) \in Seq(R)
<1>1. PICK n \in Nat : n = Len(v)
  OBVIOUS
<1>2. PICK A : A = {i \in 1 .. n : v[i].shape = "anthropic" /\ Contains(v[i].calls, id)}
  OBVIOUS
<1>3. PICK issued : issued = IF A # {} THEN Min(A) ELSE 0
  OBVIOUS
<1>4. issued \in 0 .. n
  BY <1>2, <1>3, FirstOf
<1>5. PICK B : B = {i \in issued + 1 .. n : HasBlocks(v[i])}
  OBVIOUS
<1>6. B \subseteq 1 .. n
  BY <1>4, <1>5
<1>7. PICK target : target = IF issued = 0 THEN 0 ELSE IF B # {} THEN Min(B) ELSE 0
  OBVIOUS
<1>8. target \in 0 .. n
  BY <1>6, <1>7, FirstOf
<1>9. AnswerAnthropic(v, id) = IF target = 0 THEN Append(v, ResultOf("anthropic", id))
                               ELSE WithResult(v, target, id)
  <2>1. issued = SelectInSeq(v, LAMBDA m : m.shape = "anthropic" /\ Contains(m.calls, id))
    BY <1>1, <1>2, <1>3 DEF SelectInSeq
  <2>2. target = IF issued = 0 THEN 0
                 ELSE SelectInSubSeq(v, issued + 1, Len(v), HasBlocks)
    BY <1>1, <1>5, <1>7 DEF SelectInSubSeq
  <2> QED BY <2>1, <2>2, Zenon DEF AnswerAnthropic
<1>10. AnswerAnthropic(v, id) \in Seq(R)
  <2>1. CASE target = 0
    <3>1. ResultOf("anthropic", id) \in R
      BY DEF Repairable
    <3> QED BY <1>9, <2>1, <3>1
  <2>2. CASE target # 0
    <3>1. target \in 1 .. Len(v)
      BY <1>1, <1>8, <2>2
    <3>2. v[target] \in R
      BY <3>1
    <3>3. [v[target] EXCEPT !.results = Append(@, id)] \in R
      BY <3>2, Zenon DEF Repairable
    <3> QED BY <1>9, <2>2, <3>1, <3>3, WithResultIs
  <2> QED BY <2>1, <2>2
<1>11. Answer("anthropic", v, id) = AnswerAnthropic(v, id)
  BY DEF Answer
<1> QED BY <1>10, <1>11 DEF AnswerOrphan

(* So does answering all calls.                                            *)
LEMMA AnsweredStays ==
  ASSUME NEW U, NEW R, Repairable(R, U), NEW messages \in Seq(R), NEW calls \in Seq(U), NEW results
  PROVE  Answered("anthropic", messages, calls, results) \in Seq(R)
<1>1. PICK n \in Nat : n = Len(calls) /\ calls \in [1 .. n -> U]
  OBVIOUS
<1>2. PICK V : V = Seq(R)
  OBVIOUS
<1>3. messages \in V /\ \A v \in V : \A x \in U : AnswerOrphan("anthropic", results, v, x) \in V
  BY <1>2, AnswerStays
<1>4. PICK p : AnswersEach(p, n, V, "anthropic", messages, calls, results)
  BY <1>1, <1>3, FoldAnswer
<1>5. p \in [0 .. n -> V] /\ p[n] = Answered("anthropic", messages, calls, results)
  BY <1>4 DEF AnswersEach
<1> QED BY <1>1, <1>2, <1>5

(* There are finitely many results.                                        *)
LEMMA PlacesFinite ==
  ASSUME NEW U, NEW R, \A m \in R : m.results \in Seq(U), NEW messages \in Seq(R)
  PROVE  IsFiniteSet(Places(messages))
<1>1. PICK n \in Nat : n = Len(messages)
  OBVIOUS
<1> DEFINE Upto(k) == {p \in Places(messages) : p[1] \in 1 .. k}
           H == {k \in 0 .. n : IsFiniteSet(Upto(k))}
<1>2. 0 \in H
  <2>1. Upto(0) = {}
    OBVIOUS
  <2>2. IsFiniteSet(Upto(0))
    <3> HIDE DEF Upto
    <3> QED BY <2>1, FS_EmptySet
  <2>3. 0 \in 0 .. n
    OBVIOUS
  <2> HIDE DEF Upto
  <2> QED BY <2>2, <2>3
<1>3. ASSUME NEW k \in 1 .. n, k - 1 \in H PROVE k \in H
  <2>1. messages[k] \in R
    BY <1>1
  <2>2. PICK l \in Nat : l = Len(messages[k].results)
    <3>1. messages[k].results \in Seq(U)
      BY <2>1
    <3> QED BY <3>1
  <2>3. PICK here : here = {k} \X (1 .. l)
    OBVIOUS
  <2>4. IsFiniteSet(here)
    <3>1. IsFiniteSet({k}) /\ IsFiniteSet(1 .. l)
      BY FS_Singleton, IntervalCount
    <3> QED BY <2>3, <3>1, FS_Product
  <2>5. Upto(k) \subseteq Upto(k - 1) \cup here
    <3> SUFFICES ASSUME NEW p \in Places(messages), p[1] \in 1 .. k, p[1] \notin 1 .. k - 1
                 PROVE  p \in here
      OBVIOUS
    <3>1. p[1] = k
      OBVIOUS
    <3>2. PICK i \in 1 .. Len(messages) : p \in {i} \X (1 .. Len(messages[i].results))
      BY DEF Places
    <3>3. i = k
      BY <3>1, <3>2
    <3> QED BY <2>2, <2>3, <3>2, <3>3
  <2>6. IsFiniteSet(Upto(k - 1))
    BY <1>3
  <2>7. IsFiniteSet(Upto(k - 1) \cup here)
    <3> HIDE DEF Upto
    <3> QED BY <2>4, <2>6, FS_Union
  <2>8. IsFiniteSet(Upto(k))
    <3> HIDE DEF Upto
    <3> QED BY <2>5, <2>7, FS_Subset
  <2>9. k \in 0 .. n
    OBVIOUS
  <2> HIDE DEF Upto
  <2> QED BY <2>8, <2>9
<1>4. n \in H
  <2> HIDE DEF H
  <2>1. 0 .. n \subseteq H
    BY <1>2, <1>3, Upwards
  <2> QED BY <2>1
<1>5. Places(messages) = Upto(n)
  BY <1>1 DEF Places
<1> QED BY <1>4, <1>5

(* In a history that needed no repair every call has its result.           *)
LEMMA UnrepairedIsAnswered ==
  ASSUME NEW U, NEW R, Repairable(R, U), NEW messages \in Seq(R), IsHistory(messages, U),
         \A i \in 1 .. Len(messages) : Sanitize(messages[i]) = messages[i],
         DetectFormat(messages) = "anthropic",
         MessageHistoryRepair(messages).repairs = 0,
         NEW x, Calls(messages, x)
  PROVE  Results(messages, x)
<1>1. Each(messages, Sanitize) = messages
  BY AlreadyClean DEF IsHistory
<1>2. PICK calls \in Seq(U) : calls = CallIds(messages)
  BY IdsAre
<1>3. PICK results \in Seq(U) : results = ResultIds(messages)
  BY IdsAre
<1>4. PICK answered : answered = Answered("anthropic", messages, calls, results)
  OBVIOUS
<1>5. PICK M : M = Missing(calls, results)
  OBVIOUS
<1>6. PICK O : O = Orphans("anthropic", answered, calls)
  OBVIOUS
<1>7. Contains(calls, x)
  BY <1>2, IdsAre
<1>8. MessageHistoryRepair(messages).repairs
        = IF calls = <<>> /\ results = <<>> THEN 0 ELSE Cardinality(M) + Cardinality(O)
  BY <1>1, <1>2, <1>3, <1>4, <1>5, <1>6, Zenon DEF MessageHistoryRepair
<1>9. calls # <<>>
  BY <1>7 DEF Contains
<1>10. Cardinality(M) + Cardinality(O) = 0
  BY <1>8, <1>9
<1>11. IsFiniteSet(M)
  <2>1. PICK n \in Nat : n = Len(calls)
    OBVIOUS
  <2>2. M \in SUBSET (1 .. n)
    BY <1>5, <2>1 DEF Missing
  <2> QED BY <2>2, IntervalCount, FS_Subset
<1>12. IsFiniteSet(O)
  <2>1. answered \in Seq(R)
    BY <1>4, AnsweredStays
  <2>2. IsFiniteSet(Places(answered))
    <3>1. \A m \in R : m.results \in Seq(U)
      BY Zenon DEF Repairable
    <3> QED BY <2>1, <3>1, PlacesFinite
  <2>3. O \in SUBSET Places(answered)
    BY <1>6 DEF Orphans
  <2> QED BY <2>2, <2>3, FS_Subset
<1>13. Cardinality(M) \in Nat /\ Cardinality(O) \in Nat
  BY <1>11, <1>12, FS_CardinalityType
<1>14. Cardinality(M) = 0
  BY <1>10, <1>13
<1>15. M = {}
  BY <1>11, <1>14, FS_EmptySet
<1>16. Contains(results, x)
  <2>1. PICK k \in 1 .. Len(calls) : calls[k] = x
    BY <1>7 DEF Contains
  <2> QED BY <1>5, <1>15, <2>1 DEF Missing
<1> QED BY <1>3, <1>16, IdsAre

(* Keeping elements one by one goes through lists of elements.             *)
KeepsEach(p, n, V, d, gone) ==
    /\ p \in [0 .. n -> V] /\ p[0] = <<>> /\ p[n] = Without(d, gone)
    /\ \A k \in 1 .. n : p[k] = Keep(gone, p[k - 1], d[k])

(* Keeping what is not gone follows the prefixes of the list.              *)
LEMMA FoldKeep ==
  ASSUME NEW U, NEW n \in Nat, NEW d \in [1 .. n -> U], NEW V, V = Seq(U), NEW gone, gone # {}
  PROVE  \E p : KeepsEach(p, n, V, d, gone)
<1> DEFINE step == [x \in 1 .. n |-> [v \in V |-> Keep(gone, v, d[x])]]
           IsIter(f) == f = [s \in SUBSET (DOMAIN d) |->
                               IF s = {} THEN <<>>
                               ELSE Keep(gone, f[s \ {Max(s)}], d[Max(s)])]
<1>0. <<>> \in V
  OBVIOUS
<1>1. PICK f \in [SUBSET (1 .. n) -> V] : IsFold(f, n, <<>>, step)
  <2>1. step \in [1 .. n -> [V -> V]]
    <3>1. ASSUME NEW x \in 1 .. n, NEW v \in V PROVE Keep(gone, v, d[x]) \in V
      BY DEF Keep
    <3> QED BY <3>1
  <2> HIDE DEF step
  <2> QED BY <1>0, <2>1, FoldExists
<1>2. IsIter(f)
  <2>1. ASSUME NEW s \in SUBSET (1 .. n)
        PROVE f[s] = IF s = {} THEN <<>> ELSE Keep(gone, f[s \ {Max(s)}], d[Max(s)])
    <3>1. f[s] = IF s = {} THEN <<>> ELSE step[Max(s)][f[s \ {Max(s)}]]
      <4> HIDE DEF step
      <4> QED BY <1>1 DEF IsFold
    <3>2. CASE s = {}
      BY <3>1, <3>2
    <3>3. CASE s # {}
      <4>1. Max(s) \in 1 .. n
        BY <3>3, MaxOf
      <4>2. f[s \ {Max(s)}] \in V
        OBVIOUS
      <4> QED BY <3>1, <3>3, <4>1, <4>2
    <3> QED BY <3>2, <3>3
  <2>2. DOMAIN d = 1 .. n
    OBVIOUS
  <2> HIDE DEF step
  <2> QED BY <2>1, <2>2
<1>3. PICK g : IsIter(g) /\ Without(d, gone) = g[DOMAIN d]
  <2> DEFINE iter == CHOOSE g : IsIter(g)
  <2>1. IsIter(iter)
    <3> HIDE DEF IsIter
    <3> QED BY <1>2
  <2>2. Without(d, gone) = iter[DOMAIN d]
    BY DEF Without, FoldLeft, MapThenFoldSet
  <2> QED BY <2>1, <2>2
<1>4. ASSUME NEW k \in 1 .. n
      PROVE  g[1 .. k] = Keep(gone, g[1 .. k - 1], d[k])
  <2>1. /\ 1 .. k \in SUBSET (1 .. n) /\ 1 .. k # {} /\ Max(1 .. k) = k
        /\ (1 .. k) \ {Max(1 .. k)} = 1 .. k - 1
    BY FoldPath
  <2>2. DOMAIN d = 1 .. n
    OBVIOUS
  <2>3. \A s \in SUBSET (1 .. n) :
          g[s] = IF s = {} THEN <<>> ELSE Keep(gone, g[s \ {Max(s)}], d[Max(s)])
    BY <1>3, <2>2
  <2>4. g[1 .. k] = Keep(gone, g[(1 .. k) \ {Max(1 .. k)}], d[Max(1 .. k)])
    BY <2>1, <2>3
  <2> QED BY <2>1, <2>4
<1>5. g[1 .. 0] = <<>>
  <2>1. 1 .. 0 = {} /\ {} \in SUBSET (DOMAIN d)
    OBVIOUS
  <2> QED BY <1>3, <2>1
<1> DEFINE p == [k \in 0 .. n |-> g[1 .. k]]
           H == {k \in 0 .. n : p[k] \in V}
<1>6. p[0] = <<>> /\ \A k \in 1 .. n : p[k] = Keep(gone, p[k - 1], d[k])
  BY <1>4, <1>5
<1> HIDE DEF IsIter
<1>7. p[n] = Without(d, gone)
  <2>1. DOMAIN d = 1 .. n
    OBVIOUS
  <2> QED BY <1>3, <2>1
<1>8. 0 .. n \subseteq H
  <2>1. 0 \in H
    <3>1. p[0] \in V
      <4> HIDE DEF p
      <4> QED BY <1>0, <1>6
    <3> QED BY <3>1
  <2>2. ASSUME NEW k \in 1 .. n, k - 1 \in H PROVE k \in H
    <3>1. p[k - 1] \in V
      BY <2>2
    <3>2. p[k] \in V
      <4> HIDE DEF p
      <4>1. p[k] = Keep(gone, p[k - 1], d[k])
        BY <1>6
      <4>2. Keep(gone, p[k - 1], d[k]) \in V
        BY <3>1 DEF Keep
      <4> QED BY <4>1, <4>2
    <3> QED BY <3>2
  <2> HIDE DEF H
  <2> QED BY <2>1, <2>2, Upwards
<1>9. p \in [0 .. n -> V]
  BY <1>8
<1> HIDE DEF p, H
<1>10. KeepsEach(p, n, V, d, gone)
  BY <1>6, <1>7, <1>9 DEF KeepsEach
<1> QED BY <1>10


(* What is kept stays in order: the i-th element that is kept was at g[i]. *)
IsTrace(g, o, d, k, gone) ==
    /\ g \in [1 .. Len(o) -> 1 .. k]
    /\ \A i \in 1 .. Len(o) : o[i] = d[g[i]] /\ o[i] \notin gone
    /\ \A i, j \in 1 .. Len(o) : g[i] = g[j] => i = j
    /\ \A j \in 1 .. k : d[j] \notin gone => \E i \in 1 .. Len(o) : g[i] = j

(* One more element is kept, with its place, or passed over.               *)
LEMMA TraceGrows ==
  ASSUME NEW U, NEW o \in Seq(U), NEW d, NEW k \in Nat, k >= 1, d[k] \in U, NEW gone, NEW g,
         IsTrace(g, o, d, k - 1, gone)
  PROVE  \E h : IsTrace(h, Keep(gone, o, d[k]), d, k, gone)
<1>1. PICK l \in Nat : l = Len(o)
  OBVIOUS
<1>2. /\ g \in [1 .. l -> 1 .. k - 1]
      /\ \A i \in 1 .. l : o[i] = d[g[i]] /\ o[i] \notin gone
      /\ \A i, j \in 1 .. l : g[i] = g[j] => i = j
      /\ \A j \in 1 .. k - 1 : d[j] \notin gone => \E i \in 1 .. l : g[i] = j
  BY <1>1 DEF IsTrace
<1>3. CASE d[k] \in gone
  <2>1. Keep(gone, o, d[k]) = o
    BY <1>3 DEF Keep
  <2>2. g \in [1 .. l -> 1 .. k]
    BY <1>2
  <2>3. \A j \in 1 .. k : d[j] \notin gone => \E i \in 1 .. l : g[i] = j
    BY <1>2, <1>3
  <2>4. IsTrace(g, o, d, k, gone)
    BY <1>1, <1>2, <2>2, <2>3 DEF IsTrace
  <2> QED BY <2>1, <2>4
<1>4. CASE d[k] \notin gone
  <2>1. PICK w : w = Append(o, d[k])
    OBVIOUS
  <2>2. Len(w) = l + 1 /\ w[l + 1] = d[k] /\ \A i \in 1 .. l : w[i] = o[i]
    BY <1>1, <2>1
  <2>3. PICK h : h = [i \in 1 .. l + 1 |-> IF i = l + 1 THEN k ELSE g[i]]
    OBVIOUS
  <2>4. h[l + 1] = k /\ \A i \in 1 .. l : h[i] = g[i] /\ h[i] \in 1 .. k - 1
    BY <1>2, <2>3
  <2>5. h \in [1 .. l + 1 -> 1 .. k]
    BY <1>2, <2>3
  <2>6. ASSUME NEW i \in 1 .. l + 1 PROVE w[i] = d[h[i]] /\ w[i] \notin gone
    <3>1. CASE i = l + 1
      BY <1>4, <2>2, <2>4, <3>1
    <3>2. CASE i # l + 1
      <4>1. i \in 1 .. l
        BY <3>2
      <4> QED BY <1>2, <2>2, <2>4, <4>1
    <3> QED BY <3>1, <3>2
  <2>7. ASSUME NEW i \in 1 .. l + 1, NEW j \in 1 .. l + 1, h[i] = h[j] PROVE i = j
    <3>1. \A x \in 1 .. l : h[x] # k
      BY <2>4
    <3>2. CASE i = l + 1 \/ j = l + 1
      BY <2>4, <2>7, <3>1, <3>2
    <3>3. CASE i # l + 1 /\ j # l + 1
      <4>1. i \in 1 .. l /\ j \in 1 .. l
        BY <3>3
      <4> QED BY <1>2, <2>4, <2>7, <4>1
    <3> QED BY <3>2, <3>3
  <2>8. ASSUME NEW j \in 1 .. k, d[j] \notin gone PROVE \E i \in 1 .. l + 1 : h[i] = j
    <3>1. CASE j = k
      BY <2>4, <3>1
    <3>2. CASE j # k
      <4>1. PICK i \in 1 .. l : g[i] = j
        BY <1>2, <2>8, <3>2
      <4> QED BY <2>4, <4>1
    <3> QED BY <3>1, <3>2
  <2>9. IsTrace(h, w, d, k, gone)
    BY <2>2, <2>5, <2>6, <2>7, <2>8 DEF IsTrace
  <2>10. Keep(gone, o, d[k]) = w
    BY <1>4, <2>1 DEF Keep
  <2> QED BY <2>9, <2>10
<1> QED BY <1>3, <1>4

(* What is kept comes from places of its own, and is all that is not gone. *)
LEMMA WithoutSome ==
  ASSUME NEW U, NEW seq \in Seq(U), NEW gone, gone # {}
  PROVE  /\ Without(seq, gone) \in Seq(U)
         /\ \E g : IsTrace(g, Without(seq, gone), seq, Len(seq), gone)
         /\ (\A i \in 1 .. Len(seq) : seq[i] \notin gone) => Without(seq, gone) = seq
<1>1. PICK n \in Nat : n = Len(seq) /\ seq \in [1 .. n -> U]
  OBVIOUS
<1>2. PICK V : V = Seq(U)
  OBVIOUS
<1>3. PICK p : KeepsEach(p, n, V, seq, gone)
  BY <1>1, <1>2, FoldKeep
<1>4. /\ p \in [0 .. n -> V] /\ p[0] = <<>> /\ p[n] = Without(seq, gone)
      /\ \A k \in 1 .. n : p[k] = Keep(gone, p[k - 1], seq[k])
  BY <1>3 DEF KeepsEach
<1> DEFINE Traced(k) == \E g : IsTrace(g, p[k], seq, k, gone)
           H == {k \in 0 .. n : Traced(k)}
<1>5. 0 \in H
  <2>1. IsTrace(<<>>, <<>>, seq, 0, gone)
    BY DEF IsTrace
  <2> QED BY <1>4, <2>1
<1>6. ASSUME NEW k \in 1 .. n, k - 1 \in H PROVE k \in H
  <2>1. PICK o \in Seq(U) : o = p[k - 1]
    BY <1>2, <1>4
  <2>2. PICK g : IsTrace(g, o, seq, k - 1, gone)
    BY <1>6, <2>1
  <2>3. seq[k] \in U /\ k \in Nat /\ k >= 1
    BY <1>1
  <2>4. \E h : IsTrace(h, Keep(gone, o, seq[k]), seq, k, gone)
    BY <2>2, <2>3, TraceGrows
  <2>5. Traced(k)
    BY <1>4, <2>1, <2>4
  <2> HIDE DEF Traced
  <2> QED BY <2>5
<1>7. n \in H
  <2> HIDE DEF H
  <2>1. 0 .. n \subseteq H
    BY <1>5, <1>6, Upwards
  <2> QED BY <2>1
<1>8. ASSUME \A i \in 1 .. n : seq[i] \notin gone PROVE p[n] = seq
  <2> DEFINE Same(k) == Len(p[k]) = k /\ \A i \in 1 .. k : p[k][i] = seq[i]
             S == {k \in 0 .. n : Same(k)}
  <2>1. 0 \in S
    BY <1>4
  <2>2. ASSUME NEW k \in 1 .. n, k - 1 \in S PROVE k \in S
    <3>1. PICK o \in Seq(U) : o = p[k - 1]
      BY <1>2, <1>4
    <3>2. Len(o) = k - 1 /\ \A i \in 1 .. k - 1 : o[i] = seq[i]
      BY <2>2, <3>1
    <3>3. p[k] = Append(o, seq[k])
      BY <1>4, <1>8, <3>1 DEF Keep
    <3>4. Len(p[k]) = k /\ \A i \in 1 .. k : p[k][i] = seq[i]
      BY <3>2, <3>3
    <3> QED BY <3>4
  <2>3. n \in S
    <3> HIDE DEF S
    <3>1. 0 .. n \subseteq S
      BY <2>1, <2>2, Upwards
    <3> QED BY <3>1
  <2>4. p[n] \in Seq(U)
    BY <1>2, <1>4
  <2>5. Len(p[n]) = n /\ \A i \in 1 .. n : p[n][i] = seq[i]
    BY <2>3
  <2> QED BY <1>1, <2>4, <2>5
<1>9. p[n] \in Seq(U)
  BY <1>2, <1>4
<1> QED BY <1>1, <1>4, <1>7, <1>8, <1>9

(* Without anything to remove the list is left as it is.                   *)
LEMMA WithoutIs ==
  ASSUME NEW U, NEW seq \in Seq(U), NEW gone
  PROVE  /\ Without(seq, gone) \in Seq(U)
         /\ \E g : IsTrace(g, Without(seq, gone), seq, Len(seq), gone)
         /\ (\A i \in 1 .. Len(seq) : seq[i] \notin gone) => Without(seq, gone) = seq
<1>1. CASE gone # {}
  BY <1>1, WithoutSome
<1>2. CASE gone = {}
  <2>1. Without(seq, gone) = seq
    BY <1>2 DEF Without
  <2>2. PICK n \in Nat : n = Len(seq)
    OBVIOUS
  <2>3. PICK g \in [1 .. n -> 1 .. n] : g = [i \in 1 .. n |-> i]
    OBVIOUS
  <2>4. IsTrace(g, seq, seq, n, gone)
    BY <1>2, <2>2, <2>3 DEF IsTrace
  <2> QED BY <2>1, <2>2, <2>4
<1> QED BY <1>1, <1>2

-----------------------------------------------------------------------------
(* What answering a call makes of a history.                               *)

Formats == {"openai", "anthropic", "responses"}

Inserted(v, at, m) ==
    [i \in 1 .. Len(v) + 1 |-> IF i < at THEN v[i] ELSE IF i = at THEN m ELSE v[i - 1]]

IsConcat(c, a, b) ==
    /\ Len(c) = Len(a) + Len(b)
    /\ \A i \in 1 .. Len(c) : c[i] = IF i <= Len(a) THEN a[i] ELSE b[i - Len(a)]

(* A concatenation, position by position.                                  *)
LEMMA ConcatIs ==
  ASSUME NEW R, NEW a \in Seq(R), NEW b \in Seq(R)
  PROVE  a \o b \in Seq(R) /\ IsConcat(a \o b, a, b)
BY DEF IsConcat

(* To append is to insert behind the last.                                 *)
LEMMA AppendedIs ==
  ASSUME NEW R, NEW v \in Seq(R), NEW m \in R
  PROVE  Append(v, m) = Inserted(v, Len(v) + 1, m)
<1>1. PICK n \in Nat : n = Len(v)
  OBVIOUS
<1>2. PICK w : w = Append(v, m)
  OBVIOUS
<1>3. w \in Seq(R) /\ Len(w) = n + 1 /\ w[n + 1] = m /\ \A i \in 1 .. n : w[i] = v[i]
  BY <1>1, <1>2
<1>4. w = [i \in 1 .. n + 1 |-> w[i]]
  BY <1>3
<1>5. \A i \in 1 .. n + 1 :
        w[i] = IF i < n + 1 THEN v[i] ELSE IF i = n + 1 THEN m ELSE v[i - 1]
  BY <1>3
<1>6. Inserted(v, n + 1, m) = w
  BY <1>1, <1>4, <1>5 DEF Inserted
<1> QED BY <1>1, <1>2, <1>6

(* InsertAt of the model puts one message in and shifts those behind it.   *)
LEMMA InsertAtIs ==
  ASSUME NEW R, NEW v \in Seq(R), NEW at \in 1 .. Len(v), NEW m \in R
  PROVE  InsertAt(v, at, m) = Inserted(v, at, m)
<1>1. PICK n \in Nat : n = Len(v)
  OBVIOUS
<1>2. PICK k \in 0 .. n - 1 : k = at - 1
  BY <1>1
<1>3. at = k + 1
  BY <1>2
<1>4. PICK a : a = SubSeq(v, 1, k)
  OBVIOUS
<1>5. a \in Seq(R) /\ Len(a) = k /\ \A i \in 1 .. k : a[i] = v[i]
  BY <1>1, <1>4
<1>6. PICK b : b = SubSeq(v, k + 1, n)
  OBVIOUS
<1>7. b \in Seq(R) /\ Len(b) = n - k /\ \A i \in 1 .. n - k : b[i] = v[k + i]
  BY <1>1, <1>6
<1>8. PICK c : c = a \o <<m>>
  OBVIOUS
<1>9. c \in Seq(R) /\ Len(c) = k + 1 /\ c[k + 1] = m /\ \A i \in 1 .. k : c[i] = v[i]
  <2>1. PICK one : one = <<m>>
    OBVIOUS
  <2>2. one \in Seq(R) /\ Len(one) = 1 /\ one[1] = m
    BY <2>1
  <2>3. /\ c \in Seq(R) /\ Len(c) = k + 1
        /\ \A i \in 1 .. Len(c) : c[i] = IF i <= k THEN a[i] ELSE one[i - k]
    <3>1. a \in Seq(R) /\ one \in Seq(R)
      BY <1>5, <2>2
    <3>2. c \in Seq(R) /\ IsConcat(c, a, one)
      BY <1>8, <2>1, <3>1, ConcatIs, Zenon
    <3> QED BY <1>5, <2>2, <3>2 DEF IsConcat
  <2>4. c[k + 1] = one[k + 1 - k] /\ k + 1 - k = 1
    BY <2>3
  <2> QED BY <1>5, <2>2, <2>3, <2>4
<1>10. PICK w : w = c \o b
  OBVIOUS
<1>11. w \in Seq(R) /\ Len(w) = n + 1 /\ \A i \in 1 .. n + 1 : w[i] = IF i <= k + 1 THEN c[i] ELSE b[i - (k + 1)]
  <2>1. /\ w \in Seq(R) /\ Len(w) = k + 1 + (n - k)
        /\ \A i \in 1 .. Len(w) : w[i] = IF i <= k + 1 THEN c[i] ELSE b[i - (k + 1)]
    <3>1. b \in Seq(R) /\ c \in Seq(R)
      BY <1>7, <1>9
    <3>2. w \in Seq(R) /\ IsConcat(w, c, b)
      BY <1>10, <3>1, ConcatIs, Zenon
    <3> QED BY <1>7, <1>9, <3>2 DEF IsConcat
  <2>2. k + 1 + (n - k) = n + 1
    BY <1>2
  <2> QED BY <2>1, <2>2
<1>12. ASSUME NEW i \in 1 .. n + 1
       PROVE  w[i] = IF i < at THEN v[i] ELSE IF i = at THEN m ELSE v[i - 1]
  <2>1. CASE i < at
    <3>1. i \in 1 .. k /\ i <= k + 1
      BY <1>3, <2>1
    <3> QED BY <1>9, <1>11, <2>1, <3>1
  <2>2. CASE i = at
    BY <1>3, <1>9, <1>11, <2>2
  <2>3. CASE i > at
    <3>1. PICK j \in 1 .. n - k : j = i - (k + 1)
      BY <1>3, <2>3
    <3>2. w[i] = b[j]
      BY <1>3, <1>11, <2>3, <3>1
    <3>3. b[j] = v[k + j] /\ k + j = i - 1
      BY <1>7, <3>1
    <3> QED BY <2>3, <3>2, <3>3
  <2> QED BY <1>1, <1>2, <2>1, <2>2, <2>3
<1>13. w = Inserted(v, at, m)
  <2>1. w = [i \in 1 .. n + 1 |-> w[i]]
    BY <1>11
  <2> QED BY <1>1, <1>12, <2>1 DEF Inserted
<1>14. InsertAt(v, at, m) = w
  BY <1>1, <1>2, <1>3, <1>4, <1>6, <1>8, <1>10 DEF InsertAt
<1> QED BY <1>13, <1>14

(* One message more, or one result more in an Anthropic user message.      *)
AnswerAdds(w, format, v, id) ==
    \/ \E at \in 1 .. Len(v) + 1 : w = Inserted(v, at, ResultOf(format, id))
    \/ \E at \in 1 .. Len(v) : format = "anthropic" /\ HasBlocks(v[at]) /\ w = WithResult(v, at, id)

(* The tool message of an OpenAI answer is inserted somewhere.             *)
LEMMA OpenAIAdds ==
  ASSUME NEW R, NEW v \in Seq(R), NEW id, ResultOf("openai", id) \in R
  PROVE  AnswerAdds(AnswerOpenAI(v, id), "openai", v, id)
<1>1. PICK n \in Nat : n = Len(v)
  OBVIOUS
<1>2. PICK A : A = {i \in 1 .. n : v[i].shape = "openai" /\ Contains(v[i].calls, id)}
  OBVIOUS
<1>3. PICK issued : issued = IF A # {} THEN Min(A) ELSE 0
  OBVIOUS
<1>4. issued \in 0 .. n
  BY <1>2, <1>3, FirstOf
<1>5. PICK B : B = {i \in issued + 1 .. n : v[i].role # "tool"}
  OBVIOUS
<1>6. PICK after : after = IF B # {} THEN Min(B) ELSE 0
  OBVIOUS
<1>7. after \in 0 .. n
  <2>1. B \subseteq 1 .. n
    BY <1>4, <1>5
  <2> QED BY <1>6, <2>1, FirstOf
<1>8. PICK m \in R : m = ResultOf("openai", id)
  OBVIOUS
<1>9. AnswerOpenAI(v, id) = IF issued = 0 \/ after = 0 THEN Append(v, m) ELSE InsertAt(v, after, m)
  <2>1. issued = SelectInSeq(v, LAMBDA x : x.shape = "openai" /\ Contains(x.calls, id))
    BY <1>1, <1>2, <1>3 DEF SelectInSeq
  <2>2. after = AfterResults(v, issued + 1)
    BY <1>1, <1>5, <1>6 DEF AfterResults, SelectInSubSeq
  <2> QED BY <1>8, <2>1, <2>2, Zenon DEF AnswerOpenAI
<1>10. CASE issued = 0 \/ after = 0
  <2>1. AnswerOpenAI(v, id) = Inserted(v, n + 1, m)
    BY <1>1, <1>9, <1>10, AppendedIs
  <2>2. n + 1 \in 1 .. Len(v) + 1
    BY <1>1
  <2> QED BY <1>8, <2>1, <2>2 DEF AnswerAdds
<1>11. CASE ~(issued = 0 \/ after = 0)
  <2>1. after \in 1 .. Len(v) /\ after \in 1 .. Len(v) + 1
    BY <1>1, <1>7, <1>11
  <2>2. AnswerOpenAI(v, id) = Inserted(v, after, m)
    BY <1>9, <1>11, <2>1, InsertAtIs
  <2> QED BY <1>8, <2>1, <2>2 DEF AnswerAdds
<1> QED BY <1>10, <1>11

(* An Anthropic answer is inserted, or joins the block message that        *)
(* follows the call.                                                       *)
LEMMA AnthropicAdds ==
  ASSUME NEW R, NEW v \in Seq(R), NEW id, ResultOf("anthropic", id) \in R
  PROVE  AnswerAdds(AnswerAnthropic(v, id), "anthropic", v, id)
<1>1. PICK n \in Nat : n = Len(v)
  OBVIOUS
<1>2. PICK A : A = {i \in 1 .. n : v[i].shape = "anthropic" /\ Contains(v[i].calls, id)}
  OBVIOUS
<1>3. PICK issued : issued = IF A # {} THEN Min(A) ELSE 0
  OBVIOUS
<1>4. issued \in 0 .. n
  BY <1>2, <1>3, FirstOf
<1>5. PICK B : B = {i \in issued + 1 .. n : HasBlocks(v[i])}
  OBVIOUS
<1>6. PICK target : target = IF issued = 0 THEN 0 ELSE IF B # {} THEN Min(B) ELSE 0
  OBVIOUS
<1>7. target # 0 => target \in 1 .. n /\ HasBlocks(v[target])
  <2> SUFFICES ASSUME target # 0 PROVE target \in 1 .. n /\ HasBlocks(v[target])
    OBVIOUS
  <2>1. B # {} /\ target = Min(B)
    BY <1>6
  <2>2. B \subseteq 1 .. n
    BY <1>4, <1>5
  <2>3. IsFiniteSet(B)
    BY <2>2, IntervalCount, FS_Subset
  <2>4. B \subseteq Int
    BY <2>2
  <2>5. target \in B
    BY <2>1, <2>3, <2>4, MinIs
  <2> QED BY <1>5, <2>2, <2>5
<1>8. PICK m \in R : m = ResultOf("anthropic", id)
  OBVIOUS
<1>9. AnswerAnthropic(v, id) = IF target = 0 THEN Append(v, m) ELSE WithResult(v, target, id)
  <2>1. issued = SelectInSeq(v, LAMBDA x : x.shape = "anthropic" /\ Contains(x.calls, id))
    BY <1>1, <1>2, <1>3 DEF SelectInSeq
  <2>2. target = IF issued = 0 THEN 0
                 ELSE SelectInSubSeq(v, issued + 1, Len(v), HasBlocks)
    BY <1>1, <1>5, <1>6 DEF SelectInSubSeq
  <2> QED BY <1>8, <2>1, <2>2, Zenon DEF AnswerAnthropic
<1>10. CASE target = 0
  <2>1. AnswerAnthropic(v, id) = Inserted(v, n + 1, m)
    BY <1>1, <1>9, <1>10, AppendedIs
  <2>2. n + 1 \in 1 .. Len(v) + 1
    BY <1>1
  <2> QED BY <1>8, <2>1, <2>2 DEF AnswerAdds
<1>11. CASE target # 0
  BY <1>1, <1>7, <1>9, <1>11 DEF AnswerAdds
<1> QED BY <1>10, <1>11

(* In each of the three formats an answer adds its result in one place.    *)
LEMMA AnswerIs ==
  ASSUME NEW R, NEW v \in Seq(R), NEW id, NEW format \in Formats, ResultOf(format, id) \in R
  PROVE  AnswerAdds(Answer(format, v, id), format, v, id)
<1>1. CASE format = "openai"
  BY <1>1, OpenAIAdds DEF Answer
<1>2. CASE format = "anthropic"
  BY <1>2, AnthropicAdds DEF Answer
<1>3. CASE format = "responses"
  <2>1. Answer(format, v, id) = Append(v, ResultOf(format, id))
    BY <1>3 DEF Answer, AnswerResponses
  <2>2. PICK at : at = Len(v) + 1
    OBVIOUS
  <2>3. at \in 1 .. Len(v) + 1
    BY <2>2
  <2> QED BY <2>1, <2>2, <2>3, AppendedIs DEF AnswerAdds
<1> QED BY <1>1, <1>2, <1>3 DEF Formats

-----------------------------------------------------------------------------
(* The messages of a client of one wire format, their arguments sanitized. *)
Letters(wire, U) ==
    {m \in [shape : {"text", wire}, role : {"user", "assistant", "tool", "none"},
            calls : Seq(U), results : Seq(U), text : BOOLEAN, args : {"ok", "bad", "empty"}] :
        /\ m.shape = "text" => m.calls = <<>> /\ m.results = <<>>
        /\ m.role = "tool" => m.shape = "openai"
        /\ HasBlocks(m) => m.calls = <<>>
        /\ m.args = "bad" => ~(m.shape = "openai" /\ m.role = "assistant")}

(* Another list of results makes another such message.                     *)
LEMMA OtherResults ==
  ASSUME NEW U, NEW wire \in Formats, NEW m \in Letters(wire, U), NEW rs \in Seq(U),
         m.shape = wire \/ rs = <<>>,
         NEW w, w = [m EXCEPT !.results = rs]
  PROVE  /\ w \in Letters(wire, U) /\ w.results = rs
         /\ w.shape = m.shape /\ w.role = m.role /\ w.calls = m.calls /\ w.text = m.text
<1>1. /\ m \in [shape : {"text", wire}, role : {"user", "assistant", "tool", "none"},
                calls : Seq(U), results : Seq(U), text : BOOLEAN, args : {"ok", "bad", "empty"}]
      /\ m.shape = "text" => m.calls = <<>> /\ m.results = <<>>
      /\ m.role = "tool" => m.shape = "openai"
      /\ HasBlocks(m) => m.calls = <<>>
      /\ m.args = "bad" => ~(m.shape = "openai" /\ m.role = "assistant")
  BY DEF Letters
<1>2. /\ w \in [shape : {"text", wire}, role : {"user", "assistant", "tool", "none"},
                calls : Seq(U), results : Seq(U), text : BOOLEAN, args : {"ok", "bad", "empty"}]
      /\ w.shape = m.shape /\ w.role = m.role /\ w.calls = m.calls /\ w.results = rs
      /\ w.args = m.args
  BY <1>1
<1>3. w.text = m.text
  BY <1>1
<1>4. wire # "text"
  BY DEF Formats
<1>5. w.shape = "text" => w.calls = <<>> /\ w.results = <<>>
  BY <1>1, <1>2, <1>4
<1>6. /\ w.role = "tool" => w.shape = "openai"
      /\ w.args = "bad" => ~(w.shape = "openai" /\ w.role = "assistant")
  BY <1>1, <1>2
<1>7. HasBlocks(w) => w.calls = <<>>
  BY <1>1, <1>2 DEF HasBlocks
<1>8. w \in Letters(wire, U)
  BY <1>2, <1>5, <1>6, <1>7 DEF Letters
<1> QED BY <1>2, <1>3, <1>8

(* The synthetic result is a message of its format, calls nothing and      *)
(* answers one call.                                                       *)
LEMMA ResultIsLetter ==
  ASSUME NEW U, NEW wire \in Formats, NEW id \in U, NEW m, m = ResultOf(wire, id)
  PROVE  m \in Letters(wire, U) /\ m.calls = <<>> /\ m.results = <<id>>
<1>1. PICK one : one = <<id>>
  OBVIOUS
<1>2. one \in Seq(U) /\ <<>> \in Seq(U)
  BY <1>1
<1>3. ASSUME NEW role \in {"user", "tool", "none"}, role = "tool" <=> wire = "openai",
             m = [shape |-> wire, role |-> role, calls |-> <<>>, results |-> one,
                  text |-> FALSE, args |-> "ok"]
      PROVE  m \in Letters(wire, U) /\ m.calls = <<>> /\ m.results = one
  <2>1. m.shape = wire /\ m.role = role /\ m.calls = <<>> /\ m.results = one /\ m.args = "ok"
    BY <1>3
  <2>2. m \in [shape : {"text", wire}, role : {"user", "assistant", "tool", "none"},
               calls : Seq(U), results : Seq(U), text : BOOLEAN, args : {"ok", "bad", "empty"}]
    BY <1>2, <1>3
  <2>3. wire # "text"
    BY DEF Formats
  <2>4. /\ m.shape = "text" => m.calls = <<>> /\ m.results = <<>>
        /\ m.role = "tool" => m.shape = "openai"
        /\ HasBlocks(m) => m.calls = <<>>
        /\ m.args = "bad" => ~(m.shape = "openai" /\ m.role = "assistant")
    BY <1>3, <2>1, <2>3
  <2> QED BY <2>1, <2>2, <2>4 DEF Letters
<1>4. CASE wire = "openai"
  <2>1. m = [shape |-> wire, role |-> "tool", calls |-> <<>>, results |-> one,
             text |-> FALSE, args |-> "ok"]
    BY <1>1, <1>4 DEF ResultOf, Plain
  <2> QED BY <1>1, <1>3, <1>4, <2>1
<1>5. CASE wire = "anthropic"
  <2>1. m = [shape |-> wire, role |-> "user", calls |-> <<>>, results |-> one,
             text |-> FALSE, args |-> "ok"]
    BY <1>1, <1>5 DEF ResultOf, Plain
  <2> QED BY <1>1, <1>3, <1>5, <2>1
<1>6. CASE wire = "responses"
  <2>1. m = [shape |-> wire, role |-> "none", calls |-> <<>>, results |-> one,
             text |-> FALSE, args |-> "ok"]
    BY <1>1, <1>6 DEF ResultOf, Plain
  <2> QED BY <1>1, <1>3, <1>6, <2>1
<1> QED BY <1>4, <1>5, <1>6 DEF Formats

(* Where the messages of a history are after an insertion.                 *)
LEMMA InsertedIs ==
  ASSUME NEW R, NEW v \in Seq(R), NEW m \in R, NEW at \in 1 .. Len(v) + 1,
         NEW w, w = Inserted(v, at, m)
  PROVE  /\ w \in Seq(R) /\ Len(w) = Len(v) + 1
         /\ w[at] = m
         /\ \A i \in 1 .. Len(w) : i # at => (IF i < at THEN i ELSE i - 1) \in 1 .. Len(v)
                                             /\ w[i] = v[IF i < at THEN i ELSE i - 1]
         /\ \A j \in 1 .. Len(v) : (IF j < at THEN j ELSE j + 1) \in 1 .. Len(w)
                                   /\ w[IF j < at THEN j ELSE j + 1] = v[j]
<1>1. PICK n \in Nat : n = Len(v)
  OBVIOUS
<1>2. w = [i \in 1 .. n + 1 |-> IF i < at THEN v[i] ELSE IF i = at THEN m ELSE v[i - 1]]
  BY <1>1 DEF Inserted
<1>3. at \in 1 .. n + 1
  BY <1>1
<1>4. ASSUME NEW i \in 1 .. n + 1, i # at
      PROVE  /\ (IF i < at THEN i ELSE i - 1) \in 1 .. n
             /\ w[i] = v[IF i < at THEN i ELSE i - 1]
  <2>1. CASE i < at
    <3>1. i \in 1 .. n
      BY <1>1, <1>3, <2>1
    <3> QED BY <1>2, <2>1, <3>1
  <2>2. CASE i > at
    <3>1. i - 1 \in 1 .. n /\ ~(i < at)
      BY <1>1, <1>3, <2>2
    <3> QED BY <1>2, <1>4, <2>2, <3>1
  <2> QED BY <1>3, <1>4, <2>1, <2>2
<1>5. w[at] = m
  BY <1>2, <1>3
<1>6. ASSUME NEW j \in 1 .. n
      PROVE  /\ (IF j < at THEN j ELSE j + 1) \in 1 .. n + 1
             /\ w[IF j < at THEN j ELSE j + 1] = v[j]
  <2>1. CASE j < at
    BY <1>2, <2>1
  <2>2. CASE ~(j < at)
    <3>1. j + 1 \in 1 .. n + 1 /\ ~(j + 1 < at) /\ j + 1 # at /\ j + 1 - 1 = j
      BY <1>1, <1>3, <2>2
    <3> QED BY <1>2, <2>2, <3>1
  <2> QED BY <2>1, <2>2
<1>7. \A i \in 1 .. n + 1 : w[i] \in R
  <2>1. \A i \in 1 .. n : v[i] \in R
    BY <1>1
  <2> QED BY <1>4, <1>5, <2>1
<1>8. w \in Seq(R) /\ Len(w) = n + 1
  <2>1. w = [i \in 1 .. n + 1 |-> w[i]]
    BY <1>2
  <2> QED BY <1>7, <2>1, SMTT(40)
<1> QED BY <1>1, <1>4, <1>5, <1>6, <1>8

(* Answering a call keeps the others and adds one result.                  *)
AnswerKeeps(w, v, wire, U, id) ==
    /\ w \in Seq(Letters(wire, U))
    /\ \A x : Calls(w, x) <=> Calls(v, x)
    /\ \A x : Results(w, x) <=> Results(v, x) \/ x = id

(* An inserted result changes no call and adds no other result.            *)
LEMMA InsertedKeeps ==
  ASSUME NEW U, NEW wire \in Formats, NEW v \in Seq(Letters(wire, U)), NEW id \in U,
         NEW at \in 1 .. Len(v) + 1, NEW w, w = Inserted(v, at, ResultOf(wire, id))
  PROVE  AnswerKeeps(w, v, wire, U, id)
<1>1. PICK m : m = ResultOf(wire, id)
  OBVIOUS
<1>2. m \in Letters(wire, U) /\ m.calls = <<>> /\ m.results = <<id>>
  BY <1>1, ResultIsLetter
<1>3. PICK R : R = Letters(wire, U)
  OBVIOUS
<1>4. /\ w \in Seq(R) /\ Len(w) = Len(v) + 1
      /\ w[at] = m
      /\ \A i \in 1 .. Len(w) : i # at => (IF i < at THEN i ELSE i - 1) \in 1 .. Len(v)
                                          /\ w[i] = v[IF i < at THEN i ELSE i - 1]
      /\ \A j \in 1 .. Len(v) : (IF j < at THEN j ELSE j + 1) \in 1 .. Len(w)
                                /\ w[IF j < at THEN j ELSE j + 1] = v[j]
  <2>1. v \in Seq(R) /\ m \in R /\ w = Inserted(v, at, m)
    BY <1>1, <1>2, <1>3
  <2> HIDE <1>3
  <2> QED BY <2>1, InsertedIs
<1>5. at \in 1 .. Len(w)
  BY <1>4
<1>6. \A i \in 1 .. Len(w) : i # at => \E j \in 1 .. Len(v) : w[i] = v[j]
  BY <1>4
<1>7. \A j \in 1 .. Len(v) : \E i \in 1 .. Len(w) : w[i] = v[j]
  BY <1>4
<1>8. \A x : ~Contains(m.calls, x) /\ (Contains(m.results, x) <=> x = id)
  BY <1>2 DEF Contains
<1>9. ASSUME NEW x PROVE Calls(w, x) <=> Calls(v, x)
  BY <1>4, <1>6, <1>7, <1>8, Zenon DEF Calls
<1>10. ASSUME NEW x PROVE Results(w, x) <=> Results(v, x) \/ x = id
  BY <1>4, <1>5, <1>6, <1>7, <1>8, ZenonT(60) DEF Results
<1> QED BY <1>3, <1>4, <1>9, <1>10 DEF AnswerKeeps

(* Nor does a result that joins a message.                                 *)
LEMMA JoinedKeeps ==
  ASSUME NEW U, NEW wire \in Formats, NEW v \in Seq(Letters(wire, U)), NEW id \in U,
         NEW at \in 1 .. Len(v), v[at].shape = wire, NEW w, w = WithResult(v, at, id)
  PROVE  AnswerKeeps(w, v, wire, U, id)
<1>1. PICK n \in Nat : n = Len(v)
  OBVIOUS
<1>2. PICK R : R = Letters(wire, U)
  OBVIOUS
<1>3. PICK m : m = [v[at] EXCEPT !.results = Append(@, id)]
  OBVIOUS
<1>4. m \in R /\ m.calls = v[at].calls /\ m.results = Append(v[at].results, id) /\ v[at].results \in Seq(U)
  <2>1. PICK u \in Letters(wire, U) : u = v[at]
    OBVIOUS
  <2>2. u.results \in Seq(U)
    BY DEF Letters
  <2>3. PICK rs : rs = Append(u.results, id)
    OBVIOUS
  <2>4. m = [u EXCEPT !.results = rs]
    BY <1>3, <2>1, <2>3
  <2>5. u.shape = wire
    BY <2>1
  <2>6. m \in Letters(wire, U) /\ m.results = rs /\ m.calls = u.calls
    <3>1. rs \in Seq(U)
      BY <2>2, <2>3
    <3> QED BY <2>4, <2>5, <3>1, OtherResults
  <2> QED BY <1>2, <2>1, <2>2, <2>3, <2>6
<1>5. w \in Seq(R) /\ Len(w) = n /\ \A i \in 1 .. n : w[i] = IF i = at THEN m ELSE v[i]
  <2>1. w = [i \in 1 .. n |-> IF i = at THEN [v[i] EXCEPT !.results = Append(@, id)] ELSE v[i]]
    BY <1>1, Zenon DEF WithResult
  <2>2. \A i \in 1 .. n : w[i] = IF i = at THEN m ELSE v[i]
    BY <1>3, <2>1
  <2>3. \A i \in 1 .. n : w[i] \in R
    BY <1>1, <1>2, <1>4, <2>2
  <2>4. w = [i \in 1 .. n |-> w[i]]
    BY <2>1
  <2> QED BY <2>2, <2>3, <2>4
<1>6. PICK rs \in Seq(U) : rs = v[at].results
  BY <1>4
<1>7. \A x : Contains(m.results, x) <=> Contains(rs, x) \/ x = id
  <2>1. m.results = Append(rs, id)
    BY <1>4, <1>6
  <2>2. PICK l \in Nat : l = Len(rs)
    OBVIOUS
  <2>3. Len(m.results) = l + 1 /\ m.results[l + 1] = id /\ \A k \in 1 .. l : m.results[k] = rs[k]
    BY <2>1, <2>2
  <2>4. ASSUME NEW x PROVE Contains(m.results, x) <=> Contains(rs, x) \/ x = id
    <3>1. CASE x = id
      <4>1. l + 1 \in 1 .. Len(m.results)
        BY <2>3
      <4> QED BY <2>3, <3>1, <4>1 DEF Contains
    <3>2. CASE x # id
      <4>1. ASSUME NEW k \in 1 .. l + 1, m.results[k] = x PROVE k \in 1 .. l
        BY <2>3, <3>2, <4>1
      <4> QED BY <2>2, <2>3, <3>2, <4>1 DEF Contains
    <3> QED BY <3>1, <3>2
  <2> QED BY <2>4
<1>8. ASSUME NEW x PROVE Calls(w, x) <=> Calls(v, x)
  <2>1. \A i \in 1 .. n : w[i].calls = v[i].calls
    BY <1>4, <1>5
  <2> QED BY <1>1, <1>5, <2>1 DEF Calls
<1>9. at \in 1 .. n
  BY <1>1
<1>10. ASSUME NEW x PROVE Results(w, x) <=> Results(v, x) \/ x = id
  <2>1. Results(w, x) <=> \E i \in 1 .. n : Contains(w[i].results, x)
    BY <1>5 DEF Results
  <2>2. Results(v, x) <=> \E i \in 1 .. n : Contains(v[i].results, x)
    BY <1>1 DEF Results
  <2>3. \A i \in 1 .. n : Contains(w[i].results, x) <=> Contains(v[i].results, x) \/ (i = at /\ x = id)
    BY <1>5, <1>6, <1>7
  <2> QED BY <1>9, <2>1, <2>2, <2>3
<1> QED BY <1>2, <1>5, <1>8, <1>10 DEF AnswerKeeps

(* So an answer keeps the calls, and adds the result of its id only.       *)
LEMMA AnswerKept ==
  ASSUME NEW U, NEW wire \in Formats, NEW v \in Seq(Letters(wire, U)), NEW id \in U
  PROVE  AnswerKeeps(Answer(wire, v, id), v, wire, U, id)
<1>1. PICK w : w = Answer(wire, v, id)
  OBVIOUS
<1>2. AnswerAdds(w, wire, v, id)
  <2>1. PICK R : R = Letters(wire, U)
    OBVIOUS
  <2>2. v \in Seq(R) /\ ResultOf(wire, id) \in R
    BY <2>1, ResultIsLetter
  <2> QED BY <1>1, <2>2, AnswerIs
<1>3. CASE \E at \in 1 .. Len(v) + 1 : w = Inserted(v, at, ResultOf(wire, id))
  BY <1>1, <1>3, InsertedKeeps
<1>4. CASE \E at \in 1 .. Len(v) : wire = "anthropic" /\ HasBlocks(v[at]) /\ w = WithResult(v, at, id)
  BY <1>1, <1>4, JoinedKeeps DEF HasBlocks
<1> QED BY <1>2, <1>3, <1>4 DEF AnswerAdds

(* Answering all calls that have no result.                                *)
LEMMA AnsweredKept ==
  ASSUME NEW U, NEW wire \in Formats, NEW V, V = Seq(Letters(wire, U)), NEW messages \in V,
         NEW calls \in Seq(U), NEW results, NEW a, a = Answered(wire, messages, calls, results)
  PROVE  /\ a \in V
         /\ \A x : Calls(a, x) <=> Calls(messages, x)
         /\ \A x : Results(a, x) <=>
                     Results(messages, x) \/ (Contains(calls, x) /\ ~Contains(results, x))
<1>1. PICK n \in Nat : n = Len(calls) /\ calls \in [1 .. n -> U]
  OBVIOUS
<1>2. ASSUME NEW v \in V, NEW x \in U
      PROVE  /\ AnswerOrphan(wire, results, v, x) \in V
             /\ \A y : Calls(AnswerOrphan(wire, results, v, x), y) <=> Calls(v, y)
             /\ \A y : Results(AnswerOrphan(wire, results, v, x), y) <=>
                         Results(v, y) \/ (y = x /\ ~Contains(results, x))
  <2>1. CASE Contains(results, x)
    BY <2>1 DEF AnswerOrphan
  <2>2. CASE ~Contains(results, x)
    <3>1. AnswerOrphan(wire, results, v, x) = Answer(wire, v, x)
      BY <2>2 DEF AnswerOrphan
    <3>2. AnswerKeeps(Answer(wire, v, x), v, wire, U, x)
      BY AnswerKept
    <3>3. /\ Answer(wire, v, x) \in V
          /\ \A y : Calls(Answer(wire, v, x), y) <=> Calls(v, y)
          /\ \A y : Results(Answer(wire, v, x), y) <=> Results(v, y) \/ y = x
      BY <3>2, Zenon DEF AnswerKeeps
    <3> QED BY <2>2, <3>1, <3>3, Zenon
  <2> QED BY <2>1, <2>2
<1>3. PICK p : AnswersEach(p, n, V, wire, messages, calls, results)
  <2>1. \A v \in V : \A x \in U : AnswerOrphan(wire, results, v, x) \in V
    BY <1>2, Zenon
  <2> QED BY <1>1, <2>1, FoldAnswer
<1>4. /\ p \in [0 .. n -> V] /\ p[0] = messages /\ p[n] = a
      /\ \A k \in 1 .. n : p[k] = AnswerOrphan(wire, results, p[k - 1], calls[k])
  BY <1>3 DEF AnswersEach
<1> DEFINE Due(k, x) == \E j \in 1 .. k : calls[j] = x /\ ~Contains(results, x)
           Holds(k) == /\ \A x : Calls(p[k], x) <=> Calls(messages, x)
                       /\ \A x : Results(p[k], x) <=> Results(messages, x) \/ Due(k, x)
           H == {k \in 0 .. n : Holds(k)}
<1>5. 0 \in H
  <2>1. \A x : ~Due(0, x)
    OBVIOUS
  <2> HIDE DEF Due
  <2>2. Holds(0)
    BY <1>4, <2>1, Zenon
  <2> HIDE DEF Holds
  <2> QED BY <2>2
<1>6. ASSUME NEW k \in 1 .. n, k - 1 \in H PROVE k \in H
  <2>1. PICK v \in V : v = p[k - 1]
    BY <1>4
  <2>2. PICK y \in U : y = calls[k]
    BY <1>1
  <2>3. p[k] = AnswerOrphan(wire, results, v, y)
    BY <1>4, <2>1, <2>2
  <2>4. Holds(k - 1)
    BY <1>6
  <2>5. ASSUME NEW x PROVE Due(k, x) <=> Due(k - 1, x) \/ (x = y /\ ~Contains(results, y))
    BY <2>2
  <2> HIDE DEF Due
  <2>6. Holds(k)
    <3>1. /\ \A x : Calls(p[k], x) <=> Calls(v, x)
          /\ \A x : Results(p[k], x) <=> Results(v, x) \/ (x = y /\ ~Contains(results, y))
      BY <1>2, <2>3
    <3>2. /\ \A x : Calls(v, x) <=> Calls(messages, x)
          /\ \A x : Results(v, x) <=> Results(messages, x) \/ Due(k - 1, x)
      BY <2>1, <2>4
    <3> QED BY <2>5, <3>1, <3>2
  <2> HIDE DEF Holds
  <2> QED BY <2>6
<1>7. Holds(n)
  <2> HIDE DEF Holds
  <2>1. n \in H
    <3> HIDE DEF H
    <3>1. 0 .. n \subseteq H
      BY <1>5, <1>6, Upwards
    <3> QED BY <3>1
  <2> QED BY <2>1
<1>8. ASSUME NEW x PROVE Due(n, x) <=> Contains(calls, x) /\ ~Contains(results, x)
  BY <1>1 DEF Contains
<1>9. a \in V
  BY <1>4
<1> HIDE DEF Due
<1> QED BY <1>4, <1>7, <1>8, <1>9, Zenon

-----------------------------------------------------------------------------
(* The elements of o are some of d, each from a place of its own.          *)
Selects(g, o, d) ==
    /\ g \in [1 .. Len(o) -> 1 .. Len(d)]
    /\ \A i \in 1 .. Len(o) : o[i] = d[g[i]]
    /\ \A i, j \in 1 .. Len(o) : g[i] = g[j] => i = j

(* Dropping results whose call is gone.                                    *)
LEMMA KeptIs ==
  ASSUME NEW U, NEW wire \in Formats, NEW m \in Letters(wire, U), NEW format, NEW calls,
         NEW w, w = Kept(format, m, calls)
  PROVE  /\ w \in Letters(wire, U)
         /\ w.shape = m.shape /\ w.role = m.role /\ w.calls = m.calls /\ w.text = m.text
         /\ \A x : Contains(w.results, x) <=> Contains(m.results, x) /\ ~IsOrphan(format, m, calls, x)
         /\ (\A x : Contains(m.results, x) => ~IsOrphan(format, m, calls, x)) => w = m
         /\ \E g : Selects(g, w.results, m.results)
<1>1. PICK old \in Seq(U) : old = m.results
  BY DEF Letters
<1>2. PICK gone : gone = {x \in ToSet(old) : IsOrphan(format, m, calls, x)}
  OBVIOUS
<1>3. PICK rs : rs = Without(old, gone)
  OBVIOUS
<1>4. PICK n \in Nat : n = Len(old)
  OBVIOUS
<1>5. /\ rs \in Seq(U)
      /\ (\A i \in 1 .. n : old[i] \notin gone) => rs = old
  BY <1>3, <1>4, WithoutIs
<1>6. PICK g : IsTrace(g, rs, old, n, gone)
  BY <1>3, <1>4, WithoutIs
<1>7. w = [m EXCEPT !.results = rs]
  BY <1>1, <1>2, <1>3 DEF Kept
<1>8. m.shape = wire \/ rs = <<>>
  <2>1. m.shape \in {"text", wire} /\ (m.shape = "text" => m.results = <<>>)
    BY DEF Letters
  <2>2. CASE m.shape = "text"
    <3>1. old = <<>> /\ n = 0
      BY <1>1, <1>4, <2>1, <2>2
    <3> QED BY <1>5, <3>1
  <2> QED BY <2>1, <2>2
<1>9. /\ w \in Letters(wire, U) /\ w.results = rs
      /\ w.shape = m.shape /\ w.role = m.role /\ w.calls = m.calls /\ w.text = m.text
  BY <1>5, <1>7, <1>8, OtherResults
<1>10. \A i \in 1 .. n : old[i] \in ToSet(old)
  BY <1>4 DEF ToSet
<1>11. \A i \in 1 .. n : old[i] \in gone <=> IsOrphan(format, m, calls, old[i])
  BY <1>2, <1>10
<1>12. ASSUME NEW x
       PROVE  Contains(rs, x) <=> Contains(old, x) /\ ~IsOrphan(format, m, calls, x)
  <2>1. ASSUME Contains(rs, x) PROVE Contains(old, x) /\ ~IsOrphan(format, m, calls, x)
    <3>1. PICK i \in 1 .. Len(rs) : rs[i] = x
      BY <2>1 DEF Contains
    <3>2. g[i] \in 1 .. n /\ x = old[g[i]] /\ x \notin gone
      BY <1>6, <3>1 DEF IsTrace
    <3> QED BY <1>4, <1>11, <3>2 DEF Contains
  <2>2. ASSUME Contains(old, x), ~IsOrphan(format, m, calls, x) PROVE Contains(rs, x)
    <3>1. PICK j \in 1 .. n : old[j] = x
      BY <1>4, <2>2 DEF Contains
    <3>2. old[j] \notin gone
      BY <1>11, <2>2, <3>1
    <3>3. PICK i \in 1 .. Len(rs) : g[i] = j
      BY <1>6, <3>2 DEF IsTrace
    <3>4. rs[i] = x
      BY <1>6, <3>1, <3>3 DEF IsTrace
    <3> QED BY <3>4 DEF Contains
  <2> QED BY <2>1, <2>2
<1>13. ASSUME \A x : Contains(old, x) => ~IsOrphan(format, m, calls, x) PROVE w = m
  <2>1. \A i \in 1 .. n : Contains(old, old[i])
    BY <1>4 DEF Contains
  <2>2. rs = old
    BY <1>5, <1>11, <1>13, <2>1
  <2>3. m \in [shape : {"text", wire}, role : {"user", "assistant", "tool", "none"},
               calls : Seq(U), results : Seq(U), text : BOOLEAN, args : {"ok", "bad", "empty"}]
    BY DEF Letters
  <2> QED BY <1>1, <1>7, <2>2, <2>3
<1>14. Selects(g, w.results, m.results)
  BY <1>1, <1>4, <1>6, <1>9 DEF IsTrace, Selects
<1> QED BY <1>1, <1>9, <1>12, <1>13, <1>14

(* Of the messages in k, whose results were dropped, o has those not empty. *)
IsDrop(o, k, n, R, format) ==
    /\ k \in Seq(R) /\ o \in Seq(R)
    /\ \E g : IsTrace(g, o, k, n, {m \in ToSet(k) : Emptied(format, m)})

(* Dropping orphans keeps the order of the messages that are left; with    *)
(* nothing to drop it keeps all.                                           *)
LEMMA DropIs ==
  ASSUME NEW U, NEW wire \in Formats, NEW v \in Seq(Letters(wire, U)), NEW format, NEW calls,
         NEW o, o = Drop(format, v, calls),
         NEW k, k = [i \in 1 .. Len(v) |-> Kept(format, v[i], calls)]
  PROVE  /\ IsDrop(o, k, Len(v), Letters(wire, U), format)
         /\ (\A i \in 1 .. Len(v) : k[i] = v[i] /\ ~Emptied(format, v[i])) => o = v
<1>1. PICK R : R = Letters(wire, U)
  OBVIOUS
<1>2. PICK n \in Nat : n = Len(v)
  OBVIOUS
<1>3. \A i \in 1 .. n : v[i] \in R
  BY <1>1, <1>2
<1>4. \A i \in 1 .. n : k[i] \in R
  BY <1>1, <1>2, <1>3, KeptIs
<1>5. k \in Seq(R) /\ Len(k) = n
  <2>1. k = [i \in 1 .. n |-> k[i]]
    BY <1>2
  <2> QED BY <1>4, <2>1
<1>6. PICK gone : gone = {m \in ToSet(k) : Emptied(format, m)}
  OBVIOUS
<1>7. o = Without(k, gone)
  BY <1>6 DEF Drop, Each
<1>8. /\ o \in Seq(R)
      /\ \E g : IsTrace(g, o, k, n, gone)
      /\ (\A i \in 1 .. n : k[i] \notin gone) => o = k
  BY <1>5, <1>7, WithoutIs
<1>9. ASSUME \A i \in 1 .. n : k[i] = v[i] /\ ~Emptied(format, v[i]) PROVE o = v
  <2>1. ASSUME NEW i \in 1 .. n PROVE k[i] \notin gone
    <3>1. ~Emptied(format, k[i])
      BY <1>9, Zenon
    <3> QED BY <1>6, <3>1
  <2>2. k = v
    <3>1. k = [i \in 1 .. n |-> k[i]] /\ v = [i \in 1 .. n |-> v[i]]
      BY <1>2, <1>5
    <3> QED BY <1>9, <3>1
  <2> QED BY <1>8, <2>1, <2>2
<1>10. IsDrop(o, k, n, R, format)
  BY <1>5, <1>6, <1>8 DEF IsDrop
<1> QED BY <1>1, <1>2, <1>9, <1>10

(* Nothing is dropped when no result is an orphan and no message empty.    *)
LEMMA NothingToDrop ==
  ASSUME NEW U, NEW wire \in Formats, NEW v \in Seq(Letters(wire, U)), NEW format, NEW calls,
         \A i \in 1 .. Len(v) : /\ \A x : Contains(v[i].results, x) => ~IsOrphan(format, v[i], calls, x)
                                /\ ~Emptied(format, v[i])
  PROVE  Drop(format, v, calls) = v
<1>1. PICK k : k = [i \in 1 .. Len(v) |-> Kept(format, v[i], calls)]
  OBVIOUS
<1>2. \A i \in 1 .. Len(v) : k[i] = v[i]
  <2> SUFFICES ASSUME NEW i \in 1 .. Len(v) PROVE k[i] = v[i]
    OBVIOUS
  <2>1. k[i] = Kept(format, v[i], calls) /\ v[i] \in Letters(wire, U)
    BY <1>1
  <2> QED BY <2>1, KeptIs
<1> QED BY <1>1, <1>2, DropIs

(* What is left has the calls it had, and their results.                   *)
LEMMA DropKeeps ==
  ASSUME NEW U, NEW wire \in Formats, NEW v \in Seq(Letters(wire, U)), NEW calls,
         NEW o, o = Drop(wire, v, calls)
  PROVE  /\ o \in Seq(Letters(wire, U))
         /\ \A x : Calls(o, x) <=> Calls(v, x)
         /\ \A x : Results(o, x) <=> Results(v, x) /\ Contains(calls, x)
         /\ \A i \in 1 .. Len(o) : ~Emptied(wire, o[i])
<1>1. PICK R : R = Letters(wire, U)
  OBVIOUS
<1>2. PICK n \in Nat : n = Len(v)
  OBVIOUS
<1>3. PICK k : k = [i \in 1 .. n |-> Kept(wire, v[i], calls)]
  OBVIOUS
<1>4. PICK gone : gone = {m \in ToSet(k) : Emptied(wire, m)}
  OBVIOUS
<1>5. k \in Seq(R) /\ o \in Seq(R) /\ \E g : IsTrace(g, o, k, n, gone)
  <2>1. k = [i \in 1 .. Len(v) |-> Kept(wire, v[i], calls)]
    BY <1>2, <1>3, Zenon
  <2>2. IsDrop(o, k, Len(v), Letters(wire, U), wire)
    BY <2>1, DropIs
  <2> QED BY <1>1, <1>2, <1>4, <2>2, Zenon DEF IsDrop
<1>6. PICK g : IsTrace(g, o, k, n, gone)
  BY <1>5
<1>7. /\ \A i \in 1 .. Len(o) : g[i] \in 1 .. n /\ o[i] = k[g[i]] /\ o[i] \notin gone
      /\ \A j \in 1 .. n : k[j] \notin gone => \E i \in 1 .. Len(o) : g[i] = j
  BY <1>6 DEF IsTrace
<1>8. \A j \in 1 .. n : k[j] \in gone <=> Emptied(wire, k[j])
  <2>1. Len(k) = n
    BY <1>3
  <2>2. \A j \in 1 .. n : k[j] \in ToSet(k)
    BY <1>5, <2>1 DEF ToSet
  <2> QED BY <1>4, <2>2
<1>9. ASSUME NEW m \in R, Emptied(wire, m) PROVE m.calls = <<>> /\ m.results = <<>>
  <2>1. HasBlocks(m) => m.calls = <<>>
    BY <1>1 DEF Letters
  <2> QED BY <1>9, <2>1 DEF Emptied
<1>10. ASSUME NEW j \in 1 .. n
       PROVE  /\ k[j] \in R /\ k[j].calls = v[j].calls
              /\ \A x : Contains(k[j].results, x) <=> Contains(v[j].results, x) /\ Contains(calls, x)
  <2>1. v[j] \in Letters(wire, U) /\ k[j] = Kept(wire, v[j], calls)
    BY <1>2, <1>3
  <2>2. /\ k[j] \in Letters(wire, U) /\ k[j].calls = v[j].calls
        /\ \A x : Contains(k[j].results, x) <=>
                    Contains(v[j].results, x) /\ ~IsOrphan(wire, v[j], calls, x)
    <3>1. PICK m \in Letters(wire, U) : m = v[j]
      BY <2>1, Zenon
    <3>2. PICK w : w = Kept(wire, m, calls)
      OBVIOUS
    <3>3. /\ w \in Letters(wire, U) /\ w.calls = m.calls
          /\ \A x : Contains(w.results, x) <=> Contains(m.results, x) /\ ~IsOrphan(wire, m, calls, x)
      BY <3>2, KeptIs
    <3>4. k[j] = w
      BY <2>1, <3>1, <3>2, Zenon
    <3> QED BY <3>1, <3>3, <3>4, Zenon
  <2>3. v[j].shape = wire \/ v[j].results = <<>>
    BY <2>1 DEF Letters
  <2>4. ASSUME NEW x, Contains(v[j].results, x) PROVE IsOrphan(wire, v[j], calls, x) <=> ~Contains(calls, x)
    <3>1. v[j].results # <<>>
      BY <2>4 DEF Contains
    <3> QED BY <2>3, <3>1 DEF IsOrphan
  <2> QED BY <1>1, <2>2, <2>4
<1>11. \A j \in 1 .. n : k[j] \in gone => k[j].calls = <<>> /\ k[j].results = <<>>
  BY <1>8, <1>9, <1>10
<1>12. \A x : ~Contains(<<>>, x)
  BY DEF Contains
<1>13. ASSUME NEW x PROVE Calls(o, x) <=> Calls(v, x)
  <2>1. ASSUME Calls(o, x) PROVE Calls(v, x)
    <3>1. PICK i \in 1 .. Len(o) : Contains(o[i].calls, x)
      BY <2>1 DEF Calls
    <3>2. g[i] \in 1 .. n /\ Contains(v[g[i]].calls, x)
      BY <1>7, <1>10, <3>1
    <3> QED BY <1>2, <3>2 DEF Calls
  <2>2. ASSUME Calls(v, x) PROVE Calls(o, x)
    <3>1. PICK j \in 1 .. n : Contains(v[j].calls, x)
      BY <1>2, <2>2 DEF Calls
    <3>2. Contains(k[j].calls, x)
      BY <1>10, <3>1
    <3>3. k[j] \notin gone
      BY <1>11, <1>12, <3>2
    <3>4. PICK i \in 1 .. Len(o) : g[i] = j
      BY <1>7, <3>3
    <3>5. Contains(o[i].calls, x)
      BY <1>7, <3>2, <3>4
    <3> QED BY <3>5 DEF Calls
  <2> QED BY <2>1, <2>2
<1>14. ASSUME NEW x PROVE Results(o, x) <=> Results(v, x) /\ Contains(calls, x)
  <2>1. ASSUME Results(o, x) PROVE Results(v, x) /\ Contains(calls, x)
    <3>1. PICK i \in 1 .. Len(o) : Contains(o[i].results, x)
      BY <2>1 DEF Results
    <3>2. g[i] \in 1 .. n /\ Contains(v[g[i]].results, x) /\ Contains(calls, x)
      BY <1>7, <1>10, <3>1, ZenonT(60)
    <3> QED BY <1>2, <3>2 DEF Results
  <2>2. ASSUME Results(v, x), Contains(calls, x) PROVE Results(o, x)
    <3>1. PICK j \in 1 .. n : Contains(v[j].results, x)
      BY <1>2, <2>2 DEF Results
    <3>2. Contains(k[j].results, x)
      BY <1>10, <2>2, <3>1
    <3>3. k[j] \notin gone
      BY <1>11, <1>12, <3>2
    <3>4. PICK i \in 1 .. Len(o) : g[i] = j
      BY <1>7, <3>3
    <3>5. Contains(o[i].results, x)
      BY <1>7, <3>2, <3>4
    <3> QED BY <3>5 DEF Results
  <2> QED BY <2>1, <2>2
<1>15. \A i \in 1 .. Len(o) : ~Emptied(wire, o[i])
  BY <1>7, <1>8
<1> QED BY <1>1, <1>5, <1>13, <1>14, <1>15

-----------------------------------------------------------------------------
(* The format is the client's, or nothing in the history is of the format. *)
LEMMA Detected ==
  ASSUME NEW U, NEW wire \in Formats, NEW v \in Seq(Letters(wire, U)),
         NEW format, format = DetectFormat(v)
  PROVE  /\ format \in {wire, "openai"}
         /\ format # wire => /\ \A x : ~Calls(v, x)
                             /\ \A i \in 1 .. Len(v) : v[i].shape # format
<1>1. PICK n \in Nat : n = Len(v)
  OBVIOUS
<1>2. PICK I : I = {i \in 1 .. n : Decides(v[i])}
  OBVIOUS
<1>3. SelectInSeq(v, Decides) = IF I # {} THEN Min(I) ELSE 0
  BY <1>1, <1>2 DEF SelectInSeq
<1>4. ASSUME NEW i \in 1 .. n
      PROVE  /\ v[i].shape \in {"text", wire}
             /\ v[i].shape = "text" => v[i].calls = <<>>
             /\ v[i].role = "tool" => v[i].shape = "openai"
  <2>1. v[i] \in Letters(wire, U)
    BY <1>1
  <2> QED BY <2>1 DEF Letters
<1>5. CASE I # {}
  <2>1. PICK first : first = Min(I)
    OBVIOUS
  <2>2. first \in I
    <3>1. I \subseteq 1 .. n
      BY <1>2
    <3>2. IsFiniteSet(I)
      BY <3>1, IntervalCount, FS_Subset
    <3>3. I \subseteq Int
      BY <3>1
    <3> QED BY <1>5, <2>1, <3>2, <3>3, MinIs
  <2>3. first \in 1 .. n /\ Decides(v[first])
    BY <1>2, <2>2
  <2>4. format = v[first].shape
    <3>1. first # 0
      BY <2>3
    <3> QED BY <1>3, <1>5, <2>1, <3>1 DEF DetectFormat
  <2>5. v[first].shape # "text"
    BY <1>4, <2>3 DEF Decides
  <2> QED BY <1>4, <2>3, <2>4, <2>5
<1>6. CASE I = {}
  <2>1. format = "openai"
    BY <1>3, <1>6 DEF DetectFormat
  <2>2. ASSUME format # wire, NEW i \in 1 .. n PROVE v[i].calls = <<>> /\ v[i].shape # format
    <3>1. ~Decides(v[i])
      BY <1>2, <1>6
    <3>2. wire \in {"anthropic", "responses"}
      BY <2>1, <2>2 DEF Formats
    <3> QED BY <1>4, <2>1, <2>2, <3>1, <3>2 DEF Decides
  <2>3. \A x : ~Contains(<<>>, x)
    BY DEF Contains
  <2>4. format # wire => \A x : ~Calls(v, x)
    BY <1>1, <2>2, <2>3 DEF Calls
  <2> QED BY <1>1, <2>1, <2>2, <2>4
<1> QED BY <1>5, <1>6

(* A list without elements is empty.                                       *)
LEMMA NothingContained ==
  ASSUME NEW U, NEW s \in Seq(U), \A x : ~Contains(s, x)
  PROVE  s = <<>>
<1>1. PICK n \in Nat : n = Len(s)
  OBVIOUS
<1>2. ~(n >= 1)
  <2> SUFFICES ASSUME n >= 1 PROVE FALSE
    OBVIOUS
  <2>1. Contains(s, s[1])
    BY <1>1 DEF Contains
  <2> QED BY <2>1
<1> QED BY <1>1, <1>2

(* Sanitizing a message of one format changes nothing: its arguments       *)
(* parse.                                                                  *)
LEMMA LetterIsClean ==
  ASSUME NEW U, NEW wire, NEW m \in Letters(wire, U)
  PROVE  Sanitize(m) = m
BY DEF Letters, Sanitize

(* Messages of one format make a history whose ids are known.              *)
LEMMA LettersAreHistory ==
  ASSUME NEW U, NEW wire, NEW v \in Seq(Letters(wire, U))
  PROVE  IsHistory(v, U)
<1>1. ASSUME NEW i \in 1 .. Len(v) PROVE v[i].calls \in Seq(U) /\ v[i].results \in Seq(U)
  <2>1. v[i] \in Letters(wire, U)
    OBVIOUS
  <2> QED BY <2>1 DEF Letters
<1> QED BY <1>1 DEF IsHistory

(* A history in need of no repair: every call has its result, every result *)
(* of the format its call, and no message is empty.                        *)
WellFormed(v, format) ==
    /\ \A x : Calls(v, x) => Results(v, x)
    /\ \A i \in 1 .. Len(v) : v[i].shape = format =>
         \A x : Contains(v[i].results, x) => Calls(v, x)
    /\ \/ \A x : ~Calls(v, x) /\ ~Results(v, x)
       \/ \A i \in 1 .. Len(v) : ~Emptied(format, v[i])

(* Such a history is left as it is.                                        *)
LEMMA WellFormedStays ==
  ASSUME NEW U, NEW wire \in Formats, NEW v \in Seq(Letters(wire, U)),
         WellFormed(v, DetectFormat(v))
  PROVE  MessageHistoryRepair(v) = [messages |-> v, repairs |-> 0]
<1>1. PICK format : format = DetectFormat(v)
  OBVIOUS
<1>2. Each(v, Sanitize) = v
  <2>1. ASSUME NEW i \in 1 .. Len(v) PROVE Sanitize(v[i]) = v[i]
    <3>1. v[i] \in Letters(wire, U)
      OBVIOUS
    <3> QED BY <3>1, LetterIsClean
  <2>2. \E T : v \in Seq(T)
    OBVIOUS
  <2> QED BY <2>1, <2>2, AlreadyClean
<1>3. IsHistory(v, U)
  BY LettersAreHistory
<1>4. PICK calls : calls = CallIds(v)
  OBVIOUS
<1>5. PICK results : results = ResultIds(v)
  OBVIOUS
<1>6. /\ calls \in Seq(U) /\ results \in Seq(U)
      /\ \A x : Contains(calls, x) <=> Calls(v, x)
      /\ \A x : Contains(results, x) <=> Results(v, x)
  BY <1>3, <1>4, <1>5, IdsAre
<1>7. \A k \in 1 .. Len(calls) : Contains(results, calls[k])
  <2> SUFFICES ASSUME NEW k \in 1 .. Len(calls) PROVE Contains(results, calls[k])
    OBVIOUS
  <2>1. Contains(calls, calls[k])
    BY DEF Contains
  <2> QED BY <1>6, <2>1 DEF WellFormed
<1>8. Answered(format, v, calls, results) = v
  BY <1>6, <1>7, NothingToAnswer
<1>9. Missing(calls, results) = {}
  BY <1>7 DEF Missing
<1>10. ASSUME NEW i \in 1 .. Len(v), NEW x, Contains(v[i].results, x)
       PROVE  ~IsOrphan(format, v[i], calls, x)
  BY <1>1, <1>6, <1>10 DEF WellFormed, IsOrphan
<1>11. Orphans(format, v, calls) = {}
  <2>1. ASSUME NEW p \in Places(v) PROVE ~IsOrphan(format, v[p[1]], calls, ResultAt(v, p))
    <3>1. PICK i \in 1 .. Len(v) : \E k \in 1 .. Len(v[i].results) : p = <<i, k>>
      BY DEF Places
    <3> PICK k \in 1 .. Len(v[i].results) : p = <<i, k>>
      BY <3>1
    <3>2. Contains(v[i].results, v[i].results[k])
      BY DEF Contains
    <3>3. p[1] = i /\ ResultAt(v, p) = v[i].results[k]
      BY <3>1 DEF ResultAt
    <3> QED BY <1>10, <3>2, <3>3
  <2> QED BY <2>1 DEF Orphans
<1>12. Cardinality({}) + Cardinality({}) = 0
  BY FS_EmptySet
<1>13. MessageHistoryRepair(v)
         = IF calls = <<>> /\ results = <<>> THEN [messages |-> v, repairs |-> 0]
           ELSE [messages |-> Drop(format, v, calls),
                 repairs |-> Cardinality(Missing(calls, results))
                             + Cardinality(Orphans(format, v, calls))]
  BY <1>1, <1>2, <1>4, <1>5, <1>8, Zenon DEF MessageHistoryRepair
<1>14. CASE calls = <<>> /\ results = <<>>
  BY <1>13, <1>14
<1>15. CASE ~(calls = <<>> /\ results = <<>>)
  <2>1. \A i \in 1 .. Len(v) : ~Emptied(format, v[i])
    <3>1. ~(\A x : ~Calls(v, x) /\ ~Results(v, x))
      BY <1>6, <1>15, NothingContained
    <3> QED BY <1>1, <3>1 DEF WellFormed
  <2>2. Drop(format, v, calls) = v
    BY <1>10, <2>1, NothingToDrop
  <2> QED BY <1>9, <1>11, <1>12, <1>13, <1>15, <2>2, Zenon
<1> QED BY <1>14, <1>15

(* Repair makes a history well formed.                                     *)
LEMMA RepairedIs ==
  ASSUME NEW U, NEW wire \in Formats, NEW messages,
         NEW clean \in Seq(Letters(wire, U)), clean = Each(messages, Sanitize),
         NEW o, o = MessageHistoryRepair(messages).messages
  PROVE  /\ o \in Seq(Letters(wire, U)) /\ WellFormed(o, DetectFormat(o))
         /\ DetectFormat(clean) = wire => \A x : Results(o, x) => Calls(o, x)
<1>1. PICK format : format = DetectFormat(clean)
  OBVIOUS
<1>2. IsHistory(clean, U)
  BY LettersAreHistory
<1>3. PICK calls : calls = CallIds(clean)
  OBVIOUS
<1>4. PICK results : results = ResultIds(clean)
  OBVIOUS
<1>5. /\ calls \in Seq(U) /\ results \in Seq(U)
      /\ \A x : Contains(calls, x) <=> Calls(clean, x)
      /\ \A x : Contains(results, x) <=> Results(clean, x)
  BY <1>2, <1>3, <1>4, IdsAre
<1>6. PICK a : a = Answered(format, clean, calls, results)
  OBVIOUS
<1>7. o = IF calls = <<>> /\ results = <<>> THEN clean ELSE Drop(format, a, calls)
  BY <1>1, <1>3, <1>4, <1>6 DEF MessageHistoryRepair
<1>8. \A x : ~Contains(<<>>, x)
  BY DEF Contains
<1>9. CASE calls = <<>> /\ results = <<>>
  <2>1. o = clean /\ \A x : ~Calls(o, x) /\ ~Results(o, x)
    BY <1>5, <1>7, <1>8, <1>9
  <2>2. \A i \in 1 .. Len(o) : \A x : ~Contains(o[i].results, x)
    BY <2>1 DEF Results
  <2> QED BY <2>1, <2>2 DEF WellFormed
<1>10. CASE ~(calls = <<>> /\ results = <<>>) /\ format # wire
  <2>1. /\ \A x : ~Calls(clean, x)
        /\ \A i \in 1 .. Len(clean) : clean[i].shape # format
    BY <1>1, <1>10, Detected
  <2>2. calls = <<>>
    BY <1>5, <2>1, NothingContained
  <2>3. a = clean
    <3>1. \A k \in 1 .. Len(calls) : Contains(results, calls[k])
      BY <2>2
    <3> QED BY <1>5, <1>6, <3>1, NothingToAnswer
  <2>4. ASSUME NEW i \in 1 .. Len(clean)
        PROVE  /\ \A x : Contains(clean[i].results, x) => ~IsOrphan(format, clean[i], calls, x)
               /\ ~Emptied(format, clean[i])
    <3>1. clean[i].shape # format
      BY <2>1
    <3>2. ~Emptied(format, clean[i])
      BY <3>1 DEF Emptied, HasBlocks
    <3> QED BY <3>1, <3>2 DEF IsOrphan
  <2>5. o = clean
    <3>1. Drop(format, clean, calls) = clean
      BY <2>4, NothingToDrop
    <3> QED BY <1>7, <1>10, <2>3, <3>1
  <2>6. WellFormed(o, format)
    BY <2>1, <2>4, <2>5 DEF WellFormed
  <2> QED BY <1>1, <1>10, <2>5, <2>6
<1>11. CASE ~(calls = <<>> /\ results = <<>>) /\ format = wire
  <2>1. o = Drop(wire, a, calls)
    BY <1>7, <1>11
  <2>2. PICK V : V = Seq(Letters(wire, U))
    OBVIOUS
  <2>3. /\ a \in V
        /\ \A x : Calls(a, x) <=> Calls(clean, x)
        /\ \A x : Results(a, x) <=>
                    Results(clean, x) \/ (Contains(calls, x) /\ ~Contains(results, x))
    BY <1>5, <1>6, <1>11, <2>2, AnsweredKept
  <2>4. /\ o \in Seq(Letters(wire, U))
        /\ \A x : Calls(o, x) <=> Calls(a, x)
        /\ \A x : Results(o, x) <=> Results(a, x) /\ Contains(calls, x)
        /\ \A i \in 1 .. Len(o) : ~Emptied(wire, o[i])
    BY <2>1, <2>2, <2>3, DropKeeps
  <2>5. \A x : Calls(o, x) <=> Results(o, x)
    BY <1>5, <2>3, <2>4
  <2>6. PICK f : f = DetectFormat(o)
    OBVIOUS
  <2>7. ASSUME NEW i \in 1 .. Len(o) PROVE ~Emptied(f, o[i])
    <3>1. CASE f = wire
      BY <2>4, <3>1
    <3>2. CASE f # wire
      <4>1. o[i].shape # f
        BY <2>4, <2>6, <3>2, Detected
      <4> QED BY <4>1 DEF Emptied, HasBlocks
    <3> QED BY <3>1, <3>2
  <2>8. \A i \in 1 .. Len(o) : \A x : Contains(o[i].results, x) => Calls(o, x)
    BY <2>5 DEF Results
  <2>9. WellFormed(o, f)
    BY <2>5, <2>7, <2>8 DEF WellFormed
  <2> QED BY <2>4, <2>5, <2>6, <2>9
<1> QED BY <1>9, <1>10, <1>11

(* A second repair changes nothing and reports nothing.                    *)
LEMMA RepairTwice ==
  ASSUME NEW U, NEW wire \in Formats, NEW messages, Each(messages, Sanitize) \in Seq(Letters(wire, U)),
         NEW o, o = MessageHistoryRepair(messages).messages
  PROVE  MessageHistoryRepair(o) = [messages |-> o, repairs |-> 0]
BY RepairedIs, WellFormedStays

-----------------------------------------------------------------------------
(* How often a call is answered.                                           *)

ResultsAt(v, x) == {p \in Places(v) : ResultAt(v, p) = x}

(* A set that is mapped into another one by one is no larger.              *)
LEMMA Fewer ==
  ASSUME NEW S, NEW T, IsFiniteSet(T), NEW f,
         \A p \in S : f[p] \in T, \A p, q \in S : f[p] = f[q] => p = q
  PROVE  /\ IsFiniteSet(S) /\ Cardinality(S) \in Nat /\ Cardinality(T) \in Nat
         /\ Cardinality(S) <= Cardinality(T)
<1>1. PICK g : g = [p \in S |-> f[p]]
  OBVIOUS
<1>2. g \in Injection(S, T)
  BY <1>1 DEF Injection, IsInjective
<1>3. IsFiniteSet(S) /\ Cardinality(S) <= Cardinality(T)
  BY <1>2, FS_Injection
<1> QED BY <1>3, FS_CardinalityType

(* With one more element it has at most one more.                          *)
LEMMA OneMore ==
  ASSUME NEW S, NEW T, IsFiniteSet(T), NEW q, NEW f,
         \A p \in S \ {q} : f[p] \in T, \A p, r \in S \ {q} : f[p] = f[r] => p = r
  PROVE  /\ IsFiniteSet(S) /\ Cardinality(S) \in Nat /\ Cardinality(T) \in Nat
         /\ Cardinality(S) <= Cardinality(T) + 1
         /\ q \notin S => Cardinality(S) <= Cardinality(T)
<1>1. PICK R : R = S \ {q}
  OBVIOUS
<1>2. /\ IsFiniteSet(R) /\ Cardinality(R) \in Nat /\ Cardinality(T) \in Nat
      /\ Cardinality(R) <= Cardinality(T)
  BY <1>1, Fewer
<1>3. CASE q \in S
  <2>1. S = R \cup {q} /\ q \notin R
    BY <1>1, <1>3
  <2>2. IsFiniteSet(S) /\ Cardinality(S) = Cardinality(R) + 1
    BY <1>2, <2>1, FS_AddElement
  <2> QED BY <1>2, <1>3, <2>2
<1>4. CASE q \notin S
  <2>1. S = R
    BY <1>1, <1>4
  <2> QED BY <1>2, <2>1
<1> QED BY <1>3, <1>4

(* A result has the index of its message and one among its results.        *)
LEMMA PlaceOf ==
  ASSUME NEW v, NEW x, NEW p
  PROVE  p \in ResultsAt(v, x) <=>
           \E i \in 1 .. Len(v) : \E k \in 1 .. Len(v[i].results) :
             p = <<i, k>> /\ v[i].results[k] = x
<1>1. ASSUME p \in ResultsAt(v, x)
      PROVE  \E i \in 1 .. Len(v) : \E k \in 1 .. Len(v[i].results) :
               p = <<i, k>> /\ v[i].results[k] = x
  <2>1. PICK i \in 1 .. Len(v) : p \in {i} \X (1 .. Len(v[i].results))
    BY <1>1 DEF ResultsAt, Places
  <2>2. PICK k \in 1 .. Len(v[i].results) : p = <<i, k>>
    BY <2>1
  <2>3. v[i].results[k] = x
    BY <1>1, <2>2 DEF ResultsAt, ResultAt
  <2> QED BY <2>2, <2>3
<1>2. ASSUME NEW i \in 1 .. Len(v), NEW k \in 1 .. Len(v[i].results),
             p = <<i, k>>, v[i].results[k] = x
      PROVE  p \in ResultsAt(v, x)
  <2>1. p \in {i} \X (1 .. Len(v[i].results))
    BY <1>2
  <2>2. p \in Places(v)
    BY <2>1 DEF Places
  <2> QED BY <1>2, <2>2 DEF ResultsAt, ResultAt
<1> QED BY <1>1, <1>2

(* There are finitely many.                                                *)
LEMMA ResultsFinite ==
  ASSUME NEW U, NEW wire, NEW v \in Seq(Letters(wire, U)), NEW x
  PROVE  IsFiniteSet(ResultsAt(v, x)) /\ Cardinality(ResultsAt(v, x)) \in Nat
<1>1. \A m \in Letters(wire, U) : m.results \in Seq(U)
  BY DEF Letters
<1>2. IsFiniteSet(Places(v))
  BY <1>1, PlacesFinite
<1>3. ResultsAt(v, x) \subseteq Places(v)
  BY DEF ResultsAt
<1> QED BY <1>2, <1>3, FS_Subset, FS_CardinalityType

(* Answering a call adds one result, of that call.                         *)
AddsOne(w, v, id) ==
    \A x : /\ Cardinality(ResultsAt(w, x)) <= Cardinality(ResultsAt(v, x)) + 1
           /\ x # id => Cardinality(ResultsAt(w, x)) <= Cardinality(ResultsAt(v, x))

(* In a message of its own.                                                *)
LEMMA InsertedAddsOne ==
  ASSUME NEW U, NEW wire \in Formats, NEW v \in Seq(Letters(wire, U)), NEW id \in U,
         NEW at \in 1 .. Len(v) + 1, NEW w, w = Inserted(v, at, ResultOf(wire, id))
  PROVE  AddsOne(w, v, id)
<1>1. PICK R : R = Letters(wire, U)
  OBVIOUS
<1>2. PICK m : m = ResultOf(wire, id)
  OBVIOUS
<1>3. m \in R /\ m.results = <<id>>
  BY <1>1, <1>2, ResultIsLetter
<1>4. PICK before : before = [i \in 1 .. Len(w) |-> IF i < at THEN i ELSE i - 1]
  OBVIOUS
<1>5. /\ v \in Seq(R) /\ w = Inserted(v, at, m)
      /\ at \in Nat
  BY <1>1, <1>2
<1>6. /\ w \in Seq(R) /\ w[at] = m
      /\ \A i \in 1 .. Len(w) : i # at => (IF i < at THEN i ELSE i - 1) \in 1 .. Len(v)
                                          /\ w[i] = v[IF i < at THEN i ELSE i - 1]
  BY <1>3, <1>5, InsertedIs
<1>7. \A i \in 1 .. Len(w) : i # at => before[i] \in 1 .. Len(v) /\ w[i] = v[before[i]]
  BY <1>4, <1>6
<1>8. \A i, j \in 1 .. Len(w) : i # at /\ j # at /\ before[i] = before[j] => i = j
  BY <1>4, <1>5, <1>6
<1>9. PICK q : q = <<at, 1>>
  OBVIOUS
<1>10. ASSUME NEW x PROVE /\ Cardinality(ResultsAt(w, x)) <= Cardinality(ResultsAt(v, x)) + 1
                          /\ x # id => Cardinality(ResultsAt(w, x)) <= Cardinality(ResultsAt(v, x))
  <2>1. PICK S : S = ResultsAt(w, x)
    OBVIOUS
  <2>2. PICK T : T = ResultsAt(v, x)
    OBVIOUS
  <2>3. PICK f : f = [p \in S |-> <<before[p[1]], p[2]>>]
    OBVIOUS
  <2>4. ASSUME NEW p \in S, p # q
        PROVE  \E i \in 1 .. Len(w) : \E k : /\ p = <<i, k>> /\ i # at /\ f[p] = <<before[i], k>>
                                             /\ k \in 1 .. Len(w[i].results) /\ w[i].results[k] = x
    <3>1. PICK i \in 1 .. Len(w) : \E k \in 1 .. Len(w[i].results) : p = <<i, k>> /\ w[i].results[k] = x
      BY <2>1, PlaceOf
    <3>2. PICK k \in 1 .. Len(w[i].results) : p = <<i, k>> /\ w[i].results[k] = x
      BY <3>1
    <3>3. i # at
      <4> SUFFICES ASSUME i = at PROVE FALSE
        OBVIOUS
      <4>1. k \in 1 .. Len(<<id>>)
        BY <1>3, <1>6, <3>2
      <4>2. k = 1
        BY <4>1
      <4> QED BY <1>9, <2>4, <3>2, <4>2
    <3>4. f[p] = <<before[i], k>>
      BY <2>3, <3>2
    <3> QED BY <3>2, <3>3, <3>4
  <2>5. ASSUME NEW p \in S \ {q} PROVE f[p] \in T
    <3>1. PICK i, k : /\ i \in 1 .. Len(w)
                      /\ p = <<i, k>> /\ i # at /\ f[p] = <<before[i], k>>
                      /\ k \in 1 .. Len(w[i].results) /\ w[i].results[k] = x
      BY <2>4
    <3>2. PICK j \in 1 .. Len(v) : j = before[i] /\ w[i] = v[j]
      BY <1>7, <3>1
    <3>3. k \in 1 .. Len(v[j].results) /\ v[j].results[k] = x /\ f[p] = <<j, k>>
      BY <3>1, <3>2
    <3> QED BY <2>2, <3>3, PlaceOf
  <2>6. ASSUME NEW p \in S \ {q}, NEW r \in S \ {q}, f[p] = f[r] PROVE p = r
    <3>1. PICK i, k : /\ i \in 1 .. Len(w)
                      /\ p = <<i, k>> /\ i # at /\ f[p] = <<before[i], k>>
      BY <2>4
    <3>2. PICK j, l : /\ j \in 1 .. Len(w)
                      /\ r = <<j, l>> /\ j # at /\ f[r] = <<before[j], l>>
      BY <2>4
    <3>3. before[i] = before[j] /\ k = l
      BY <2>6, <3>1, <3>2
    <3> QED BY <1>8, <3>1, <3>2, <3>3
  <2>7. IsFiniteSet(T)
    BY <2>2, ResultsFinite
  <2>8. /\ Cardinality(S) <= Cardinality(T) + 1
        /\ q \notin S => Cardinality(S) <= Cardinality(T)
    BY <2>5, <2>6, <2>7, OneMore
  <2>9. x # id => q \notin S
    <3> SUFFICES ASSUME q \in S PROVE x = id
      OBVIOUS
    <3>1. PICK i \in 1 .. Len(w) : \E k \in 1 .. Len(w[i].results) : q = <<i, k>> /\ w[i].results[k] = x
      BY <2>1, PlaceOf
    <3>2. PICK k \in 1 .. Len(w[i].results) : q = <<i, k>> /\ w[i].results[k] = x
      BY <3>1
    <3>3. i = at /\ k = 1
      BY <1>9, <3>2
    <3> QED BY <1>3, <1>6, <3>2, <3>3
  <2> QED BY <2>1, <2>2, <2>8, <2>9
<1> QED BY <1>10 DEF AddsOne

(* In a block of a message there is.                                       *)
LEMMA JoinedAddsOne ==
  ASSUME NEW U, NEW wire \in Formats, NEW v \in Seq(Letters(wire, U)), NEW id \in U,
         NEW at \in 1 .. Len(v), NEW w, w = WithResult(v, at, id)
  PROVE  AddsOne(w, v, id)
<1>1. PICK n \in Nat : n = Len(v)
  OBVIOUS
<1>2. w = [i \in 1 .. n |-> IF i = at THEN [v[i] EXCEPT !.results = Append(@, id)] ELSE v[i]]
  BY <1>1 DEF WithResult
<1>3. Len(w) = n /\ \A i \in 1 .. n : i # at => w[i] = v[i]
  BY <1>2
<1>4. v[at] \in Letters(wire, U) /\ at \in 1 .. n
  BY <1>1
<1>5. PICK rs \in Seq(U) : rs = v[at].results
  BY <1>4 DEF Letters
<1>6. PICK ws : ws = w[at].results
  OBVIOUS
<1>7. ws = Append(rs, id)
  <2>1. w[at] = [v[at] EXCEPT !.results = Append(@, id)]
    BY <1>2, <1>4
  <2>2. v[at] \in [shape : {"text", wire}, role : {"user", "assistant", "tool", "none"},
                   calls : Seq(U), results : Seq(U), text : BOOLEAN, args : {"ok", "bad", "empty"}]
    BY <1>4 DEF Letters
  <2> QED BY <1>5, <1>6, <2>1, <2>2
<1>8. PICK l \in Nat : l = Len(rs)
  OBVIOUS
<1>9. Len(ws) = l + 1 /\ ws[l + 1] = id /\ \A k \in 1 .. l : ws[k] = rs[k]
  BY <1>7, <1>8
<1>10. PICK q : q = <<at, l + 1>>
  OBVIOUS
<1>11. ASSUME NEW x PROVE /\ Cardinality(ResultsAt(w, x)) <= Cardinality(ResultsAt(v, x)) + 1
                          /\ x # id => Cardinality(ResultsAt(w, x)) <= Cardinality(ResultsAt(v, x))
  <2>1. PICK S : S = ResultsAt(w, x)
    OBVIOUS
  <2>2. PICK T : T = ResultsAt(v, x)
    OBVIOUS
  <2>3. PICK f : f = [p \in S |-> p]
    OBVIOUS
  <2>4. ASSUME NEW p \in S \ {q} PROVE f[p] \in T
    <3>1. PICK i \in 1 .. n : \E k \in 1 .. Len(w[i].results) : p = <<i, k>> /\ w[i].results[k] = x
      BY <1>3, <2>1, PlaceOf
    <3>2. PICK k \in 1 .. Len(w[i].results) : p = <<i, k>> /\ w[i].results[k] = x
      BY <3>1
    <3>3. k \in 1 .. Len(v[i].results) /\ v[i].results[k] = x
      <4>1. CASE i = at
        <5>1. k \in 1 .. l + 1 /\ ws[k] = x
          BY <1>6, <1>9, <3>2, <4>1
        <5>2. k # l + 1
          BY <1>10, <3>2, <4>1
        <5>3. k \in 1 .. l
          BY <5>1, <5>2
        <5> QED BY <1>5, <1>8, <1>9, <4>1, <5>1, <5>3
      <4>2. CASE i # at
        BY <1>3, <3>2, <4>2
      <4> QED BY <4>1, <4>2
    <3>4. i \in 1 .. Len(v)
      BY <1>1
    <3>5. p \in T
      BY <2>2, <3>2, <3>3, <3>4, PlaceOf
    <3> QED BY <2>3, <3>5
  <2>5. \A p, r \in S \ {q} : f[p] = f[r] => p = r
    BY <2>3
  <2>6. IsFiniteSet(T)
    BY <2>2, ResultsFinite
  <2>7. /\ Cardinality(S) <= Cardinality(T) + 1
        /\ q \notin S => Cardinality(S) <= Cardinality(T)
    BY <2>4, <2>5, <2>6, OneMore
  <2>8. x # id => q \notin S
    <3> SUFFICES ASSUME q \in S PROVE x = id
      OBVIOUS
    <3>1. PICK i \in 1 .. Len(w) : \E k \in 1 .. Len(w[i].results) : q = <<i, k>> /\ w[i].results[k] = x
      BY <2>1, PlaceOf
    <3>2. PICK k \in 1 .. Len(w[i].results) : q = <<i, k>> /\ w[i].results[k] = x
      BY <3>1
    <3>3. i = at /\ k = l + 1
      BY <1>10, <3>2
    <3> QED BY <1>6, <1>9, <3>2, <3>3
  <2> QED BY <2>1, <2>2, <2>7, <2>8
<1> QED BY <1>11 DEF AddsOne

(* So does answering it, in every format.                                  *)
LEMMA AnswerAddsOne ==
  ASSUME NEW U, NEW wire \in Formats, NEW v \in Seq(Letters(wire, U)), NEW id \in U
  PROVE  AddsOne(Answer(wire, v, id), v, id)
<1>1. PICK w : w = Answer(wire, v, id)
  OBVIOUS
<1>2. AnswerAdds(w, wire, v, id)
  <2>1. PICK R : R = Letters(wire, U)
    OBVIOUS
  <2>2. v \in Seq(R) /\ ResultOf(wire, id) \in R
    BY <2>1, ResultIsLetter
  <2> QED BY <1>1, <2>2, AnswerIs
<1>3. CASE \E at \in 1 .. Len(v) + 1 : w = Inserted(v, at, ResultOf(wire, id))
  BY <1>1, <1>3, InsertedAddsOne
<1>4. CASE \E at \in 1 .. Len(v) : wire = "anthropic" /\ HasBlocks(v[at]) /\ w = WithResult(v, at, id)
  BY <1>1, <1>4, JoinedAddsOne
<1> QED BY <1>2, <1>3, <1>4 DEF AnswerAdds

(* Calls without a result get one each, and the others none.               *)
LEMMA AnsweredOnce ==
  ASSUME NEW U, NEW wire \in Formats, NEW V, V = Seq(Letters(wire, U)), NEW messages \in V,
         NEW calls \in Seq(U), Unrepeated(calls), NEW results,
         \A k \in 1 .. Len(calls) :
           ~Contains(results, calls[k]) => Cardinality(ResultsAt(messages, calls[k])) = 0,
         NEW a, a = Answered(wire, messages, calls, results)
  PROVE  \A x : \/ Cardinality(ResultsAt(a, x)) <= Cardinality(ResultsAt(messages, x))
                \/ Cardinality(ResultsAt(a, x)) <= 1
<1>1. PICK n \in Nat : n = Len(calls) /\ calls \in [1 .. n -> U]
  OBVIOUS
<1>2. ASSUME NEW v \in V, NEW x \in U
      PROVE  AnswerOrphan(wire, results, v, x) \in V
  <2>1. CASE Contains(results, x)
    BY <2>1 DEF AnswerOrphan
  <2>2. CASE ~Contains(results, x)
    <3>1. AnswerOrphan(wire, results, v, x) = Answer(wire, v, x)
      BY <2>2 DEF AnswerOrphan
    <3>2. AnswerKeeps(Answer(wire, v, x), v, wire, U, x)
      BY AnswerKept
    <3> QED BY <3>1, <3>2 DEF AnswerKeeps
  <2> QED BY <2>1, <2>2
<1>3. PICK p : AnswersEach(p, n, V, wire, messages, calls, results)
  <2>1. \A v \in V : \A x \in U : AnswerOrphan(wire, results, v, x) \in V
    BY <1>2, Zenon
  <2> QED BY <1>1, <2>1, FoldAnswer
<1>4. /\ p \in [0 .. n -> V] /\ p[0] = messages /\ p[n] = a
      /\ \A k \in 1 .. n : p[k] = AnswerOrphan(wire, results, p[k - 1], calls[k])
  BY <1>3 DEF AnswersEach
<1>5. \A v \in V : \A x : Cardinality(ResultsAt(v, x)) \in Nat
  BY ResultsFinite
<1> DEFINE Count(v, x) == Cardinality(ResultsAt(v, x))
           Open(k, x) == \E j \in k + 1 .. n : calls[j] = x
           Holds(k) == \A x : \/ Count(p[k], x) <= Count(messages, x)
                              \/ Count(p[k], x) <= 1 /\ ~Open(k, x)
           H == {k \in 0 .. n : Holds(k)}
<1>6. 0 \in H
  <2>1. \A x : Count(messages, x) \in Nat
    BY <1>5
  <2>2. \A x : Count(p[0], x) <= Count(messages, x)
    <3> HIDE DEF Count
    <3> QED BY <1>4, <2>1
  <2>3. 0 \in 0 .. n
    OBVIOUS
  <2> HIDE DEF Count
  <2> QED BY <2>2, <2>3
<1>7. ASSUME NEW k \in 1 .. n, k - 1 \in H PROVE k \in H
  <2>1. PICK v \in V : v = p[k - 1]
    BY <1>4
  <2>2. PICK y \in U : y = calls[k]
    BY <1>1
  <2>3. PICK w : w = p[k]
    OBVIOUS
  <2>4. w = AnswerOrphan(wire, results, v, y)
    BY <1>4, <2>1, <2>2, <2>3
  <2>5. Holds(k - 1)
    BY <1>7
  <2>6. ASSUME NEW x PROVE (~Open(k - 1, x) => ~Open(k, x)) /\ (~Open(k - 1, x) => x # y) /\ ~Open(k, y)
    <3>1. Open(k, x) => Open(k - 1, x)
      OBVIOUS
    <3>2. x = y => Open(k - 1, x)
      BY <2>2
    <3>3. ~Open(k, y)
      BY <1>1, <2>2 DEF Unrepeated
    <3> QED BY <3>1, <3>2, <3>3
  <2>7. w \in V
    BY <1>2, <2>4
  <2>8. \A x : Count(v, x) \in Nat /\ Count(w, x) \in Nat /\ Count(messages, x) \in Nat
    BY <1>5, <2>7
  <2>9. \A x : \/ Count(v, x) <= Count(messages, x)
               \/ Count(v, x) <= 1 /\ ~Open(k - 1, x)
    BY <2>1, <2>5
  <2>10. CASE Contains(results, y)
    <3>1. w = v
      BY <2>4, <2>10 DEF AnswerOrphan
    <3> HIDE DEF Open, Count
    <3>2. \A x : \/ Count(w, x) <= Count(messages, x)
                 \/ Count(w, x) <= 1 /\ ~Open(k, x)
      BY <2>6, <2>9, <3>1
    <3> QED BY <2>3, <3>2
  <2>11. CASE ~Contains(results, y)
    <3>1. AddsOne(w, v, y)
      <4>1. w = Answer(wire, v, y)
        BY <2>4, <2>11 DEF AnswerOrphan
      <4> QED BY <4>1, AnswerAddsOne
    <3>2. Count(messages, y) = 0
      BY <1>1, <2>2, <2>11
    <3>3. \A x : /\ Count(w, x) <= Count(v, x) + 1
                 /\ x # y => Count(w, x) <= Count(v, x)
      BY <3>1 DEF AddsOne
    <3> HIDE DEF Open, Count
    <3>4. ASSUME NEW x PROVE \/ Count(w, x) <= Count(messages, x)
                             \/ Count(w, x) <= 1 /\ ~Open(k, x)
      <4>1. Count(v, x) \in Nat /\ Count(w, x) \in Nat /\ Count(messages, x) \in Nat
        BY <2>8
      <4>2. CASE x = y
        <5>1. Count(v, x) <= 0
          BY <2>6, <2>9, <3>2, <4>2
        <5>2. Count(w, x) <= 1
          BY <3>3, <4>1, <5>1
        <5> QED BY <2>6, <4>2, <5>2
      <4>3. CASE x # y
        <5>1. Count(w, x) <= Count(v, x)
          BY <3>3, <4>3
        <5>2. CASE Count(v, x) <= Count(messages, x)
          BY <4>1, <5>1, <5>2
        <5>3. CASE Count(v, x) <= 1 /\ ~Open(k - 1, x)
          BY <2>6, <4>1, <5>1, <5>3
        <5> QED BY <2>9, <5>2, <5>3
      <4> QED BY <4>2, <4>3
    <3> QED BY <2>3, <3>4
  <2> QED BY <2>10, <2>11
<1>8. Holds(n)
  <2> HIDE DEF Holds
  <2>1. n \in H
    <3> HIDE DEF H
    <3>1. 0 .. n \subseteq H
      BY <1>6, <1>7, Upwards
    <3> QED BY <3>1
  <2> QED BY <2>1
<1> HIDE DEF Count
<1>9. \A x : Count(a, x) <= Count(messages, x) \/ Count(a, x) <= 1
  BY <1>4, <1>8
<1> QED BY <1>9 DEF Count

(* Dropping adds none.                                                     *)
LEMMA DroppedFewer ==
  ASSUME NEW U, NEW wire \in Formats, NEW v \in Seq(Letters(wire, U)), NEW format, NEW calls,
         NEW o, o = Drop(format, v, calls), NEW x
  PROVE  Cardinality(ResultsAt(o, x)) <= Cardinality(ResultsAt(v, x))
<1>1. PICK n \in Nat : n = Len(v)
  OBVIOUS
<1>2. PICK k : k = [i \in 1 .. n |-> Kept(format, v[i], calls)]
  OBVIOUS
<1>3. PICK R : R = Letters(wire, U)
  OBVIOUS
<1>4. /\ k \in Seq(R) /\ o \in Seq(R)
      /\ \E g : IsTrace(g, o, k, n, {m \in ToSet(k) : Emptied(format, m)})
  <2>1. IsDrop(o, k, n, R, format)
    BY <1>1, <1>2, <1>3, DropIs
  <2> QED BY <2>1 DEF IsDrop
<1>5. PICK g : IsTrace(g, o, k, n, {m \in ToSet(k) : Emptied(format, m)})
  BY <1>4
<1>6. /\ g \in [1 .. Len(o) -> 1 .. n]
      /\ \A i \in 1 .. Len(o) : o[i] = k[g[i]]
      /\ \A i, j \in 1 .. Len(o) : g[i] = g[j] => i = j
  BY <1>5 DEF IsTrace
<1>7. ASSUME NEW i \in 1 .. n PROVE \E h : Selects(h, k[i].results, v[i].results)
  <2>1. PICK m \in Letters(wire, U) : m = v[i]
    BY <1>1
  <2>2. PICK w : w = Kept(format, m, calls)
    OBVIOUS
  <2>3. \E h : Selects(h, w.results, m.results)
    BY <2>2, KeptIs
  <2>4. w = k[i]
    BY <1>2, <2>1, <2>2
  <2> QED BY <2>1, <2>3, <2>4
<1>8. PICK hs : hs = [i \in 1 .. n |-> CHOOSE h : Selects(h, k[i].results, v[i].results)]
  OBVIOUS
<1>9. ASSUME NEW i \in 1 .. n
      PROVE  /\ hs[i] \in [1 .. Len(k[i].results) -> 1 .. Len(v[i].results)]
             /\ \A j \in 1 .. Len(k[i].results) : k[i].results[j] = v[i].results[hs[i][j]]
             /\ \A j, l \in 1 .. Len(k[i].results) : hs[i][j] = hs[i][l] => j = l
  <2>1. Selects(hs[i], k[i].results, v[i].results)
    BY <1>7, <1>8
  <2> QED BY <2>1 DEF Selects
<1>10. PICK S : S = ResultsAt(o, x)
  OBVIOUS
<1>11. PICK T : T = ResultsAt(v, x)
  OBVIOUS
<1>12. PICK f : f = [p \in S |-> <<g[p[1]], hs[g[p[1]]][p[2]]>>]
  OBVIOUS
<1>13. ASSUME NEW p \in S
       PROVE  \E i \in 1 .. Len(o) : \E j : /\ p = <<i, j>> /\ f[p] = <<g[i], hs[g[i]][j]>>
                                            /\ j \in 1 .. Len(k[g[i]].results)
                                            /\ k[g[i]].results[j] = x
  <2>1. PICK i \in 1 .. Len(o) : \E j \in 1 .. Len(o[i].results) : p = <<i, j>> /\ o[i].results[j] = x
    BY <1>10, PlaceOf
  <2>2. PICK j \in 1 .. Len(o[i].results) : p = <<i, j>> /\ o[i].results[j] = x
    BY <2>1
  <2>3. o[i] = k[g[i]]
    BY <1>6
  <2>4. f[p] = <<g[i], hs[g[i]][j]>>
    BY <1>12, <2>2
  <2> QED BY <2>2, <2>3, <2>4
<1>14. ASSUME NEW p \in S PROVE f[p] \in T
  <2>1. PICK i, j : /\ i \in 1 .. Len(o)
                    /\ p = <<i, j>> /\ f[p] = <<g[i], hs[g[i]][j]>>
                    /\ j \in 1 .. Len(k[g[i]].results) /\ k[g[i]].results[j] = x
    BY <1>13
  <2>2. PICK b \in 1 .. n : b = g[i]
    BY <1>6, <2>1
  <2>3. PICK c : c = hs[b][j]
    OBVIOUS
  <2>4. c \in 1 .. Len(v[b].results) /\ v[b].results[c] = x
    BY <1>9, <2>1, <2>2, <2>3, ZenonT(60)
  <2>5. f[p] = <<b, c>> /\ b \in 1 .. Len(v)
    BY <1>1, <2>1, <2>2, <2>3
  <2> QED BY <1>11, <2>4, <2>5, PlaceOf
<1>15. ASSUME NEW p \in S, NEW q \in S, f[p] = f[q] PROVE p = q
  <2>1. PICK i, j : /\ i \in 1 .. Len(o)
                    /\ p = <<i, j>> /\ f[p] = <<g[i], hs[g[i]][j]>>
                    /\ j \in 1 .. Len(k[g[i]].results)
    BY <1>13
  <2>2. PICK a, l : /\ a \in 1 .. Len(o)
                    /\ q = <<a, l>> /\ f[q] = <<g[a], hs[g[a]][l]>>
                    /\ l \in 1 .. Len(k[g[a]].results)
    BY <1>13
  <2>3. g[i] = g[a] /\ hs[g[i]][j] = hs[g[a]][l]
    BY <1>15, <2>1, <2>2
  <2>4. i = a
    BY <1>6, <2>1, <2>2, <2>3
  <2>5. PICK b \in 1 .. n : b = g[i]
    BY <1>6, <2>1
  <2>6. j = l
    BY <1>9, <2>1, <2>2, <2>3, <2>4, <2>5, SMTT(40)
  <2> QED BY <2>1, <2>2, <2>4, <2>6
<1>16. IsFiniteSet(T)
  BY <1>11, ResultsFinite
<1>17. Cardinality(S) <= Cardinality(T)
  BY <1>14, <1>15, <1>16, Fewer
<1> QED BY <1>10, <1>11, <1>17

(* Repair gives no call a second result.                                   *)
LEMMA RepairedOnce ==
  ASSUME NEW U, NEW wire \in Formats, NEW messages,
         NEW clean \in Seq(Letters(wire, U)), clean = Each(messages, Sanitize),
         NEW o, o = MessageHistoryRepair(messages).messages
  PROVE  \A x : \/ Cardinality(ResultsAt(o, x)) <= Cardinality(ResultsAt(clean, x))
                \/ Cardinality(ResultsAt(o, x)) <= 1
<1>1. PICK format : format = DetectFormat(clean)
  OBVIOUS
<1>2. IsHistory(clean, U)
  BY LettersAreHistory
<1>3. PICK calls : calls = CallIds(clean)
  OBVIOUS
<1>4. PICK results : results = ResultIds(clean)
  OBVIOUS
<1>5. /\ calls \in Seq(U) /\ results \in Seq(U) /\ Unrepeated(calls)
      /\ \A x : Contains(calls, x) <=> Calls(clean, x)
      /\ \A x : Contains(results, x) <=> Results(clean, x)
  BY <1>2, <1>3, <1>4, IdsAre
<1>6. PICK a : a = Answered(format, clean, calls, results)
  OBVIOUS
<1>7. o = IF calls = <<>> /\ results = <<>> THEN clean ELSE Drop(format, a, calls)
  BY <1>1, <1>3, <1>4, <1>6 DEF MessageHistoryRepair
<1>8. \A x : Cardinality(ResultsAt(clean, x)) \in Nat
  BY ResultsFinite
<1>9. CASE calls = <<>> /\ results = <<>>
  <2>1. o = clean
    BY <1>7, <1>9
  <2> QED BY <1>8, <2>1
<1>10. CASE ~(calls = <<>> /\ results = <<>>) /\ format # wire
  <2>1. \A x : ~Calls(clean, x)
    BY <1>1, <1>10, Detected
  <2>2. calls = <<>>
    BY <1>5, <2>1, NothingContained
  <2>3. a = clean
    <3>1. \A k \in 1 .. Len(calls) : Contains(results, calls[k])
      BY <2>2
    <3> QED BY <1>5, <1>6, <3>1, NothingToAnswer
  <2>4. o = Drop(format, clean, calls)
    BY <1>7, <1>10, <2>3
  <2> QED BY <2>4, DroppedFewer
<1>11. CASE ~(calls = <<>> /\ results = <<>>) /\ format = wire
  <2>1. PICK V : V = Seq(Letters(wire, U))
    OBVIOUS
  <2>2. a = Answered(wire, clean, calls, results) /\ clean \in V
    BY <1>6, <1>11, <2>1
  <2>3. a \in V
    BY <1>5, <2>1, <2>2, AnsweredKept
  <2>4. ASSUME NEW k \in 1 .. Len(calls), ~Contains(results, calls[k])
        PROVE  Cardinality(ResultsAt(clean, calls[k])) = 0
    <3>1. PICK x : x = calls[k]
      OBVIOUS
    <3>2. ~Results(clean, x)
      BY <1>5, <2>4, <3>1
    <3>3. ResultsAt(clean, x) = {}
      <4> SUFFICES ASSUME NEW p \in ResultsAt(clean, x) PROVE FALSE
        OBVIOUS
      <4>1. PICK i \in 1 .. Len(clean) : \E l \in 1 .. Len(clean[i].results) :
                                            p = <<i, l>> /\ clean[i].results[l] = x
        BY PlaceOf
      <4>2. Contains(clean[i].results, x)
        BY <4>1 DEF Contains
      <4> QED BY <3>2, <4>2 DEF Results
    <3> QED BY <3>1, <3>3, FS_EmptySet
  <2>5. \A x : \/ Cardinality(ResultsAt(a, x)) <= Cardinality(ResultsAt(clean, x))
               \/ Cardinality(ResultsAt(a, x)) <= 1
    BY <1>5, <2>1, <2>2, <2>4, AnsweredOnce
  <2>6. o = Drop(wire, a, calls)
    BY <1>7, <1>11
  <2>7. \A x : Cardinality(ResultsAt(o, x)) <= Cardinality(ResultsAt(a, x))
    BY <2>1, <2>3, <2>6, DroppedFewer
  <2>8. \A x : Cardinality(ResultsAt(a, x)) \in Nat /\ Cardinality(ResultsAt(o, x)) \in Nat
    <3>1. \A x : Cardinality(ResultsAt(a, x)) \in Nat
      BY <2>1, <2>3, ResultsFinite
    <3>2. o \in Seq(Letters(wire, U))
      BY RepairedIs
    <3>3. \A x : Cardinality(ResultsAt(o, x)) \in Nat
      BY <3>2, ResultsFinite
    <3> QED BY <3>1, <3>3
  <2>9. ASSUME NEW x
        PROVE  \/ Cardinality(ResultsAt(o, x)) <= Cardinality(ResultsAt(clean, x))
               \/ Cardinality(ResultsAt(o, x)) <= 1
    <3>1. PICK oc \in Nat : oc = Cardinality(ResultsAt(o, x))
      BY <2>8
    <3>2. PICK ac \in Nat : ac = Cardinality(ResultsAt(a, x))
      BY <2>8
    <3>3. PICK cc \in Nat : cc = Cardinality(ResultsAt(clean, x))
      BY <1>8
    <3>4. oc <= ac /\ (ac <= cc \/ ac <= 1)
      BY <2>5, <2>7, <3>1, <3>2, <3>3
    <3>5. oc <= cc \/ oc <= 1
      BY <3>4
    <3> QED BY <3>1, <3>3, <3>5
  <2> QED BY <2>9
<1> QED BY <1>9, <1>10, <1>11
=============================================================================
