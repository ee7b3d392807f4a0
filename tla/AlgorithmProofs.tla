-------------------------- MODULE AlgorithmProofs ---------------------------
(***************************************************************************)
(* Proofs about the pure algorithms (Algorithms) and the recall page table *)
(* (RecallTable), for any inputs, coordinates and limits.                  *)
(*                                                                         *)
(* Where the code loops, the argument goes through the prefixes of a fold  *)
(* (RepairProofs), and sorting by a total order gives each element a place *)
(* of its own (Ranks).                                                     *)
(*                                                                         *)
(* The planners: the refusals are read as one list, of which none applies  *)
(* to an accepted plan (NoRefusal); so its evidence covers both requests,  *)
(* its rates are valid and none of its sums overflowed, and the checked    *)
(* arithmetic of the verdict is exact.                                     *)
(*                                                                         *)
(* The page table: RowInv says that an entry which has a clock has the     *)
(* right one, and that a hint on record is remembered or was crowded       *)
(* out by more later ones than the row has room for.                       *)
(*                                                                         *)
(* The closet: what is kept is a prefix of the ranked coordinates, and     *)
(* ranking by a total order leaves one order whatever the order they were  *)
(* nominated in.  The eager seam is arithmetic over its caps.              *)
(*                                                                         *)
(* The recognizer: each of its walks (assignments, wrappers, options) ends *)
(* at a position of which only the tokens behind it are known, so the      *)
(* token it stops at has been refused by none of its checks.               *)
(*                                                                         *)
(* The rail: what each operation may do to the steps, what the last save   *)
(* holds, and that a step is done, in the rail or in the saved document,   *)
(* only after an acknowledgement.                                          *)
(*                                                                         *)
(* History repair: a built history is of one wire format, also once        *)
(* sanitized (HistoriesAreLetters), so what RepairProofs says of such      *)
(* histories holds of it (RepairedFrom).                                   *)
(***************************************************************************)
EXTENDS Algorithms, RecallTable, RepairProofs

-----------------------------------------------------------------------------
(* A strict total order of positions: below[i] holds what comes before i.  *)
IsOrder(below, n) ==
    /\ below \in [1 .. n -> SUBSET (1 .. n)]
    /\ \A i \in 1 .. n : i \notin below[i]
    /\ \A i, j \in 1 .. n : i = j \/ i \in below[j] \/ j \in below[i]
    /\ \A i, j \in 1 .. n : i \in below[j] => below[i] \subseteq below[j]

(* The places that an order gives to positions.                            *)
ArePlaces(place, below, n) ==
    /\ place \in [1 .. n -> 1 .. n]
    /\ \A i \in 1 .. n : place[i] = 1 + Cardinality(below[i])
    /\ \A i, j \in 1 .. n : i \in below[j] => place[i] < place[j]
    /\ \A k \in 1 .. n : \E i \in 1 .. n : place[i] = k
    /\ \A i, j \in 1 .. n : place[i] = place[j] => i = j

(* The places of a finite strict order are the numbers up to its size.     *)
LEMMA Ranks ==
  ASSUME NEW n \in Nat, NEW below, IsOrder(below, n)
  PROVE  \E place : ArePlaces(place, below, n)
<1>0. /\ below \in [1 .. n -> SUBSET (1 .. n)]
      /\ \A i \in 1 .. n : i \notin below[i]
      /\ \A i, j \in 1 .. n : i = j \/ i \in below[j] \/ j \in below[i]
      /\ \A i, j \in 1 .. n : i \in below[j] => below[i] \subseteq below[j]
  BY DEF IsOrder
<1> PICK place : place = [i \in 1 .. n |-> 1 + Cardinality(below[i])]
  OBVIOUS
<1> DEFINE D == 1 .. n
<1>1. IsFiniteSet(D) /\ Cardinality(D) = n
  BY FS_Interval
<1>2. ASSUME NEW i \in D
      PROVE  /\ IsFiniteSet(below[i]) /\ Cardinality(below[i]) \in Nat
             /\ Cardinality(below[i]) < n
  <2>1. below[i] \in SUBSET D /\ below[i] # D
    BY <1>0, <1>2
  <2> HIDE DEF D
  <2>2. IsFiniteSet(below[i]) /\ Cardinality(below[i]) <= Cardinality(D)
        /\ Cardinality(below[i]) # Cardinality(D)
    BY <1>1, <2>1, FS_Subset
  <2>3. Cardinality(below[i]) \in Nat
    BY <2>2, FS_CardinalityType
  <2> QED BY <1>1, <2>2, <2>3
<1>3. \A i \in D : place[i] = 1 + Cardinality(below[i])
  OBVIOUS
<1>4. place \in [D -> D]
  <2>1. ASSUME NEW i \in D PROVE 1 + Cardinality(below[i]) \in 1 .. n
    <3>1. PICK c \in Nat : c = Cardinality(below[i]) /\ c < n
      BY <1>2
    <3> QED BY <3>1
  <2> QED BY <2>1
<1>5. ASSUME NEW i \in D, NEW j \in D, i \in below[j]
      PROVE  place[i] < place[j]
  <2>1. below[i] \in SUBSET below[j] /\ below[i] # below[j]
    BY <1>0, <1>5
  <2>2. /\ IsFiniteSet(below[j]) /\ Cardinality(below[j]) \in Nat
        /\ Cardinality(below[i]) \in Nat
    BY <1>2
  <2>3. Cardinality(below[i]) <= Cardinality(below[j])
        /\ Cardinality(below[i]) # Cardinality(below[j])
    BY <2>1, <2>2, FS_Subset
  <2>4. place[i] = 1 + Cardinality(below[i]) /\ place[j] = 1 + Cardinality(below[j])
    BY <1>3
  <2> QED BY <2>2, <2>3, <2>4
<1>6. \A i, j \in D : place[i] = place[j] => i = j
  <2> SUFFICES ASSUME NEW i \in D, NEW j \in D, place[i] = place[j], i # j PROVE FALSE
    OBVIOUS
  <2>1. i \in below[j] \/ j \in below[i]
    BY <1>0
  <2>2. place[i] < place[j] \/ place[j] < place[i]
    BY <1>5, <2>1
  <2>3. place[i] \in D /\ place[j] \in D
    <3> HIDE DEF D
    <3> QED BY <1>4
  <2> QED BY <2>2, <2>3
<1>7. ASSUME NEW k \in D, \A i \in D : place[i] # k PROVE FALSE
  <2>1. place \in [D -> D \ {k}]
    BY <1>4, <1>7
  <2>2. place \in Injection(D, D \ {k})
    BY <1>6, <2>1 DEF Injection, IsInjective
  <2>3. IsFiniteSet(D \ {k}) /\ Cardinality(D \ {k}) = n - 1
    <3> HIDE DEF D
    <3> QED BY <1>1, <1>7, FS_RemoveElement
  <2>4. Cardinality(D) <= Cardinality(D \ {k})
    <3> HIDE DEF D
    <3> QED BY <2>2, <2>3, FS_Injection
  <2> QED BY <1>1, <2>3, <2>4
<1>8. \A k \in D : \E i \in D : place[i] = k
  BY <1>7
<1> QED BY <1>3, <1>4, <1>5, <1>6, <1>8, ZenonT(60) DEF ArePlaces

(* The positions in the order of their places.                             *)
Arranges(o, below, n) ==
    /\ o \in [1 .. n -> 1 .. n]
    /\ \A k \in 1 .. n : 1 + Cardinality(below[o[k]]) = k
    /\ \A i, j \in 1 .. n : o[i] = o[j] => i = j
    /\ \A i \in 1 .. n : \E k \in 1 .. n : o[k] = i
    /\ \A i, j \in 1 .. n : i < j => o[i] \in below[o[j]]

(* Choosing the position of each place puts the positions in order.        *)
LEMMA Arranged ==
  ASSUME NEW n \in Nat, NEW below, IsOrder(below, n), NEW o, o = [k \in 1 .. n |-> o[k]],
         \A k \in 1 .. n :
           (\E i \in 1 .. n : 1 + Cardinality(below[i]) = k) =>
             o[k] \in 1 .. n /\ 1 + Cardinality(below[o[k]]) = k
  PROVE  Arranges(o, below, n)
<1>1. PICK place : ArePlaces(place, below, n)
  BY Ranks
<1>2. /\ place \in [1 .. n -> 1 .. n]
      /\ \A i \in 1 .. n : place[i] = 1 + Cardinality(below[i])
      /\ \A i, j \in 1 .. n : i \in below[j] => place[i] < place[j]
      /\ \A k \in 1 .. n : \E i \in 1 .. n : place[i] = k
      /\ \A i, j \in 1 .. n : place[i] = place[j] => i = j
  BY <1>1 DEF ArePlaces
<1>4. \A i, j \in 1 .. n : i = j \/ i \in below[j] \/ j \in below[i]
  BY DEF IsOrder
<1>7. ASSUME NEW k \in 1 .. n
      PROVE  o[k] \in 1 .. n /\ 1 + Cardinality(below[o[k]]) = k
  <2>1. PICK i \in 1 .. n : place[i] = k
    BY <1>2
  <2>2. 1 + Cardinality(below[i]) = k
    BY <1>2, <2>1
  <2> QED BY <2>2
<1>5. \A k \in 1 .. n : o[k] \in 1 .. n /\ place[o[k]] = k
  BY <1>2, <1>7
<1>6. o \in [1 .. n -> 1 .. n]
  BY <1>5
<1>8. \A i \in 1 .. n : \E k \in 1 .. n : o[k] = i
  <2> SUFFICES ASSUME NEW i \in 1 .. n PROVE \E k \in 1 .. n : o[k] = i
    OBVIOUS
  <2> PICK k : k = place[i]
    OBVIOUS
  <2>1. k \in 1 .. n
    BY <1>2
  <2>2. o[k] \in 1 .. n /\ place[o[k]] = k
    BY <1>5, <2>1
  <2>3. o[k] = i
    BY <1>2, <2>2
  <2> QED BY <2>1, <2>3
<1>9. ASSUME NEW i \in 1 .. n, NEW j \in 1 .. n, i < j
      PROVE  o[i] \in below[o[j]]
  <2> PICK a, b : a = o[i] /\ b = o[j]
    OBVIOUS
  <2>0. a \in 1 .. n /\ b \in 1 .. n /\ place[a] = i /\ place[b] = j
    BY <1>5
  <2>1. b \notin below[a] /\ a # b
    <3>1. i < j /\ i \in Int /\ j \in Int
      BY <1>9
    <3>2. b \in below[a] => j < i
      <4>1. b \in below[a] => place[b] < place[a]
        BY <1>2, <2>0
      <4> QED BY <2>0, <4>1
    <3> QED BY <2>0, <3>1, <3>2
  <2> QED BY <1>4, <2>0, <2>1
<1>10. \A i, j \in 1 .. n : o[i] = o[j] => i = j
  BY <1>5
<1> QED BY <1>6, <1>7, <1>8, <1>9, <1>10 DEF Arranges

(* An order of positions renamed by a permutation.                         *)
Renames(p, other, below, n) ==
    /\ p \in [1 .. n -> 1 .. n]
    /\ \A i \in 1 .. n : \E k \in 1 .. n : p[k] = i
    /\ below \in [1 .. n -> SUBSET (1 .. n)] /\ other \in [1 .. n -> SUBSET (1 .. n)]
    /\ \A i, j \in 1 .. n : j \in other[i] <=> p[j] \in below[p[i]]

(* Renaming keeps the number of those before a position.                   *)
LEMMA SameSizes ==
  ASSUME NEW n \in Nat, NEW p, NEW other, NEW below, Renames(p, other, below, n)
  PROVE  \A i \in 1 .. n : Cardinality(other[i]) = Cardinality(below[p[i]])
<1> DEFINE D == 1 .. n
<1>0. /\ p \in [D -> D]
      /\ \A i \in D : \E k \in D : p[k] = i
      /\ below \in [D -> SUBSET D] /\ other \in [D -> SUBSET D]
      /\ \A i, j \in D : j \in other[i] <=> p[j] \in below[p[i]]
  BY DEF Renames
<1>1. IsFiniteSet(D)
  BY FS_Interval
<1>2. p \in Injection(D, D)
  <2>1. p \in Surjection(D, D)
    BY <1>0 DEF Surjection
  <2> HIDE DEF D
  <2> QED BY <1>1, <2>1, FS_Surjection
<1>3. \A i, j \in D : p[i] = p[j] => i = j
  BY <1>2 DEF Injection, IsInjective
<1>4. ASSUME NEW i \in D PROVE Cardinality(other[i]) = Cardinality(below[p[i]])
  <2> PICK S, T : S = other[i] /\ T = below[p[i]]
    OBVIOUS
  <2>0. S \in SUBSET D /\ T \in SUBSET D /\ \A j \in D : j \in S <=> p[j] \in T
    BY <1>0
  <2>1. IsFiniteSet(S)
    <3> HIDE DEF D
    <3> QED BY <1>1, <2>0, FS_Subset
  <2> DEFINE q == [j \in S |-> p[j]]
  <2>2. q \in [S -> T] /\ \A j \in S : q[j] = p[j]
    BY <2>0
  <2>3. \A t \in T : \E j \in S : q[j] = t
    BY <1>0, <2>0, <2>2
  <2>4. \A j, k \in S : q[j] = q[k] => j = k
    BY <1>3, <2>0, <2>2
  <2>5. q \in Bijection(S, T)
    <3> HIDE DEF q
    <3> QED BY <2>2, <2>3, <2>4 DEF Bijection, Injection, Surjection, IsInjective
  <2>6. ExistsBijection(S, T)
    BY <2>5 DEF ExistsBijection
  <2>7. Cardinality(T) = Cardinality(S)
    BY <2>1, <2>6, FS_Bijection
  <2> QED BY <2>7
<1> QED BY <1>4

(* Sorting does not depend on the order of what is sorted.                 *)
LEMMA SameArrangement ==
  ASSUME NEW n \in Nat, NEW p, NEW other, NEW below, Renames(p, other, below, n),
         IsOrder(below, n), NEW o, NEW u, Arranges(o, below, n), Arranges(u, other, n)
  PROVE  \A k \in 1 .. n : p[u[k]] = o[k]
<1>1. p \in [1 .. n -> 1 .. n]
  BY DEF Renames
<1>2. \A i \in 1 .. n : Cardinality(other[i]) = Cardinality(below[p[i]])
  BY SameSizes
<1>3. PICK place : ArePlaces(place, below, n)
  BY Ranks
<1>4. /\ \A i \in 1 .. n : place[i] = 1 + Cardinality(below[i])
      /\ \A i, j \in 1 .. n : place[i] = place[j] => i = j
  BY <1>3 DEF ArePlaces
<1>5. ASSUME NEW k \in 1 .. n PROVE p[u[k]] = o[k]
  <2> PICK a, b : a = o[k] /\ b = u[k]
    OBVIOUS
  <2>1. a \in 1 .. n /\ 1 + Cardinality(below[a]) = k
    BY DEF Arranges
  <2>2. b \in 1 .. n /\ 1 + Cardinality(other[b]) = k
    BY DEF Arranges
  <2>3. 1 + Cardinality(below[p[b]]) = k /\ p[b] \in 1 .. n
    BY <1>1, <1>2, <2>2
  <2>4. place[p[b]] = place[a]
    BY <1>4, <2>1, <2>3
  <2>5. p[b] = a
    BY <1>4, <2>1, <2>3, <2>4
  <2> QED BY <2>5
<1> QED BY <1>5

(* A recursion over positions.                                             *)
IsPath(f, n, base, step) ==
    f = [k \in 0 .. n |-> IF k = 0 THEN base ELSE step[k][f[k - 1]]]

(* One whose steps stay in a set has values there.                         *)
LEMMA PathExists ==
  ASSUME NEW n \in Nat, NEW V, NEW base \in V, NEW step \in [1 .. n -> [V -> V]]
  PROVE  \E f \in [0 .. n -> V] : IsPath(f, n, base, step)
<1> DEFINE H == {k \in 0 .. n : \E f \in [0 .. k -> V] : IsPath(f, k, base, step)}
<1>1. 0 \in H
  <2>1. PICK f : f = [k \in 0 .. 0 |-> base]
    OBVIOUS
  <2>2. f \in [0 .. 0 -> V] /\ f = [k \in 0 .. 0 |-> IF k = 0 THEN base ELSE step[k][f[k - 1]]]
    BY <2>1
  <2> QED BY <2>2 DEF IsPath
<1>2. ASSUME NEW k \in 1 .. n, k - 1 \in H PROVE k \in H
  <2>1. PICK m \in 0 .. n : m = k - 1 /\ k = m + 1
    OBVIOUS
  <2>2. PICK g \in [0 .. m -> V] : IsPath(g, m, base, step)
    BY <1>2, <2>1
  <2>3. PICK f : f = [j \in 0 .. k |-> IF j = k THEN step[k][g[m]] ELSE g[j]]
    OBVIOUS
  <2>4. \A j \in 0 .. k : j = k \/ j \in 0 .. m
    BY <2>1
  <2>5. g[m] \in V /\ step[k][g[m]] \in V
    BY <2>1
  <2>6. f \in [0 .. k -> V]
    BY <2>3, <2>4, <2>5
  <2>7. ASSUME NEW j \in 0 .. k
        PROVE  f[j] = IF j = 0 THEN base ELSE step[j][f[j - 1]]
    <3>1. CASE j = k
      <4>1. f[j] = step[k][g[m]] /\ f[m] = g[m] /\ j # 0 /\ j - 1 = m
        BY <2>1, <2>3, <3>1
      <4> QED BY <3>1, <4>1
    <3>2. CASE j # k
      <4>1. j \in 0 .. m
        BY <2>4, <3>2
      <4>2. f[j] = g[j] /\ (j # 0 => f[j - 1] = g[j - 1])
        BY <2>1, <2>3, <4>1
      <4>3. g[j] = IF j = 0 THEN base ELSE step[j][g[j - 1]]
        BY <2>2, <4>1 DEF IsPath
      <4> QED BY <4>2, <4>3
    <3> QED BY <3>1, <3>2
  <2>8. f = [j \in 0 .. k |-> IF j = 0 THEN base ELSE step[j][f[j - 1]]]
    BY <2>6, <2>7
  <2>9. \E h \in [0 .. k -> V] : IsPath(h, k, base, step)
    BY <2>6, <2>8 DEF IsPath
  <2> QED BY <2>9
<1>3. 0 .. n \subseteq H
  <2> HIDE DEF H
  <2> QED BY <1>1, <1>2, Upwards
<1>4. n \in H
  BY <1>3
<1> QED BY <1>4

(* The smaller of two numbers.                                             *)
LEMMA MinOfTwo ==
  ASSUME NEW a \in Int, NEW b \in Int
  PROVE  Min({a, b}) \in {a, b} /\ Min({a, b}) <= a /\ Min({a, b}) <= b
<1>1. IsFiniteSet({a, b})
  <2>1. {a, b} = {a} \cup {b}
    OBVIOUS
  <2>2. IsFiniteSet({a})
    BY FS_Singleton
  <2>3. IsFiniteSet({a} \cup {b})
    BY <2>2, FS_AddElement
  <2> QED BY <2>1, <2>3
<1>2. {a, b} \subseteq Int /\ {a, b} # {}
  OBVIOUS
<1> PICK S : S = {a, b}
  OBVIOUS
<1>3. Min(S) \in S /\ \A y \in S : Min(S) <= y
  BY <1>1, <1>2, MinIs
<1> QED BY <1>3

(* The larger of two numbers.                                              *)
LEMMA MaxOfTwo ==
  ASSUME NEW a \in Int, NEW b \in Int
  PROVE  Max({a, b}) = IF a >= b THEN a ELSE b
<1>1. IsFiniteSet({a, b})
  <2>1. {a, b} = {a} \cup {b}
    OBVIOUS
  <2>2. IsFiniteSet({a})
    BY FS_Singleton
  <2>3. IsFiniteSet({a} \cup {b})
    BY <2>2, FS_AddElement
  <2> QED BY <2>1, <2>3
<1>2. {a, b} \subseteq Int /\ {a, b} # {}
  OBVIOUS
<1> PICK S : S = {a, b}
  OBVIOUS
<1>3. Max(S) \in S /\ \A y \in S : Max(S) >= y
  BY <1>1, <1>2, MaxIs
<1>4. PICK m : m = Max(S)
  OBVIOUS
<1>5. (m = a \/ m = b) /\ m >= a /\ m >= b
  BY <1>3, <1>4
<1>6. m = IF a >= b THEN a ELSE b
  BY <1>5
<1> QED BY <1>4, <1>6

-----------------------------------------------------------------------------
(* A refusal is given exactly when one applies.                            *)
LEMMA FirstReasonIs ==
  ASSUME NEW refusals, Len(refusals) \in Nat, NEW otherwise
  PROVE  \/ /\ FirstReason(refusals, otherwise) = otherwise
            /\ \A i \in 1 .. Len(refusals) : ~refusals[i][1]
         \/ \E i \in 1 .. Len(refusals) :
              refusals[i][1] /\ FirstReason(refusals, otherwise) = refusals[i][2]
<1> DEFINE hits == {i \in 1 .. Len(refusals) : refusals[i][1]}
<1>1. CASE hits = {}
  BY <1>1 DEF FirstReason
<1>2. CASE hits # {}
  <2>1. IsFiniteSet(1 .. Len(refusals)) /\ hits \in SUBSET (1 .. Len(refusals))
    BY FS_Interval
  <2>2. IsFiniteSet(hits) /\ hits \subseteq Int
    BY <2>1, FS_Subset
  <2>3. Min(hits) \in hits
    <3> HIDE DEF hits
    <3> QED BY <1>2, <2>2, MinIs
  <2> QED BY <1>2, <2>3 DEF FirstReason
<1> QED BY <1>1, <1>2

(* What beats a baseline is below it, margin included (proof.go).          *)
LEMMA BeatsIs ==
  ASSUME NEW upper \in Int, NEW margin \in Int, NEW lower \in Int,
         Beats(upper, margin, lower) = "proof_accepted"
  PROVE  upper + margin < lower
<1>1. PICK m : m = MoneyAdd(upper, margin)
  OBVIOUS
<1>2. PICK r : r = << <<~m.ok, "money_overflow">>, <<m.value >= lower, "not_strictly_cheaper">> >>
  OBVIOUS
<1>3. FirstReason(r, "proof_accepted") = "proof_accepted"
  BY <1>1, <1>2 DEF Beats
<1>4. Len(r) = 2
  BY <1>2
<1>5. \A i \in 1 .. 2 : r[i][2] # "proof_accepted"
  BY <1>2
<1>6. \A i \in 1 .. 2 : ~r[i][1]
  BY <1>3, <1>4, <1>5, FirstReasonIs
<1>7. m.ok /\ ~(m.value >= lower)
  <2>1. ~r[1][1] /\ ~r[2][1]
    BY <1>6
  <2> QED BY <1>2, <2>1
<1>8. m.value = upper + margin
  BY <1>1, <1>7 DEF MoneyAdd, NoMoney, Amount
<1> QED BY <1>7, <1>8

(* moneyAdd is exact when it accepts.                                      *)
LEMMA MoneyAddIs ==
  ASSUME NEW a \in Int, NEW b \in Int
  PROVE  /\ MoneyAdd(a, b).value \in Int
         /\ MoneyAdd(a, b).ok \in BOOLEAN
         /\ MoneyAdd(a, b).ok => MoneyAdd(a, b).value = a + b
BY DEF MoneyAdd, NoMoney, Amount

(* mulMoney is exact when it accepts.                                      *)
LEMMA MulMoneyIs ==
  ASSUME NEW n \in Nat, NEW rate \in Int
  PROVE  /\ MulMoney(n, rate).value \in Int
         /\ MulMoney(n, rate).ok => MulMoney(n, rate).value = n * rate
<1>1. PICK m \in Int : m = n * rate
  OBVIOUS
<1>2. \/ MulMoney(n, rate) = [ok |-> FALSE, value |-> 0]
      \/ MulMoney(n, rate) = [ok |-> TRUE, value |-> m]
  BY <1>1 DEF MulMoney, NoMoney, Amount
<1> HIDE <1>1
<1>3. MulMoney(n, rate).value \in Int
  BY <1>2
<1>4. MulMoney(n, rate).ok => MulMoney(n, rate).value = m
  BY <1>2
<1> QED BY <1>1, <1>3, <1>4

-----------------------------------------------------------------------------
(* A proof record of amounts.                                              *)
Amounts(p) ==
    /\ p.margin \in Int
    /\ \A i \in 1 .. Len(p.scenarios) :
         p.scenarios[i].candidateUpper \in Int /\ p.scenarios[i].baselineLower \in Int

(* A valid proof covers its key.                                           *)
LEMMA ValidatedIs ==
  ASSUME NEW p, ValidateProof(p) = "proof_accepted"
  PROVE  Len(p.scenarios) \in Nat /\ KeyValid(p.key) /\ Covers(p)
<1>1. PICK r : r = <<
        <<~p.identified \/ ~KeyValid(p.key),           "invalid_identity">>,
        <<Len(p.scenarios) \notin 1 .. MaxScenarios,   "invalid_scenario_count">>,
        <<~Covers(p),                                  "invalid_scenario_coverage">>,
        <<p.margin < 0,                                "invalid_money_bound">> >>
  OBVIOUS
<1>2. FirstReason(r, "proof_accepted") = "proof_accepted"
  BY <1>1 DEF ValidateProof
<1>3. Len(r) = 4 /\ \A i \in 1 .. 4 : r[i][2] # "proof_accepted"
  BY <1>1
<1>4. \A i \in 1 .. 4 : ~r[i][1]
  BY <1>2, <1>3, FirstReasonIs
<1>5. ~r[1][1] /\ ~r[2][1] /\ ~r[3][1]
  BY <1>4
<1>6. KeyValid(p.key) /\ Covers(p) /\ Len(p.scenarios) \in 1 .. MaxScenarios
  BY <1>1, <1>5
<1> QED BY <1>6, PlannerAssumption

(* A proof that covers its key has one scenario for each of its names.     *)
LEMMA CoversIs ==
  ASSUME NEW p, Len(p.scenarios) \in Nat, Covers(p), NEW id \in p.key.coverage
  PROVE  \E i \in 1 .. Len(p.scenarios) :
           /\ p.scenarios[i].id = id
           /\ \A j \in (1 .. Len(p.scenarios)) \ {i} : p.scenarios[j].id # id
<1> DEFINE n == Len(p.scenarios)
           f == [i \in 1 .. n |-> p.scenarios[i].id]
<1>1. ScenarioIds(p) = {f[i] : i \in 1 .. n}
  BY DEF ScenarioIds
<1>2. f \in Surjection(1 .. n, ScenarioIds(p))
  BY <1>1 DEF Surjection
<1>3. IsFiniteSet(1 .. n) /\ Cardinality(1 .. n) = n
  BY IntervalCount
<1>4. Cardinality(ScenarioIds(p)) = n /\ id \in ScenarioIds(p)
  BY DEF Covers
<1>5. f \in Injection(1 .. n, ScenarioIds(p))
  <2> HIDE DEF f, n
  <2> QED BY <1>2, <1>3, <1>4, FS_SurjSameCardinalityImpliesInj
<1>6. \A i, j \in 1 .. n : f[i] = f[j] => i = j
  BY <1>5 DEF Injection, IsInjective
<1>7. PICK i \in 1 .. n : f[i] = id
  BY <1>1, <1>4
<1> QED BY <1>6, <1>7

(* The comparison of extremes compares every pair of scenarios.            *)
LEMMA GlobalIs ==
  ASSUME NEW p, Amounts(p), Len(p.scenarios) \in Nat, GlobalReason(p) = "proof_accepted"
  PROVE  \A i, j \in 1 .. Len(p.scenarios) :
           p.scenarios[i].candidateUpper + p.margin < p.scenarios[j].baselineLower
<1> DEFINE range == 1 .. Len(p.scenarios)
           ups == {p.scenarios[i].candidateUpper : i \in range}
           lows == {p.scenarios[i].baselineLower : i \in range}
           U == {0} \cup ups
           L == {MaxMoney} \cup lows
<1>1. IsFiniteSet(range)
  BY FS_Interval
<1>2. IsFiniteSet(ups) /\ IsFiniteSet(lows)
  <2> DEFINE up == [i \in range |-> p.scenarios[i].candidateUpper]
             low == [i \in range |-> p.scenarios[i].baselineLower]
  <2>1. up \in Surjection(range, ups) /\ low \in Surjection(range, lows)
    BY DEF Surjection
  <2> HIDE DEF up, low, ups, lows, range
  <2> QED BY <1>1, <2>1, FS_Surjection
<1>3. IsFiniteSet(U) /\ IsFiniteSet(L)
  <2> HIDE DEF ups, lows
  <2> QED BY <1>2, FS_Singleton, FS_Union
<1>4. U \subseteq Int /\ L \subseteq Int /\ U # {} /\ L # {}
  BY PlannerAssumption DEF Amounts
<1>5. /\ Max(U) \in Int /\ \A y \in U : Max(U) >= y
      /\ Min(L) \in Int /\ \A y \in L : Min(L) <= y
  <2> HIDE DEF U, L
  <2> QED BY <1>3, <1>4, MaxIs, MinIs
<1>6. Beats(Max(U), p.margin, Min(L)) = "proof_accepted"
  BY DEF GlobalReason
<1>7. Max(U) + p.margin < Min(L)
  <2>1. p.margin \in Int
    BY DEF Amounts
  <2> HIDE DEF U, L
  <2> QED BY <1>5, <1>6, <2>1, BeatsIs
<1> SUFFICES ASSUME NEW i \in range, NEW j \in range
             PROVE  p.scenarios[i].candidateUpper + p.margin < p.scenarios[j].baselineLower
  OBVIOUS
<1>8. p.scenarios[i].candidateUpper \in U /\ p.scenarios[j].baselineLower \in L
  OBVIOUS
<1>9. /\ Max(U) >= p.scenarios[i].candidateUpper /\ Min(L) <= p.scenarios[j].baselineLower
      /\ p.scenarios[i].candidateUpper \in Int /\ p.scenarios[j].baselineLower \in Int
      /\ p.margin \in Int
  <2> HIDE DEF U, L
  <2> QED BY <1>5, <1>8 DEF Amounts
<1> HIDE DEF U, L
<1> QED BY <1>5, <1>7, <1>9

(* An accepted cost is valid and beats the baselines.                      *)
LEMMA CostAccepted ==
  ASSUME NEW p, ProofCostEvaluate(p) = "proof_accepted"
  PROVE  ValidateProof(p) = "proof_accepted" /\ GlobalReason(p) = "proof_accepted"
<1> DEFINE bad == {i \in 1 .. Len(p.scenarios) :
                     ScenarioReason(p.scenarios[i], p.margin) # "proof_accepted"}
<1>1. ValidateProof(p) = "proof_accepted"
  BY DEF ProofCostEvaluate
<1>2. Len(p.scenarios) \in Nat
  BY <1>1, ValidatedIs
<1>3. ASSUME bad # {} PROVE Min(bad) \in bad
  <2>1. IsFiniteSet(1 .. Len(p.scenarios)) /\ bad \in SUBSET (1 .. Len(p.scenarios))
    BY <1>2, FS_Interval
  <2>2. IsFiniteSet(bad) /\ bad \subseteq Int
    BY <2>1, FS_Subset
  <2> HIDE DEF bad
  <2> QED BY <1>3, <2>2, MinIs
<1>4. bad = {}
  <2> SUFFICES ASSUME bad # {} PROVE FALSE
    OBVIOUS
  <2>1. ProofCostEvaluate(p) = ScenarioReason(p.scenarios[Min(bad)], p.margin)
    BY <1>1 DEF ProofCostEvaluate
  <2> QED BY <1>3, <2>1
<1> QED BY <1>1, <1>4 DEF ProofCostEvaluate

(* Only the accepting reason is a verdict of proven.                       *)
LEMMA VerdictIs ==
  ASSUME NEW reason, CostVerdict(reason) = "proven"
  PROVE  reason = "proof_accepted"
BY DEF CostVerdict

(* Authorized interventions.                                               *)
LEMMA Authorized ==
  ASSUME NEW p, Amounts(p), ProofEvaluate(p) = "intervene"
  PROVE  AuthorizedIsCheaper(p)
<1>1. /\ ValidateProof(p) = "proof_accepted"
      /\ p.generation = RegistryGeneration /\ p.key \in RegistryKeys
      /\ CostVerdict(ProofCostEvaluate(p)) = "proven"
  <2>1. PICK valid, verdict : /\ valid = ValidateProof(p)
                              /\ verdict = CostVerdict(ProofCostEvaluate(p))
    OBVIOUS
  <2>2. "intervene" =
          IF valid # "proof_accepted" THEN "indeterminate"
          ELSE IF p.generation # RegistryGeneration \/ p.key \notin RegistryKeys THEN "pass_through"
          ELSE CASE verdict = "proven"   -> "intervene"
                 [] verdict = "rejected" -> "pass_through"
                 [] OTHER                -> "indeterminate"
    BY <2>1 DEF ProofEvaluate
  <2>3. valid = "proof_accepted" /\ p.generation = RegistryGeneration
        /\ p.key \in RegistryKeys /\ verdict = "proven"
    BY <2>2
  <2> QED BY <2>1, <2>3
<1>2. GlobalReason(p) = "proof_accepted"
  BY <1>1, VerdictIs, CostAccepted
<1>3. Len(p.scenarios) \in Nat /\ Covers(p)
  BY <1>1, ValidatedIs
<1>4. \A id \in p.key.coverage : \E i \in 1 .. Len(p.scenarios) :
           /\ p.scenarios[i].id = id
           /\ \A j \in (1 .. Len(p.scenarios)) \ {i} : p.scenarios[j].id # id
  BY <1>3, CoversIs
<1>5. \A i, j \in 1 .. Len(p.scenarios) :
           p.scenarios[i].candidateUpper + p.margin < p.scenarios[j].baselineLower
  BY <1>2, <1>3, GlobalIs
<1> QED BY <1>1, <1>4, <1>5 DEF AuthorizedIsCheaper

(* An accepted plan cost: no sum overflowed, and what is left is cheaper.  *)
LEMMA PlanCostIs ==
  ASSUME NEW a, NEW b, NEW c, NEW margin \in Int,
         a.value \in Int, b.value \in Int, c.value \in Int,
         PlanCost(a, b, c, margin) = "proof_accepted"
  PROVE  a.ok /\ b.ok /\ c.ok /\ b.value + c.value + margin < a.value
<1> DEFINE upper == MoneyAdd(b.value, c.value)
           p == [identified |-> TRUE, generation |-> 0,
                 key |-> [complete |-> TRUE, coverage |-> {0}],
                 scenarios |-> <<[id |-> 0,
                                  baselineLower |-> a.value,
                                  baselineUpper |-> a.value,
                                  candidateLower |-> b.value,
                                  candidateUpper |-> upper.value]>>,
                 margin |-> margin]
<1>1. a.ok /\ b.ok /\ c.ok /\ upper.ok /\ ProofCostEvaluate(p) = "proof_accepted"
  BY DEF PlanCost
<1>2. upper.value = b.value + c.value
  <2> HIDE DEF p
  <2> QED BY <1>1, MoneyAddIs
<1>3. /\ Len(p.scenarios) = 1 /\ p.scenarios[1].candidateUpper = upper.value
      /\ p.scenarios[1].baselineLower = a.value /\ p.margin = margin
  <2> HIDE DEF upper
  <2> QED OBVIOUS
<1>4. GlobalReason(p) = "proof_accepted"
  <2> HIDE DEF p
  <2> QED BY <1>1, CostAccepted
<1>5. Amounts(p)
  <2> HIDE DEF p, upper
  <2>1. \A i \in 1 .. Len(p.scenarios) : i = 1
    BY <1>3
  <2> QED BY <1>2, <1>3, <2>1 DEF Amounts
<1> HIDE DEF p, upper
<1>6. p.scenarios[1].candidateUpper + p.margin < p.scenarios[1].baselineLower
  <2>1. 1 \in 1 .. Len(p.scenarios) /\ Len(p.scenarios) \in Nat
    BY <1>3
  <2> QED BY <1>4, <1>5, <2>1, GlobalIs
<1> QED BY <1>1, <1>2, <1>3, <1>6

-----------------------------------------------------------------------------
(* A plan is accepted only when no refusal applies.                        *)
LEMMA NoRefusal ==
  ASSUME NEW r, NEW n \in Nat, Len(r) = n, NEW cost,
         \A i \in 1 .. n : r[i][1] => r[i][2] # "none" /\ r[i][2] # "proof_accepted",
         NEW f, f = FirstReason(r, "none"),
         (IF f # "none" THEN f ELSE cost) = "proof_accepted"
  PROVE  cost = "proof_accepted" /\ \A i \in 1 .. n : ~r[i][1]
<1>1. \/ f = "none" /\ \A i \in 1 .. n : ~r[i][1]
      \/ \E i \in 1 .. n : r[i][1] /\ f = r[i][2]
  BY FirstReasonIs
<1>2. ~\E i \in 1 .. n : r[i][1] /\ f = r[i][2]
  OBVIOUS
<1> QED BY <1>1, <1>2

(* Evidence without a refusal was counted locally.                         *)
LEMMA EvidenceIs ==
  ASSUME NEW e
  PROVE  /\ EvidenceReason(e) # "proof_accepted"
         /\ EvidenceReason(e) = "none" => e.source = "local"
BY DEF EvidenceReason

(* The output limit of a layout is the one it states, if any.              *)
LEMMA LimitIs ==
  ASSUME NEW layout, Counted(layout)
  PROVE  /\ OutputLimit(layout) \in Nat
         /\ layout.limit # Unstated => OutputLimit(layout) = layout.limit
BY DEF Counted, OutputLimit

(* The cost of the input, doubled beyond the threshold.                    *)
LEMMA InputCostIs ==
  ASSUME NEW n \in Nat, NEW rate \in Int
  PROVE  /\ InputCost(n, rate).value \in Int
         /\ InputCost(n, rate).ok =>
              InputCost(n, rate).value = n * rate * (IF n > LongThreshold THEN 2 ELSE 1)
<1> PICK base : base = MulMoney(n, rate)
  OBVIOUS
<1>1. base.value \in Int /\ (base.ok => base.value = n * rate)
  BY MulMoneyIs
<1>2. PICK twice : twice = MoneyAdd(base.value, base.value)
  OBVIOUS
<1>3. twice.value \in Int /\ (twice.ok => twice.value = base.value + base.value)
  BY <1>1, <1>2, MoneyAddIs
<1>4. InputCost(n, rate) = IF base.ok /\ n > LongThreshold THEN twice ELSE base
  BY <1>2 DEF InputCost
<1>5. PICK m \in Int : m = n * rate
  OBVIOUS
<1>6. /\ InputCost(n, rate).value \in Int
      /\ InputCost(n, rate).ok =>
              InputCost(n, rate).value = IF n > LongThreshold THEN m + m ELSE m
  BY <1>1, <1>3, <1>4, <1>5
<1>7. m * 2 = m + m /\ m * 1 = m
  OBVIOUS
<1>8. n * rate * (IF n > LongThreshold THEN 2 ELSE 1) = IF n > LongThreshold THEN m + m ELSE m
  BY <1>5, <1>7
<1> QED BY <1>6, <1>8

(* The cost of the output, half as much again beyond the threshold.        *)
LEMMA OutputCostIs ==
  ASSUME NEW n \in Nat, NEW limit \in Nat, NEW rate \in Int
  PROVE  LET cost == OutputCost(limit, rate, n > LongThreshold)
         IN  /\ cost.value \in Int
             /\ cost.ok => cost.value = (limit * rate * (IF n > LongThreshold THEN 3 ELSE 2)) \div 2
<1> PICK half : half = rate \div 2
  OBVIOUS
<1> PICK raised : raised = MoneyAdd(rate, half)
  OBVIOUS
<1> PICK plain, dear : plain = MulMoney(limit, rate) /\ dear = MulMoney(limit, raised.value)
  OBVIOUS
<1> PICK cost : cost = OutputCost(limit, rate, n > LongThreshold)
  OBVIOUS
<1>0. half \in Int
  OBVIOUS
<1>1. raised.value \in Int /\ (raised.ok => raised.value = rate + half)
  BY <1>0, MoneyAddIs
<1>2. /\ plain.value \in Int /\ (plain.ok => plain.value = limit * rate)
      /\ dear.value \in Int /\ (dear.ok => dear.value = limit * raised.value)
  BY <1>1, MulMoneyIs
<1>3. cost = IF ~(n > LongThreshold) THEN plain
             ELSE IF rate % 2 # 0 \/ ~raised.ok THEN [ok |-> FALSE, value |-> 0] ELSE dear
  BY DEF OutputCost, NoMoney
<1>4. CASE ~(n > LongThreshold)
  <2>1. PICK m \in Int : m = limit * rate
    OBVIOUS
  <2>2. (m * 2) \div 2 = m
    OBVIOUS
  <2>3. cost.value \in Int /\ (cost.ok => cost.value = m)
    BY <1>2, <1>3, <1>4, <2>1
  <2> QED BY <1>4, <2>1, <2>2, <2>3
<1>5. CASE n > LongThreshold
  <2>1. CASE rate % 2 # 0 \/ ~raised.ok
    BY <1>3, <1>5, <2>1
  <2>2. CASE rate % 2 = 0 /\ raised.ok
    <3>1. PICK h \in Int : rate = 2 * h /\ half = h
      BY <2>2
    <3>2. raised.value = 3 * h
      BY <1>1, <2>2, <3>1
    <3>3. PICK m \in Int : m = limit * h
      OBVIOUS
    <3>4. limit * raised.value = 3 * m /\ limit * rate * 3 = 6 * m
      BY <3>1, <3>2, <3>3
    <3>5. (6 * m) \div 2 = 3 * m
      OBVIOUS
    <3>6. cost = dear
      BY <1>3, <1>5, <2>2
    <3> QED BY <1>2, <1>5, <3>4, <3>5, <3>6
  <2> QED BY <2>1, <2>2
<1> QED BY <1>4, <1>5, PlannerAssumption

-----------------------------------------------------------------------------
(* The OpenAI planner.                                                     *)
LEMMA OpenAIProven ==
  ASSUME NEW in \in OpenAIInputs, OpenAIPlan(in) = "proof_accepted"
  PROVE  ProvenIsCheaper(in, OpenAITrueInput, OpenAITrueOutput) /\ TierIsCertain(in)
<1> PICK b, c : b = in.baseline /\ c = in.candidate
  OBVIOUS
<1> PICK cost : cost = PlanCost(InputCost(b.tokens.count, in.prices.input),
                                InputCost(c.tokens.count, in.prices.input),
                                OutputCost(OutputLimit(c), in.prices.output,
                                           c.tokens.count > LongThreshold),
                                in.margin)
  OBVIOUS
<1> PICK r : r = OpenAIRefusals(in)
  OBVIOUS
<1> PICK f : f = FirstReason(r, "none")
  OBVIOUS
<1>1. (IF f # "none" THEN f ELSE cost) = "proof_accepted"
  BY DEF OpenAIPlan
<1>2. 13 \in Nat /\ Len(r) = 13
  BY DEF OpenAIRefusals
<1>3. \A i \in 1 .. 13 : r[i][1] => r[i][2] # "none" /\ r[i][2] # "proof_accepted"
  <2>1. /\ r[4][1] => r[4][2] # "none" /\ r[4][2] # "proof_accepted"
        /\ r[5][1] => r[5][2] # "none" /\ r[5][2] # "proof_accepted"
    BY EvidenceIs DEF OpenAIRefusals
  <2>2. \A i \in (1 .. 13) \ {4, 5} : r[i][2] # "none" /\ r[i][2] # "proof_accepted"
    BY DEF OpenAIRefusals
  <2> QED BY <2>1, <2>2
<1>4. cost = "proof_accepted" /\ \A i \in 1 .. 13 : ~r[i][1]
  BY <1>1, <1>2, <1>3, NoRefusal, ZenonT(60)
<1>5. ~r[4][1] /\ ~r[5][1] /\ ~r[13][1]
  BY <1>4
<1>6. /\ EvidenceReason(b.tokens) = "none" /\ EvidenceReason(c.tokens) = "none"
      /\ ~WithinGuard(b.tokens.count, in.guard) /\ ~WithinGuard(c.tokens.count, in.guard)
  BY <1>5 DEF OpenAIRefusals
<1>7. LocalCounts(in)
  BY <1>6, EvidenceIs DEF LocalCounts
<1>8. PICK n, m \in Nat : n = b.tokens.count /\ m = c.tokens.count
  BY InputsAssumption DEF Counted
<1>9. /\ in.prices.input \in Int /\ in.prices.output \in Int /\ in.margin \in Int
      /\ in.guard \in Nat /\ Counted(c)
  BY InputsAssumption DEF Priced
<1>10. PICK limit \in Nat : /\ limit = OutputLimit(c)
                            /\ c.limit # Unstated => limit = c.limit
  BY <1>9, LimitIs
<1>11. PICK before, after, out : /\ before = InputCost(n, in.prices.input)
                                 /\ after = InputCost(m, in.prices.input)
                                 /\ out = OutputCost(limit, in.prices.output, m > LongThreshold)
  OBVIOUS
<1>12. /\ before.value \in Int /\ (before.ok => before.value = OpenAITrueInput(in, n))
       /\ after.value \in Int /\ (after.ok => after.value = OpenAITrueInput(in, m))
  BY <1>9, <1>11, InputCostIs DEF OpenAITrueInput
<1>13. out.value \in Int /\ (out.ok => out.value = OpenAITrueOutput(in, m, limit))
  BY <1>9, <1>11, OutputCostIs DEF OpenAITrueOutput
<1>14. PlanCost(before, after, out, in.margin) = "proof_accepted"
  BY <1>4, <1>8, <1>10, <1>11
<1>15. before.ok /\ after.ok /\ out.ok /\ after.value + out.value + in.margin < before.value
  BY <1>9, <1>12, <1>13, <1>14, PlanCostIs
<1>16. OpenAITrueInput(in, m) + OpenAITrueOutput(in, m, limit) + in.margin < OpenAITrueInput(in, n)
  BY <1>12, <1>13, <1>15
<1>17. ProvenIsCheaper(in, OpenAITrueInput, OpenAITrueOutput)
  BY <1>7, <1>8, <1>10, <1>16 DEF ProvenIsCheaper
<1>18. ASSUME NEW k \in Nat, ~WithinGuard(k, in.guard), NEW d \in -in.guard .. in.guard
       PROVE  k + d > LongThreshold <=> k > LongThreshold
  BY <1>9, <1>18, PlannerAssumption DEF WithinGuard
<1>19. TierIsCertain(in)
  BY <1>6, <1>8, <1>18 DEF TierIsCertain
<1> QED BY <1>17, <1>19

(* The rates of the Anthropic planner are those of the tier the count is in. *)
LEMMA RatesAre ==
  ASSUME NEW in \in AnthropicInputs, NEW n \in Nat
  PROVE  /\ Rates(n, in.prices).input \in Int /\ Rates(n, in.prices).output \in Int
         /\ n * Rates(n, in.prices).input = AnthropicTrueInput(in, n)
         /\ \A limit : limit * Rates(n, in.prices).output = AnthropicTrueOutput(in, n, limit)
<1>1. /\ in.prices.input \in Int /\ in.prices.output \in Int /\ in.prices.threshold \in Nat
      /\ in.prices.longInput \in Int /\ in.prices.longOutput \in Int
  BY InputsAssumption DEF Priced
<1>2. in.prices.threshold \in 1 .. n - 1 <=> in.prices.threshold # 0 /\ n > in.prices.threshold
  BY <1>1
<1>3. /\ Rates(n, in.prices).input =
           IF in.prices.threshold \in 1 .. n - 1 THEN in.prices.longInput ELSE in.prices.input
      /\ Rates(n, in.prices).output =
           IF in.prices.threshold \in 1 .. n - 1 THEN in.prices.longOutput ELSE in.prices.output
  BY <1>2 DEF Rates
<1> QED BY <1>1, <1>3 DEF AnthropicTrueInput, AnthropicTrueOutput

(* The Anthropic planner.                                                  *)
LEMMA AnthropicProven ==
  ASSUME NEW in \in AnthropicInputs, AnthropicPlan(in) = "proof_accepted"
  PROVE  ProvenIsCheaper(in, AnthropicTrueInput, AnthropicTrueOutput)
<1> PICK b, c : b = in.baseline /\ c = in.candidate
  OBVIOUS
<1> PICK cost : cost = PlanCost(MulMoney(b.tokens.count, Rates(b.tokens.count, in.prices).input),
                                MulMoney(c.tokens.count, Rates(c.tokens.count, in.prices).input),
                                MulMoney(OutputLimit(c), Rates(c.tokens.count, in.prices).output),
                                in.margin)
  OBVIOUS
<1> PICK r : r = AnthropicRefusals(in)
  OBVIOUS
<1> PICK f : f = FirstReason(r, "none")
  OBVIOUS
<1>1. (IF f # "none" THEN f ELSE cost) = "proof_accepted"
  BY DEF AnthropicPlan
<1>2. 11 \in Nat /\ Len(r) = 11
  BY DEF AnthropicRefusals
<1>3. \A i \in 1 .. 11 : r[i][1] => r[i][2] # "none" /\ r[i][2] # "proof_accepted"
  <2>1. /\ r[3][1] => r[3][2] # "none" /\ r[3][2] # "proof_accepted"
        /\ r[4][1] => r[4][2] # "none" /\ r[4][2] # "proof_accepted"
    BY EvidenceIs DEF AnthropicRefusals
  <2>2. \A i \in (1 .. 11) \ {3, 4} : r[i][2] # "none" /\ r[i][2] # "proof_accepted"
    BY DEF AnthropicRefusals
  <2> QED BY <2>1, <2>2
<1>4. cost = "proof_accepted" /\ \A i \in 1 .. 11 : ~r[i][1]
  BY <1>1, <1>2, <1>3, NoRefusal, ZenonT(60)
<1>5. ~r[3][1] /\ ~r[4][1]
  BY <1>4
<1>6. EvidenceReason(b.tokens) = "none" /\ EvidenceReason(c.tokens) = "none"
  BY <1>5 DEF AnthropicRefusals
<1>7. LocalCounts(in)
  BY <1>6, EvidenceIs DEF LocalCounts
<1>8. PICK n, m \in Nat : n = b.tokens.count /\ m = c.tokens.count
  BY InputsAssumption DEF Counted
<1>9. in.margin \in Int /\ Counted(c)
  BY InputsAssumption
<1>10. PICK limit \in Nat : /\ limit = OutputLimit(c)
                            /\ c.limit # Unstated => limit = c.limit
  BY <1>9, LimitIs
<1>11. PICK before, after, out : /\ before = MulMoney(n, Rates(n, in.prices).input)
                                 /\ after = MulMoney(m, Rates(m, in.prices).input)
                                 /\ out = MulMoney(limit, Rates(m, in.prices).output)
  OBVIOUS
<1>12. /\ before.value \in Int /\ (before.ok => before.value = AnthropicTrueInput(in, n))
       /\ after.value \in Int /\ (after.ok => after.value = AnthropicTrueInput(in, m))
       /\ out.value \in Int /\ (out.ok => out.value = AnthropicTrueOutput(in, m, limit))
  <2>1. ASSUME NEW k \in Nat
        PROVE  /\ Rates(k, in.prices).input \in Int /\ Rates(k, in.prices).output \in Int
               /\ k * Rates(k, in.prices).input = AnthropicTrueInput(in, k)
               /\ limit * Rates(k, in.prices).output = AnthropicTrueOutput(in, k, limit)
    BY RatesAre
  <2> QED BY <1>11, <2>1, MulMoneyIs
<1>13. PlanCost(before, after, out, in.margin) = "proof_accepted"
  BY <1>4, <1>8, <1>10, <1>11
<1>14. before.ok /\ after.ok /\ out.ok /\ after.value + out.value + in.margin < before.value
  BY <1>9, <1>12, <1>13, PlanCostIs
<1>15. AnthropicTrueInput(in, m) + AnthropicTrueOutput(in, m, limit) + in.margin
         < AnthropicTrueInput(in, n)
  BY <1>12, <1>14
<1> QED BY <1>7, <1>8, <1>10, <1>15 DEF ProvenIsCheaper

-----------------------------------------------------------------------------
(* What a behaviour has chosen and built so far.                           *)
Chosen(inputs) == input = <<>> \/ \E in \in inputs : input = <<in>>

ChoiceInv ==
    /\ algorithm \in Sequential \cup Settings
    /\ algorithm.kind = "openai" => Chosen(OpenAIInputs)
    /\ algorithm.kind = "anthropic" => Chosen(AnthropicInputs)
    /\ algorithm.kind = "proof" => Chosen(Proofs)
    /\ algorithm.kind = "eager" => Chosen(EagerInputs)
    /\ output # <<>> => input # <<>> /\ output = <<Result>>

(* Nothing is chosen at first.                                             *)
LEMMA ChoiceInit == Init => ChoiceInv
BY DEF Init, ChoiceInv, Chosen

(* The inputs that are chosen stay, and the output is computed from them.  *)
LEMMA ChoiceStep == ChoiceInv /\ [Next]_vars => ChoiceInv'
<1> SUFFICES ASSUME ChoiceInv, [Next]_vars PROVE ChoiceInv'
  OBVIOUS
<1>1. CASE UNCHANGED vars
  BY <1>1 DEF ChoiceInv, Chosen, vars, Result
<1>2. ASSUME NEW e \in Elements, Extend(e) PROVE ChoiceInv'
  <2>1. algorithm.kind \notin {"openai", "anthropic", "proof", "eager"}
    BY <1>2 DEF Elements
  <2> QED BY <1>2, <2>1 DEF ChoiceInv, Extend
<1>3. ASSUME NEW chunk \in Chunks, ExtendJson(chunk) PROVE ChoiceInv'
  BY <1>3 DEF ChoiceInv, ExtendJson
<1>4. ASSUME NEW kind \in {"openai", "anthropic", "proof", "eager"}, NEW inputs,
             Choose(kind, inputs),
             kind = "openai" => inputs = OpenAIInputs,
             kind = "anthropic" => inputs = AnthropicInputs,
             kind = "proof" => inputs = Proofs,
             kind = "eager" => inputs = EagerInputs
      PROVE  ChoiceInv'
  BY <1>4 DEF ChoiceInv, Choose, Chosen
<1>5. CASE Apply
  BY <1>5 DEF ChoiceInv, Apply, Chosen, Result
<1>6. CASE Next
  BY <1>2, <1>3, <1>4, <1>5, <1>6 DEF Next
<1> QED BY <1>1, <1>6

(* What is chosen and computed, in every state.                            *)
LEMMA ChoiceIsInvariant == Spec => []ChoiceInv
BY ChoiceInit, ChoiceStep, PTL DEF Spec

(* An output is that of the algorithm on the input.                        *)
LEMMA ResultIs ==
  ASSUME ChoiceInv, output # <<>>
  PROVE  /\ algorithm.kind = "openai" =>
              \E in \in OpenAIInputs : input[1] = in /\ output[1] = OpenAIPlan(in)
         /\ algorithm.kind = "anthropic" =>
              \E in \in AnthropicInputs : input[1] = in /\ output[1] = AnthropicPlan(in)
         /\ algorithm.kind = "proof" =>
              \E p \in Proofs : input[1] = p /\ output[1] = ProofEvaluate(p)
         /\ algorithm.kind = "eager" =>
              \E in \in EagerInputs : input[1] = in /\ output[1] = CompressToolResult(in)
<1>1. input # <<>> /\ output[1] = Result
  BY DEF ChoiceInv
<1>2. /\ algorithm.kind = "openai" => Result = OpenAIPlan(input[1])
      /\ algorithm.kind = "anthropic" => Result = AnthropicPlan(input[1])
      /\ algorithm.kind = "proof" => Result = ProofEvaluate(input[1])
      /\ algorithm.kind = "eager" => Result = CompressToolResult(input[1])
  BY DEF Result
<1>3. ASSUME NEW inputs, Chosen(inputs) PROVE \E in \in inputs : input[1] = in
  BY <1>1, <1>3 DEF Chosen
<1> QED BY <1>1, <1>2, <1>3 DEF ChoiceInv

(* A plan that the planners or the validators of proof.go accept saves     *)
(* money in exact arithmetic, for all counts and prices (InputsAssumption).*)
THEOREM AcceptedCheaper ==
  Spec => []AcceptedIsCheaper
<1>1. ChoiceInv => AcceptedIsCheaper
  <2> SUFFICES ASSUME ChoiceInv PROVE AcceptedIsCheaper
    OBVIOUS
  <2>1. ASSUME Done("openai"), CostVerdict(output[1]) = "proven"
        PROVE  ProvenIsCheaper(input[1], OpenAITrueInput, OpenAITrueOutput)
               /\ TierIsCertain(input[1])
    <3>1. PICK in \in OpenAIInputs : input[1] = in /\ output[1] = OpenAIPlan(in)
      BY <2>1, ResultIs DEF Done
    <3>2. OpenAIPlan(in) = "proof_accepted"
      BY <2>1, <3>1, VerdictIs
    <3>3. ProvenIsCheaper(in, OpenAITrueInput, OpenAITrueOutput) /\ TierIsCertain(in)
      BY <3>2, OpenAIProven
    <3> QED BY <3>1, <3>3
  <2>2. ASSUME Done("anthropic"), CostVerdict(output[1]) = "proven"
        PROVE  ProvenIsCheaper(input[1], AnthropicTrueInput, AnthropicTrueOutput)
    <3>1. PICK in \in AnthropicInputs : input[1] = in /\ output[1] = AnthropicPlan(in)
      BY <2>2, ResultIs DEF Done
    <3>2. AnthropicPlan(in) = "proof_accepted"
      BY <2>2, <3>1, VerdictIs
    <3>3. ProvenIsCheaper(in, AnthropicTrueInput, AnthropicTrueOutput)
      BY <3>2, AnthropicProven
    <3> QED BY <3>1, <3>3
  <2>3. ASSUME Done("proof"), output[1] = "intervene" PROVE AuthorizedIsCheaper(input[1])
    <3>1. PICK p \in Proofs : input[1] = p /\ output[1] = ProofEvaluate(p)
      BY <2>3, ResultIs DEF Done
    <3>2. Amounts(p)
      BY InputsAssumption DEF Amounts
    <3>3. AuthorizedIsCheaper(p)
      BY <2>3, <3>1, <3>2, Authorized
    <3> QED BY <3>1, <3>3
  <2> QED BY <2>1, <2>2, <2>3 DEF AcceptedIsCheaper
<1> QED BY <1>1, ChoiceIsInvariant, PTL

-----------------------------------------------------------------------------
(* The position of a coordinate before another, by rows of five numbers.   *)
Lex(a, b) == \E k \in 1 .. 5 : a[k] < b[k] /\ \A j \in 1 .. k - 1 : a[j] = b[j]

(* Positions by falling rows of numbers, equals in their order.            *)
ByRow(below, row, n) ==
    /\ row \in [1 .. n -> [1 .. 5 -> Int]] /\ below \in [1 .. n -> SUBSET (1 .. n)]
    /\ \A i, j \in 1 .. n :
         j \in below[i] <=> Lex(row[j], row[i]) \/ (~Lex(row[i], row[j]) /\ j < i)

(* Comparing rows of numbers orders them totally.                          *)
LEMMA LexIs ==
  /\ \A a, b \in [1 .. 5 -> Int] : a = b \/ Lex(a, b) \/ Lex(b, a)
  /\ \A a, b \in [1 .. 5 -> Int] : ~(Lex(a, b) /\ Lex(b, a))
  /\ \A a \in [1 .. 5 -> Int] : ~Lex(a, a)
  /\ \A a, b, c \in [1 .. 5 -> Int] : Lex(a, b) /\ Lex(b, c) => Lex(a, c)
<1>0. IsFiniteSet(1 .. 5)
  <2>1. \A n \in Nat : IsFiniteSet(1 .. n)
    BY FS_Interval
  <2> QED BY <2>1
<1>1. ASSUME NEW a \in [1 .. 5 -> Int], NEW b \in [1 .. 5 -> Int]
      PROVE  a = b \/ Lex(a, b) \/ Lex(b, a)
  <2> DEFINE differ == {k \in 1 .. 5 : a[k] # b[k]}
  <2>1. CASE differ = {}
    <3>1. \A k \in 1 .. 5 : a[k] = b[k]
      BY <2>1
    <3> QED BY <3>1
  <2>2. CASE differ # {}
    <3>2. IsFiniteSet(differ) /\ differ \subseteq Int
      <4>1. differ \in SUBSET (1 .. 5) /\ differ \subseteq Int
        OBVIOUS
      <4> HIDE DEF differ
      <4> QED BY <1>0, <4>1, FS_Subset
    <3>3. PICK k \in differ : \A j \in differ : k <= j
      <4> HIDE DEF differ
      <4> QED BY <2>2, <3>2, MinIs
    <3>4. k \in 1 .. 5 /\ a[k] # b[k] /\ a[k] \in Int /\ b[k] \in Int
      BY <3>3
    <3>5. \A j \in 1 .. k - 1 : a[j] = b[j]
      BY <3>3, <3>4
    <3>6. a[k] < b[k] \/ b[k] < a[k]
      BY <3>4
    <3> QED BY <3>4, <3>5, <3>6 DEF Lex
  <2> QED BY <2>1, <2>2
<1>2. ASSUME NEW a \in [1 .. 5 -> Int], NEW b \in [1 .. 5 -> Int], NEW c \in [1 .. 5 -> Int],
             Lex(a, b), Lex(b, c)
      PROVE  Lex(a, c)
  <2> PICK k \in 1 .. 5 : a[k] < b[k] /\ \A j \in 1 .. k - 1 : a[j] = b[j]
    BY <1>2 DEF Lex
  <2> PICK l \in 1 .. 5 : b[l] < c[l] /\ \A j \in 1 .. l - 1 : b[j] = c[j]
    BY <1>2 DEF Lex
  <2>1. PICK m \in 1 .. 5 : m = IF k <= l THEN k ELSE l
    OBVIOUS
  <2>2. a[k] \in Int /\ b[k] \in Int /\ b[l] \in Int /\ c[l] \in Int
        /\ c[k] \in Int /\ a[l] \in Int
    OBVIOUS
  <2>3. a[m] < c[m]
    <3>1. CASE k < l
      BY <2>1, <2>2, <3>1
    <3>2. CASE k = l
      BY <2>1, <2>2, <3>2
    <3>3. CASE k > l
      BY <2>1, <2>2, <3>3
    <3> QED BY <3>1, <3>2, <3>3
  <2>4. \A j \in 1 .. m - 1 : a[j] = c[j]
    BY <2>1
  <2> QED BY <2>3, <2>4 DEF Lex
<1>3. ASSUME NEW a \in [1 .. 5 -> Int] PROVE ~Lex(a, a)
  BY DEF Lex
<1>4. \A a, b \in [1 .. 5 -> Int] : ~(Lex(a, b) /\ Lex(b, a))
  BY <1>2, <1>3
<1> QED BY <1>1, <1>2, <1>3, <1>4

(* Positions by rows of numbers are totally ordered.                       *)
LEMMA ByRowIsOrder ==
  ASSUME NEW n \in Nat, NEW row, NEW below, ByRow(below, row, n)
  PROVE  IsOrder(below, n)
<1>0. /\ row \in [1 .. n -> [1 .. 5 -> Int]] /\ below \in [1 .. n -> SUBSET (1 .. n)]
      /\ \A i, j \in 1 .. n :
           j \in below[i] <=> Lex(row[j], row[i]) \/ (~Lex(row[i], row[j]) /\ j < i)
  BY DEF ByRow
<1>1. \A i \in 1 .. n : i \notin below[i]
  BY <1>0, LexIs
<1>2. \A i, j \in 1 .. n : i = j \/ i \in below[j] \/ j \in below[i]
  <2> SUFFICES ASSUME NEW i \in 1 .. n, NEW j \in 1 .. n
               PROVE  i = j \/ i \in below[j] \/ j \in below[i]
    OBVIOUS
  <2>1. i < j \/ j < i \/ i = j
    OBVIOUS
  <2> QED BY <1>0, <2>1
<1>3. \A i, j \in 1 .. n : i \in below[j] => below[i] \subseteq below[j]
  <2> SUFFICES ASSUME NEW i \in 1 .. n, NEW j \in 1 .. n, i \in below[j],
                      NEW k \in below[i]
               PROVE  k \in below[j]
    OBVIOUS
  <2>1. k \in 1 .. n
    BY <1>0
  <2> PICK a, b, c : a = row[i] /\ b = row[j] /\ c = row[k]
    OBVIOUS
  <2>2. a \in [1 .. 5 -> Int] /\ b \in [1 .. 5 -> Int] /\ c \in [1 .. 5 -> Int]
    BY <1>0, <2>1
  <2>3. Lex(a, b) \/ (~Lex(b, a) /\ i < j)
    BY <1>0
  <2>4. Lex(c, a) \/ (~Lex(a, c) /\ k < i)
    BY <1>0, <2>1
  <2>5. (Lex(a, b) \/ (a = b /\ i < j)) /\ (Lex(c, a) \/ (c = a /\ k < i))
    BY <2>2, <2>3, <2>4, LexIs
  <2>6. Lex(c, b) \/ (c = b /\ k < j)
    <3>1. i < j /\ k < i => k < j
      BY <2>1
    <3> QED BY <2>2, <2>5, <3>1, LexIs
  <2>7. Lex(c, b) \/ (~Lex(b, c) /\ k < j)
    BY <2>2, <2>6, LexIs
  <2> QED BY <1>0, <2>1, <2>7
<1> QED BY <1>0, <1>1, <1>2, <1>3 DEF IsOrder

RowOf(e) == [k \in 1 .. 5 |-> SortKey(e)[k]]

(* entryLess compares rows.                                                *)
LEMMA EntryLessIs ==
  ASSUME NEW x \in Entries, NEW y \in Entries
  PROVE  /\ RowOf(x) \in [1 .. 5 -> Int]
         /\ EntryLess(x, y) <=> Lex(RowOf(x), RowOf(y))
<1>1. RowOf(x) \in [1 .. 5 -> Int]
  BY EntriesAssumption DEF RowOf, SortKey
<1>2. Len(SortKey(x)) = 5
  BY DEF SortKey
<1>3. \A k \in 1 .. 5 : RowOf(x)[k] = SortKey(x)[k] /\ RowOf(y)[k] = SortKey(y)[k]
  BY DEF RowOf
<1>4. \A k \in 1 .. 5 : \A j \in 1 .. k - 1 : j \in 1 .. 5
  OBVIOUS
<1>5. EntryLess(x, y) <=> Lex(RowOf(x), RowOf(y))
  BY <1>2, <1>3, <1>4 DEF EntryLess, Lex
<1> QED BY <1>1, <1>5

(* What comes before a position in a closet.                               *)
Before(s) ==
    [i \in 1 .. Len(s) |->
        {j \in 1 .. Len(s) : \/ EntryLess(s[j], s[i])
                             \/ ~EntryLess(s[i], s[j]) /\ j < i}]

(* The model of the sort puts the entries in their order.                  *)
LEMMA StableSortedIs ==
  ASSUME NEW s \in Seq(Entries)
  PROVE  /\ IsOrder(Before(s), Len(s))
         /\ \E o : /\ Arranges(o, Before(s), Len(s))
                   /\ StableSorted(s) = [k \in 1 .. Len(s) |-> s[o[k]]]
<1> PICK n \in Nat : n = Len(s)
  OBVIOUS
<1>0. DOMAIN s = 1 .. n /\ \A i \in 1 .. n : s[i] \in Entries
  OBVIOUS
<1> PICK below : below = Before(s)
  OBVIOUS
<1> PICK row : row = [i \in 1 .. n |-> RowOf(s[i])]
  OBVIOUS
<1>1. /\ below \in [1 .. n -> SUBSET (1 .. n)]
      /\ \A i, j \in 1 .. n : j \in below[i] <=> EntryLess(s[j], s[i]) \/ (~EntryLess(s[i], s[j]) /\ j < i)
  BY DEF Before
<1>2. row \in [1 .. n -> [1 .. 5 -> Int]] /\ \A i \in 1 .. n : row[i] = RowOf(s[i])
  BY <1>0, EntryLessIs
<1>3. \A i, j \in 1 .. n : EntryLess(s[i], s[j]) <=> Lex(row[i], row[j])
  BY <1>0, <1>2, EntryLessIs
<1>4. ByRow(below, row, n)
  BY <1>1, <1>2, <1>3 DEF ByRow
<1>5. IsOrder(below, n)
  BY <1>4, ByRowIsOrder
<1> DEFINE Place_(i) == 1 + Cardinality({j \in DOMAIN s : \/ EntryLess(s[j], s[i])
                                                          \/ ~EntryLess(s[i], s[j]) /\ j < i})
           o == [k \in 1 .. n |-> CHOOSE i \in 1 .. n : Place_(i) = k]
<1>6. StableSorted(s) = [k \in 1 .. n |-> s[o[k]]]
  BY <1>0 DEF StableSorted
<1>7. \A i \in 1 .. n : Place_(i) = 1 + Cardinality(below[i])
  <2>1. \A i \in 1 .. n : below[i] = {j \in DOMAIN s : \/ EntryLess(s[j], s[i])
                                                       \/ ~EntryLess(s[i], s[j]) /\ j < i}
    BY <1>0 DEF Before
  <2> QED BY <2>1
<1> HIDE DEF Place_
<1>8. ASSUME NEW k \in 1 .. n, NEW i \in 1 .. n, 1 + Cardinality(below[i]) = k
      PROVE  o[k] \in 1 .. n /\ 1 + Cardinality(below[o[k]]) = k
  <2>1. Place_(i) = k
    BY <1>7, <1>8
  <2>2. PICK c : c = CHOOSE j \in 1 .. n : Place_(j) = k
    OBVIOUS
  <2>3. c \in 1 .. n /\ Place_(c) = k
    BY <2>1, <2>2
  <2>4. o[k] = c
    BY <2>2
  <2> QED BY <1>7, <2>3, <2>4
<1>9. o = [k \in 1 .. n |-> o[k]]
  OBVIOUS
<1> HIDE DEF o
<1>10. Arranges(o, below, n)
  BY <1>5, <1>8, <1>9, Arranged
<1> QED BY <1>5, <1>6, <1>10

(* Sorting permutes the entries.                                           *)
LEMMA SortedSeq ==
  ASSUME NEW s \in Seq(Entries)
  PROVE  /\ StableSorted(s) \in Seq(Entries) /\ Len(StableSorted(s)) = Len(s)
         /\ ToSet(StableSorted(s)) = ToSet(s)
<1>1. PICK o : /\ Arranges(o, Before(s), Len(s))
               /\ StableSorted(s) = [k \in 1 .. Len(s) |-> s[o[k]]]
  BY StableSortedIs
<1> PICK n \in Nat : n = Len(s)
  OBVIOUS
<1>2. o \in [1 .. n -> 1 .. n] /\ \A i \in 1 .. n : \E k \in 1 .. n : o[k] = i
  BY <1>1 DEF Arranges
<1> PICK t : t = StableSorted(s)
  OBVIOUS
<1>3. t = [k \in 1 .. n |-> s[o[k]]] /\ \A i \in 1 .. n : s[i] \in Entries
  BY <1>1
<1>4. t \in Seq(Entries) /\ Len(t) = n
  BY <1>2, <1>3
<1>5. DOMAIN t = 1 .. n /\ DOMAIN s = 1 .. n
  BY <1>3
<1>6. ToSet(t) = ToSet(s)
  <2>1. \A k \in 1 .. n : t[k] = s[o[k]]
    BY <1>3
  <2>2. ToSet(t) = {t[k] : k \in 1 .. n} /\ ToSet(s) = {s[i] : i \in 1 .. n}
    BY <1>5 DEF ToSet
  <2>3. \A k \in 1 .. n : o[k] \in 1 .. n
    BY <1>2
  <2>4. \A i \in 1 .. n : \E k \in 1 .. n : t[k] = s[i]
    BY <1>2, <2>1
  <2>5. \A k \in 1 .. n : \E i \in 1 .. n : t[k] = s[i]
    BY <2>1, <2>3
  <2>6. ToSet(t) \subseteq ToSet(s)
    BY <2>2, <2>5
  <2>7. ToSet(s) \subseteq ToSet(t)
    BY <2>2, <2>4
  <2> QED BY <2>6, <2>7
<1> QED BY <1>4, <1>6

(* The lines of a closet have a length.                                    *)
LEMMA LinesLenIs ==
  ASSUME NEW s \in Seq(Entries), NEW n \in 1 .. Len(s)
  PROVE  LinesLen(s, n) \in Nat
<1>0. n \in Nat /\ \A k \in 1 .. n : s[k] \in Entries
  OBVIOUS
<1>1. \A k \in 1 .. n : ClosetLine(s[k]) \in Nat
  <2>1. SuffixLen \in Nat /\ RedactedLen \in Nat
    BY ClosetAssumption
  <2>2. \A e \in Entries : e.len \in Nat
    BY EntriesAssumption
  <2> QED BY <1>0, <2>1, <2>2 DEF ClosetLine
<1> DEFINE step == [k \in 1 .. n |-> [v \in Nat |-> v + ClosetLine(s[k])]]
           IsSum(f) == f = [k \in 0 .. n |-> IF k = 0 THEN 0 ELSE f[k - 1] + ClosetLine(s[k])]
<1>2. PICK f \in [0 .. n -> Nat] : IsPath(f, n, 0, step)
  <2>1. step \in [1 .. n -> [Nat -> Nat]]
    BY <1>1
  <2> HIDE DEF step
  <2> QED BY <1>0, <2>1, PathExists
<1>3. IsSum(f)
  <2>1. ASSUME NEW k \in 0 .. n
        PROVE  f[k] = IF k = 0 THEN 0 ELSE f[k - 1] + ClosetLine(s[k])
    <3>1. f[k] = IF k = 0 THEN 0 ELSE step[k][f[k - 1]]
      <4> HIDE DEF step
      <4> QED BY <1>2 DEF IsPath
    <3>2. k # 0 => k \in 1 .. n /\ f[k - 1] \in Nat
      OBVIOUS
    <3> QED BY <3>1, <3>2
  <2> HIDE DEF step
  <2> QED BY <2>1
<1>4. PICK g : IsSum(g) /\ LinesLen(s, n)
                 = g[n] + (IF \E k \in 1 .. n : s[k].lane = 1 THEN DividerLen ELSE 0)
  <2> DEFINE sum == CHOOSE g : IsSum(g)
  <2>1. IsSum(sum)
    <3> HIDE DEF IsSum
    <3> QED BY <1>3
  <2>2. LinesLen(s, n) = sum[n] + (IF \E k \in 1 .. n : s[k].lane = 1 THEN DividerLen ELSE 0)
    BY DEF LinesLen
  <2> HIDE DEF IsSum
  <2> QED BY <2>1, <2>2
<1>8. g[0] = 0 /\ \A k \in 1 .. n : g[k] = g[k - 1] + ClosetLine(s[k])
  <2>1. IsSum(g)
    <3> HIDE DEF IsSum
    <3> QED BY <1>4
  <2> QED BY <1>0, <2>1
<1> HIDE DEF IsSum
<1> DEFINE H == {k \in 0 .. n : g[k] \in Nat}
<1>5. 0 .. n \subseteq H
  <2>1. 0 \in H
    BY <1>8
  <2>2. ASSUME NEW k \in 1 .. n, k - 1 \in H PROVE k \in H
    <3>1. g[k - 1] \in Nat /\ ClosetLine(s[k]) \in Nat
      BY <1>1, <2>2
    <3>2. g[k] = g[k - 1] + ClosetLine(s[k])
      BY <1>8
    <3>3. g[k] \in Nat
      BY <3>1, <3>2
    <3> QED BY <3>3
  <2> HIDE DEF H
  <2> QED BY <1>0, <2>1, <2>2, Upwards
<1>6. g[n] \in Nat
  BY <1>5
<1>7. DividerLen \in Nat
  BY ClosetAssumption
<1> QED BY <1>4, <1>6, <1>7

(* What fits a bound leaves room for the header and the note.              *)
LEMMA FitCountIs ==
  ASSUME NEW s \in Seq(Entries), NEW cap \in Int
  PROVE  /\ FitCount(s, cap) \in 0 .. Len(s)
         /\ FitCount(s, cap) = 0
            \/ PartialHeaderLen + LinesLen(s, FitCount(s, cap)) + NoteLen + 1 <= cap
<1> DEFINE fits == {n \in 1 .. Len(s) : PartialHeaderLen + LinesLen(s, n) + NoteLen + 1 <= cap}
<1> PICK l \in Nat : l = Len(s)
  OBVIOUS
<1>1. PICK S : S = {0} \cup fits
  OBVIOUS
<1>2. S \subseteq 0 .. l
  BY <1>1
<1>3. IsFiniteSet(S)
  <2>1. IsFiniteSet(0 .. l)
    BY FS_Interval
  <2> QED BY <1>2, <2>1, FS_Subset
<1>4. S # {} /\ S \subseteq Int
  BY <1>1, <1>2
<1>5. Max(S) \in S
  BY <1>3, <1>4, MaxIs
<1>6. FitCount(s, cap) = Max(S)
  BY <1>1 DEF FitCount
<1>7. PICK m : m = FitCount(s, cap)
  OBVIOUS
<1>8. m \in S
  BY <1>5, <1>6, <1>7
<1>9. m = 0 \/ m \in fits
  BY <1>1, <1>8
<1> QED BY <1>2, <1>7, <1>8, <1>9

(* A closet that is rendered (RenderCloset): what fits of the entries in   *)
(* their order, within the bound, with word of what does not.              *)
LEMMA Rendered ==
  ASSUME NEW s \in Seq(Entries), NEW cap \in Int, s # <<>>
  PROVE  LET closet == RenderCloset(s, cap)
             t == StableSorted(s)
             fit == FitCount(t, cap)
         IN  /\ closet.len \in Nat /\ (closet.len = 0 \/ closet.len <= cap)
             /\ closet.entries = SubSeq(t, 1, fit)
             /\ closet.evict = (IF fit = Len(t) THEN "none" ELSE "fail")
             /\ closet.note <=> (fit # 0 /\ fit # Len(t))
<1>1. PICK t : t = StableSorted(s)
  OBVIOUS
<1>2. t \in Seq(Entries) /\ Len(t) = Len(s) /\ Len(t) \in Nat /\ Len(t) # 0
  BY <1>1, SortedSeq
<1>3. PICK fit : fit = FitCount(t, cap)
  OBVIOUS
<1>4. fit \in 0 .. Len(t) /\ (fit = 0 \/ PartialHeaderLen + LinesLen(t, fit) + NoteLen + 1 <= cap)
  BY <1>2, <1>3, FitCountIs
<1> PICK closet : closet = RenderCloset(s, cap)
  OBVIOUS
<1> DEFINE Good == /\ closet.len \in Nat /\ (closet.len = 0 \/ closet.len <= cap)
                   /\ closet.entries = SubSeq(t, 1, fit)
                   /\ closet.evict = (IF fit = Len(t) THEN "none" ELSE "fail")
                   /\ closet.note <=> (fit # 0 /\ fit # Len(t))
<1>5. CASE fit = 0
  <2>1. closet = [len |-> 0, entries |-> <<>>, note |-> FALSE, evict |-> "fail"]
    BY <1>1, <1>3, <1>5 DEF RenderCloset, NoCloset
  <2>2. SubSeq(t, 1, 0) = <<>>
    BY <1>2
  <2>3. Good
    BY <1>2, <1>5, <2>1, <2>2
  <2> QED BY <1>1, <1>3, <2>3
<1>6. CASE fit # 0
  <2>1. PICK lines \in Nat : lines = LinesLen(t, fit)
    <3>1. fit \in 1 .. Len(t)
      BY <1>2, <1>4, <1>6
    <3> QED BY <1>2, <3>1, LinesLenIs
  <2>2. PICK bytes : bytes = lines + (IF fit < Len(t) THEN PartialHeaderLen + NoteLen ELSE HeaderLen)
    OBVIOUS
  <2>4. HeaderLen \in Nat /\ PartialHeaderLen \in Nat /\ NoteLen \in Nat /\ HeaderLen <= PartialHeaderLen
    BY ClosetAssumption
  <2>5. bytes \in Nat /\ bytes <= cap
    BY <1>4, <1>6, <2>1, <2>2, <2>4, SMTT(40)
  <2>3. CASE fit < Len(t)
    <3>1. closet = [len |-> bytes, entries |-> SubSeq(t, 1, fit), note |-> TRUE, evict |-> "fail"]
      BY <1>1, <1>3, <1>6, <2>1, <2>2, <2>3 DEF RenderCloset
    <3>2. Good
      BY <1>2, <1>4, <1>6, <2>2, <2>5, <2>3, <3>1
    <3> QED BY <1>1, <1>3, <3>2
  <2>6. CASE ~(fit < Len(t))
    <3>0. (fit < Len(t)) = FALSE
      BY <2>6
    <3> PICK failed : failed = (fit < Len(t))
      OBVIOUS
    <3>1. closet = [len |-> bytes, entries |-> SubSeq(t, 1, fit), note |-> FALSE, evict |-> "none"]
      <4>1. closet = [len |-> lines + (IF failed THEN PartialHeaderLen + NoteLen ELSE HeaderLen),
                      entries |-> SubSeq(t, 1, fit), note |-> failed,
                      evict |-> IF failed THEN "fail" ELSE "none"]
        BY <1>1, <1>3, <1>6, <2>1 DEF RenderCloset
      <4>2. failed = FALSE
        BY <3>0
      <4> QED BY <2>2, <2>6, <4>1, <4>2
    <3>2. Good
      BY <1>2, <1>4, <1>6, <2>2, <2>5, <2>6, <3>1
    <3> QED BY <1>1, <1>3, <3>2
  <2> QED BY <2>3, <2>6
<1> QED BY <1>5, <1>6

(* The length of what CompactBody leaves.                                  *)
LEMMA CompactLenIs ==
  ASSUME NEW raw \in Nat, NEW summary \in Nat, NEW cfg, cfg.head \in Int, cfg.tail \in Int
  PROVE  CompactLen(raw, summary, cfg) \in Int
<1>1. SummaryCap \in Nat /\ NoticeLen \in Nat
  BY ClosetAssumption
<1>2. Min({summary, SummaryCap - 1}) \in Int
  <2>1. PICK most \in Int : most = SummaryCap - 1
    BY <1>1
  <2>2. Min({summary, most}) \in {summary, most}
    BY MinOfTwo
  <2> QED BY <2>1, <2>2
<1>3. PlaintextLen(raw, cfg) \in Int
  BY <1>1 DEF PlaintextLen
<1> QED BY <1>2, <1>3 DEF CompactLen

(* The bound of a closet in the eager seam leaves the reserve.             *)
LEMMA ClosetLeavesReserve ==
  ASSUME NEW budget \in Int, NEW cap \in Int, NEW ratio, NEW raw \in Nat,
         ClosetBudget(budget, cap) > 0
  PROVE  /\ ClosetCap(ClosetBudget(budget, cap), ratio, raw) \in Int
         /\ ClosetCap(ClosetBudget(budget, cap), ratio, raw) <= cap - BodyReserve
<1>1. BodyReserve \in Nat
  BY ClosetAssumption
<1>2. PICK room \in Int : room = cap - BodyReserve
  BY <1>1
<1>3. PICK m \in Int : m = Max({room, 0}) /\ m = IF room >= 0 THEN room ELSE 0
  BY MaxOfTwo
<1>4. PICK b : b = ClosetBudget(budget, cap)
  OBVIOUS
<1>5. b = Min({budget, m})
  BY <1>2, <1>3, <1>4 DEF ClosetBudget
<1>6. b \in Int /\ b <= m
  <2>1. Min({budget, m}) \in {budget, m} /\ Min({budget, m}) <= m
    BY MinOfTwo
  <2> QED BY <1>5, <2>1
<1>7. b > 0
  BY <1>4
<1>8. b <= room
  BY <1>3, <1>6, <1>7
<1>9. PICK share \in Int : share = IF ratio \in 1 .. 99 THEN (raw * ratio) \div 100 ELSE raw
  <2>1. ratio \in 1 .. 99 => (raw * ratio) \div 100 \in Int
    <3>1. ratio \in 1 .. 99 => raw * ratio \in Int
      OBVIOUS
    <3> QED BY <3>1
  <2> QED BY <2>1
<1>10. ClosetCap(b, ratio, raw) = Min({b, share})
  BY <1>6, <1>7, <1>9 DEF ClosetCap
<1>11. Min({b, share}) \in Int /\ Min({b, share}) <= b
  <2>1. Min({b, share}) \in {b, share} /\ Min({b, share}) <= b
    BY <1>6, MinOfTwo
  <2> QED BY <1>6, <2>1
<1>12. PICK c \in Int : c = Min({b, share}) /\ c <= b
  BY <1>11
<1> QED BY <1>2, <1>4, <1>6, <1>8, <1>10, <1>12

(* Body, newline and closet together stay within the cap (eager.go).       *)
LEMMA EagerIs ==
  ASSUME NEW in \in EagerInputs,
         ClosetBudget(in.budget, CompressToolResult(in).cap) > 0
  PROVE  CompressToolResult(in).len <= CompressToolResult(in).cap
<1>1. /\ in.rawLen \in Nat /\ in.summaryLen \in Nat
      /\ in.compact.head \in Int /\ in.compact.tail \in Int
      /\ in.cap \in Int /\ in.budget \in Int
      /\ in.entries \in Seq(Entries)
  BY EntriesAssumption
<1>2. PICK cap : cap = OutputCap(in.cap)
  OBVIOUS
<1>3. cap \in Int
  <2>1. DefaultCap \in Int
    BY ClosetAssumption
  <2>2. Min({in.cap, DefaultCap}) \in {in.cap, DefaultCap}
    BY <1>1, <2>1, MinOfTwo
  <2> QED BY <1>1, <1>2, <2>1, <2>2 DEF OutputCap
<1>4. PICK body \in Int : body = CompactLen(in.rawLen, in.summaryLen, in.compact)
  BY <1>1, CompactLenIs
<1>5. PICK limit : limit = ClosetCap(ClosetBudget(in.budget, cap), in.ratio, in.rawLen)
  OBVIOUS
<1>6. PICK closet : closet = IF in.closet /\ body < in.rawLen
                             THEN RenderCloset(in.entries, limit) ELSE NoCloset("none")
  OBVIOUS
<1>7. PICK bound : bound = Min({body, BodyCap(cap, closet.len)})
  OBVIOUS
<1>8. /\ CompressToolResult(in).cap = cap
      /\ CompressToolResult(in).len = bound + (IF closet.len > 0 THEN closet.len + 1 ELSE 0)
  BY <1>2, <1>4, <1>5, <1>6, <1>7 DEF CompressToolResult
<1>9. limit \in Int /\ limit <= cap - BodyReserve
  BY <1>1, <1>3, <1>5, <1>8, ClosetLeavesReserve
<1>10. closet.len \in Nat /\ (closet.len = 0 \/ closet.len <= limit)
  <2>1. CASE closet = RenderCloset(in.entries, limit) /\ in.entries # <<>>
    BY <1>1, <1>9, <2>1, Rendered
  <2>2. CASE closet = RenderCloset(in.entries, limit) /\ in.entries = <<>>
    BY <2>2 DEF RenderCloset, NoCloset
  <2>3. CASE closet = NoCloset("none")
    BY <2>3 DEF NoCloset
  <2> QED BY <1>6, <2>1, <2>2, <2>3
<1>11. PICK n \in Nat : n = closet.len
  BY <1>10
<1>12. BodyReserve \in Nat /\ BodyReserve > 1
  BY ClosetAssumption
<1>13. n > 0 => n + 1 < cap
  BY <1>3, <1>9, <1>10, <1>11, <1>12
<1>14. PICK room \in Int : room = BodyCap(cap, n) /\ room = IF n > 0 THEN cap - n - 1 ELSE cap
  <2>1. PICK room : room = IF n > 0 THEN cap - n - 1 ELSE cap
    OBVIOUS
  <2>2. room \in Int
    BY <1>3, <2>1
  <2>3. room = BodyCap(cap, n)
    BY <1>13, <2>1 DEF BodyCap
  <2> QED BY <2>1, <2>2, <2>3
<1>15. bound \in Int /\ bound <= room
  <2>1. Min({body, room}) \in {body, room} /\ Min({body, room}) <= room
    BY MinOfTwo
  <2> QED BY <1>7, <1>11, <1>14, <2>1
<1> QED BY <1>3, <1>8, <1>11, <1>14, <1>15

(* A tool result never exceeds its cap, whatever was compacted and         *)
(* whatever its closet holds (CompressToolResult, eager.go).               *)
THEOREM EagerBounded ==
  Spec => []EagerWithinCap
<1>1. ChoiceInv => EagerWithinCap
  <2> SUFFICES ASSUME ChoiceInv, Done("eager"),
                      ClosetBudget(input[1].budget, output[1].cap) > 0
               PROVE  output[1].len <= output[1].cap
    BY DEF EagerWithinCap
  <2>1. PICK in \in EagerInputs : input[1] = in /\ output[1] = CompressToolResult(in)
    BY ResultIs DEF Done
  <2>2. ClosetBudget(in.budget, CompressToolResult(in).cap) > 0
    BY <2>1
  <2>3. CompressToolResult(in).len <= CompressToolResult(in).cap
    BY <2>2, EagerIs
  <2> QED BY <2>1, <2>3
<1> QED BY <1>1, ChoiceIsInvariant, PTL

-----------------------------------------------------------------------------
(* Coordinates that are in a closet once for each lane.                    *)
Gathered(s) ==
    /\ s \in Seq(Entries)
    /\ \A j, k \in 1 .. Len(s) : j # k => s[j].lane # s[k].lane \/ s[j].value # s[k].value

(* Different coordinates are in order one way or the other.                *)
LEMMA GatheredOrder ==
  ASSUME NEW s, Gathered(s), NEW i \in 1 .. Len(s), NEW j \in 1 .. Len(s),
         ~EntryLess(s[i], s[j]), ~EntryLess(s[j], s[i])
  PROVE  i = j
<1>1. s[i] \in Entries /\ s[j] \in Entries
  BY DEF Gathered
<1>2. RowOf(s[i]) = RowOf(s[j])
  BY <1>1, EntryLessIs, LexIs
<1>3. RowOf(s[i])[1] = RowOf(s[j])[1] /\ RowOf(s[i])[5] = RowOf(s[j])[5]
  BY <1>2
<1>4. \A e : RowOf(e)[1] = e.lane /\ RowOf(e)[5] = e.value
  BY DEF RowOf, SortKey
<1>5. s[i].lane = s[j].lane /\ s[i].value = s[j].value
  BY <1>3, <1>4
<1> QED BY <1>5 DEF Gathered

(* The closet of coordinates does not depend on the order they came in.    *)
LEMMA SameSorted ==
  ASSUME NEW s, Gathered(s), NEW p \in Bijection(DOMAIN s, DOMAIN s)
  PROVE  StableSorted(Permuted(s, p)) = StableSorted(s) /\ Permuted(s, p) \in Seq(Entries)
         /\ Len(Permuted(s, p)) = Len(s)
<1>1. s \in Seq(Entries)
  BY DEF Gathered
<1>2. PICK n \in Nat : n = Len(s) /\ DOMAIN s = 1 .. n /\ \A i \in 1 .. n : s[i] \in Entries
  BY <1>1
<1>3. /\ p \in [1 .. n -> 1 .. n]
      /\ \A i \in 1 .. n : \E k \in 1 .. n : p[k] = i
      /\ \A i, j \in 1 .. n : p[i] = p[j] => i = j
  BY <1>2 DEF Bijection, Injection, Surjection, IsInjective
<1>4. PICK q : q = Permuted(s, p)
  OBVIOUS
<1>5. q = [k \in 1 .. n |-> s[p[k]]]
  BY <1>2, <1>4 DEF Permuted
<1>6. q \in Seq(Entries) /\ Len(q) = n /\ \A k \in 1 .. n : q[k] = s[p[k]]
  BY <1>2, <1>3, <1>5
<1>7. PICK o : Arranges(o, Before(s), n) /\ StableSorted(s) = [k \in 1 .. n |-> s[o[k]]]
  BY <1>1, <1>2, StableSortedIs
<1>8. PICK u : Arranges(u, Before(q), n) /\ StableSorted(q) = [k \in 1 .. n |-> q[u[k]]]
  BY <1>6, StableSortedIs
<1>9. IsOrder(Before(s), n) /\ IsOrder(Before(q), n)
  BY <1>1, <1>2, <1>6, StableSortedIs
<1>10. Renames(p, Before(q), Before(s), n)
  <2>1. ASSUME NEW i \in 1 .. n, NEW j \in 1 .. n
        PROVE  j \in Before(q)[i] <=> p[j] \in Before(s)[p[i]]
    <3>1. PICK a, b : a = p[i] /\ b = p[j]
      OBVIOUS
    <3>2. a \in 1 .. n /\ b \in 1 .. n /\ q[i] = s[a] /\ q[j] = s[b]
      BY <1>3, <1>6, <3>1
    <3>3. j \in Before(q)[i] <=> EntryLess(s[b], s[a]) \/ (~EntryLess(s[a], s[b]) /\ j < i)
      BY <1>6, <3>2 DEF Before
    <3>4. b \in Before(s)[a] <=> EntryLess(s[b], s[a]) \/ (~EntryLess(s[a], s[b]) /\ b < a)
      BY <1>2, <3>2 DEF Before
    <3>5. EntryLess(s[a], s[b]) \/ EntryLess(s[b], s[a]) \/ a = b
      BY <1>2, <3>2, GatheredOrder
    <3>6. a = b => i = j
      BY <1>3, <3>1
    <3>7. (i = j => ~(j < i)) /\ (a = b => ~(b < a))
      BY <3>2
    <3> QED BY <3>1, <3>3, <3>4, <3>5, <3>6, <3>7
  <2>2. Before(s) \in [1 .. n -> SUBSET (1 .. n)] /\ Before(q) \in [1 .. n -> SUBSET (1 .. n)]
    BY <1>9 DEF IsOrder
  <2> QED BY <1>3, <2>1, <2>2 DEF Renames
<1>11. \A k \in 1 .. n : p[u[k]] = o[k]
  BY <1>7, <1>8, <1>9, <1>10, SameArrangement
<1>12. u \in [1 .. n -> 1 .. n]
  BY <1>8 DEF Arranges
<1>13. \A k \in 1 .. n : q[u[k]] = s[o[k]]
  BY <1>6, <1>11, <1>12
<1>14. StableSorted(q) = StableSorted(s)
  BY <1>7, <1>8, <1>13
<1> QED BY <1>2, <1>4, <1>6, <1>14

(* In a rendered closet each coordinate is there once, lane after lane.    *)
LEMMA SortedGathered ==
  ASSUME NEW s, Gathered(s), NEW t, t = StableSorted(s)
  PROVE  /\ \A i, j \in 1 .. Len(s) : t[i] = t[j] => i = j
         /\ \A i, j \in 1 .. Len(s) : i < j => t[i].lane <= t[j].lane
<1>1. s \in Seq(Entries)
  BY DEF Gathered
<1>2. PICK n \in Nat : n = Len(s) /\ \A i \in 1 .. n : s[i] \in Entries
  BY <1>1
<1>3. PICK o : Arranges(o, Before(s), n) /\ t = [k \in 1 .. n |-> s[o[k]]]
  BY <1>1, <1>2, StableSortedIs
<1>4. /\ o \in [1 .. n -> 1 .. n] /\ \A i, j \in 1 .. n : o[i] = o[j] => i = j
      /\ \A i, j \in 1 .. n : i < j => o[i] \in Before(s)[o[j]]
  BY <1>3 DEF Arranges
<1>5. ASSUME NEW i \in 1 .. n, NEW j \in 1 .. n, t[i] = t[j] PROVE i = j
  <2>1. s[o[i]] = s[o[j]] /\ o[i] \in 1 .. n /\ o[j] \in 1 .. n
    BY <1>3, <1>4, <1>5
  <2>2. o[i] = o[j]
    BY <1>2, <2>1 DEF Gathered
  <2> QED BY <1>4, <2>2
<1>6. ASSUME NEW i \in 1 .. n, NEW j \in 1 .. n, i < j PROVE t[i].lane <= t[j].lane
  <2>1. PICK a, b : a = o[i] /\ b = o[j]
    OBVIOUS
  <2>2. a \in 1 .. n /\ b \in 1 .. n /\ t[i] = s[a] /\ t[j] = s[b] /\ a \in Before(s)[b]
    BY <1>3, <1>4, <1>6, <2>1
  <2>3. s[a] \in Entries /\ s[b] \in Entries
    BY <1>2, <2>2
  <2>4. EntryLess(s[a], s[b]) \/ ~EntryLess(s[b], s[a])
    BY <1>2, <2>2 DEF Before
  <2>5. ~Lex(RowOf(s[b]), RowOf(s[a]))
    BY <2>3, <2>4, EntryLessIs, LexIs
  <2>6. \A e : RowOf(e)[1] = e.lane
    BY DEF RowOf, SortKey
  <2>7. ~(RowOf(s[b])[1] < RowOf(s[a])[1])
    BY <2>5 DEF Lex
  <2>8. s[a].lane \in Int /\ s[b].lane \in Int
    BY <2>3, EntriesAssumption
  <2> QED BY <2>2, <2>6, <2>7, <2>8
<1> QED BY <1>2, <1>5, <1>6

(* What a closet holds, leaves out and announces, in its order.            *)
LEMMA ClosetIs ==
  ASSUME NEW s, Gathered(s), s # <<>>, NEW cap \in Nat,
         NEW closet, closet = RenderCloset(s, cap)
  PROVE  /\ closet.len <= cap
         /\ closet.evict = "none" <=> ToSet(closet.entries) = ToSet(s)
         /\ closet.note <=> closet.entries # <<>> /\ ToSet(closet.entries) # ToSet(s)
         /\ \A j, k \in DOMAIN closet.entries :
              j < k => closet.entries[j].lane <= closet.entries[k].lane
         /\ \A p \in Bijection(DOMAIN s, DOMAIN s) : RenderCloset(Permuted(s, p), cap) = closet
<1>1. s \in Seq(Entries)
  BY DEF Gathered
<1>2. PICK t : t = StableSorted(s)
  OBVIOUS
<1>3. t \in Seq(Entries) /\ Len(t) = Len(s) /\ ToSet(t) = ToSet(s)
  BY <1>1, <1>2, SortedSeq
<1>4. PICK n \in Nat : n = Len(t) /\ n = Len(s)
  BY <1>3
<1>5. PICK fit : fit = FitCount(t, cap)
  OBVIOUS
<1>6. fit \in 0 .. n
  BY <1>3, <1>4, <1>5, FitCountIs
<1>7. /\ closet.len \in Nat /\ (closet.len = 0 \/ closet.len <= cap)
      /\ closet.entries = SubSeq(t, 1, fit)
      /\ closet.evict = (IF fit = n THEN "none" ELSE "fail")
      /\ closet.note <=> (fit # 0 /\ fit # n)
  <2>1. /\ closet.len \in Nat /\ (closet.len = 0 \/ closet.len <= cap)
        /\ closet.entries = SubSeq(t, 1, fit)
        /\ closet.evict = (IF fit = Len(t) THEN "none" ELSE "fail")
        /\ closet.note <=> (fit # 0 /\ fit # Len(t))
    BY <1>1, <1>2, <1>5, Rendered
  <2> QED BY <1>4, <2>1
<1>8. PICK kept : kept = closet.entries
  OBVIOUS
<1>9. /\ kept \in Seq(Entries) /\ Len(kept) = fit /\ DOMAIN kept = 1 .. fit
      /\ \A i \in 1 .. fit : i \in 1 .. n /\ kept[i] = t[i]
  BY <1>3, <1>4, <1>6, <1>7, <1>8
<1>10. /\ \A i, j \in 1 .. n : t[i] = t[j] => i = j
       /\ \A i, j \in 1 .. n : i < j => t[i].lane <= t[j].lane
  BY <1>2, <1>4, SortedGathered
<1>11. ToSet(kept) = ToSet(s) <=> fit = n
  <2>1. ToSet(kept) = {t[i] : i \in 1 .. fit}
    BY <1>9 DEF ToSet
  <2>2. ToSet(s) = {t[i] : i \in 1 .. n}
    <3>1. DOMAIN t = 1 .. n
      BY <1>3, <1>4
    <3> QED BY <1>3, <3>1 DEF ToSet
  <2>3. CASE fit = n
    BY <2>1, <2>2, <2>3
  <2>4. CASE fit # n
    <3>1. fit + 1 \in 1 .. n
      BY <1>6, <2>4
    <3>2. t[fit + 1] \in ToSet(s)
      BY <2>2, <3>1
    <3>3. \A i \in 1 .. fit : i # fit + 1 /\ i \in 1 .. n
      BY <1>6
    <3>4. t[fit + 1] \notin ToSet(kept)
      BY <1>10, <2>1, <3>1, <3>3
    <3> QED BY <2>4, <3>2, <3>4
  <2> QED BY <2>3, <2>4
<1>12. kept # <<>> <=> fit # 0
  BY <1>9
<1>13. closet.evict = "none" <=> fit = n
  BY <1>7
<1>14. \A j, k \in DOMAIN kept : j < k => kept[j].lane <= kept[k].lane
  BY <1>9, <1>10
<1>15. ASSUME NEW p \in Bijection(DOMAIN s, DOMAIN s)
       PROVE  RenderCloset(Permuted(s, p), cap) = closet
  <2>1. PICK q : q = Permuted(s, p)
    OBVIOUS
  <2>2. StableSorted(q) = StableSorted(s) /\ q \in Seq(Entries) /\ Len(q) = Len(s)
    BY <2>1, SameSorted
  <2>3. q # <<>>
    BY <1>1, <2>2
  <2> QED BY <2>1, <2>2, <2>3 DEF RenderCloset
<1>16. closet.len <= cap
  BY <1>7
<1> QED BY <1>7, <1>8, <1>11, <1>12, <1>13, <1>14, <1>15, <1>16

(* A closet's input gathers coordinates.                                   *)
GatherInv == algorithm.kind = "closet" => Gathered(input)

(* A coordinate is added only to a lane that does not hold it.             *)
LEMMA GatherStep == GatherInv /\ [Next]_vars => GatherInv'
<1> SUFFICES ASSUME GatherInv, [Next]_vars, algorithm'.kind = "closet" PROVE Gathered(input')
  BY DEF GatherInv
<1>1. algorithm' = algorithm
  BY DEF Next, vars, Extend, ExtendJson, Choose, Apply
<1>2. Gathered(input)
  BY <1>1 DEF GatherInv
<1>3. ASSUME NEW e \in Elements, input' = Append(input, e) PROVE Gathered(input')
  <2>1. e \in Entries /\ \A k \in DOMAIN input : input[k].lane # e.lane \/ input[k].value # e.value
    BY <1>1, <1>3 DEF Elements
  <2>2. PICK s, u : s = input /\ u = Append(s, e) /\ u = input'
    BY <1>3
  <2>3. s \in Seq(Entries) /\ \A j, k \in 1 .. Len(s) : j # k => s[j].lane # s[k].lane \/ s[j].value # s[k].value
    BY <1>2, <2>2 DEF Gathered
  <2>4. /\ u \in Seq(Entries) /\ Len(u) = Len(s) + 1 /\ Len(s) \in Nat /\ u[Len(s) + 1] = e
        /\ \A i \in 1 .. Len(s) : u[i] = s[i]
    <3>1. e \in Entries /\ s \in Seq(Entries)
      BY <2>1, <2>3
    <3>2. u = Append(s, e)
      BY <2>2
    <3> QED BY <3>1, <3>2
  <2>5. \A k \in 1 .. Len(s) : s[k].lane # e.lane \/ s[k].value # e.value
    BY <2>1, <2>2, <2>3
  <2>6. \A k \in 1 .. Len(u) : k = Len(s) + 1 \/ k \in 1 .. Len(s)
    BY <2>4
  <2>7. \A j, k \in 1 .. Len(u) : j # k => u[j].lane # u[k].lane \/ u[j].value # u[k].value
    BY <2>3, <2>4, <2>5, <2>6
  <2> QED BY <2>2, <2>4, <2>7 DEF Gathered
<1>4. CASE input' = input
  BY <1>2, <1>4
<1>5. input' = input \/ \E e \in Elements : input' = Append(input, e)
  <2>1. ASSUME NEW kind \in {"openai", "anthropic", "proof", "eager"}, NEW inputs,
               Choose(kind, inputs)
        PROVE  FALSE
    BY <1>1, <2>1 DEF Choose
  <2>2. ASSUME NEW chunk, ExtendJson(chunk) PROVE FALSE
    BY <1>1, <2>2 DEF ExtendJson
  <2>3. CASE UNCHANGED vars \/ Apply
    BY <2>3 DEF vars, Apply
  <2>4. ASSUME NEW e \in Elements, Extend(e)
        PROVE  \E x \in Elements : input' = Append(input, x)
    BY <2>4 DEF Extend
  <2> QED BY <2>1, <2>2, <2>3, <2>4 DEF Next
<1> QED BY <1>3, <1>4, <1>5

(* It is an invariant.                                                     *)
LEMMA GatherIsInvariant == Spec => []GatherInv
<1>1. Init => GatherInv
  BY DEF Init, GatherInv, Gathered
<1> QED BY <1>1, GatherStep, PTL DEF Spec

(* A closet announces what it leaves out, keeps what the user pasted last, *)
(* and holds the same in every order of nomination (RenderCloset).         *)
THEOREM ClosetAccounts ==
  Spec => []ClosetAccountsForAll
<1>1. ChoiceInv /\ GatherInv => ClosetAccountsForAll
  <2> SUFFICES ASSUME ChoiceInv, GatherInv, Done("closet") PROVE ClosetAccountsForAll
    BY DEF ClosetAccountsForAll
  <2>1. algorithm.kind = "closet" /\ output # <<>>
    BY DEF Done
  <2>2. input # <<>> /\ output[1] = RenderCloset(input, algorithm.with)
    <3>1. input # <<>> /\ output[1] = Result
      BY <2>1 DEF ChoiceInv
    <3>2. Result = RenderCloset(input, algorithm.with)
      BY <2>1 DEF Result
    <3> QED BY <3>1, <3>2
  <2>3. algorithm.with \in Nat
    <3>1. algorithm.with \in ClosetCaps
      BY <2>1 DEF ChoiceInv, Sequential, Settings
    <3> QED BY <3>1, EntriesAssumption
  <2>4. Gathered(input)
    BY <2>1 DEF GatherInv
  <2> HIDE DEF Gathered
  <2> QED BY <2>2, <2>3, <2>4, ClosetIs DEF ClosetAccountsForAll
<1> QED BY <1>1, ChoiceIsInvariant, GatherIsInvariant, PTL

-----------------------------------------------------------------------------
(* An input that is built from elements is a sequence of them; a rail      *)
(* begins with a plan.                                                     *)
BuiltInv ==
    /\ algorithm.kind = "recognize" => input \in Seq(Lexemes)
    /\ algorithm.kind = "filter" => input \in Seq(Lines)
    /\ algorithm.kind = "rail" => input \in Seq(RailOps) /\ (input = <<>> \/ input[1].op = "start")
    /\ algorithm.kind = "json" => input \in Seq(Chunks)
    /\ algorithm.kind = "repair" => algorithm.with \in Shapes /\ input \in Seq(Messages(algorithm.with))

(* An element is added at the end.                                         *)
LEMMA BuiltStep == BuiltInv /\ [Next]_vars => BuiltInv'
<1> SUFFICES ASSUME BuiltInv, [Next]_vars PROVE BuiltInv'
  OBVIOUS
<1>1. algorithm' = algorithm
  BY DEF Next, vars, Extend, ExtendJson, Choose, Apply
<1>2. ASSUME NEW e \in Elements, Extend(e) PROVE BuiltInv'
  <2>1. input' = Append(input, e)
    BY <1>2 DEF Extend
  <2>2. ASSUME NEW S, input \in Seq(S), e \in S PROVE input' \in Seq(S)
    BY <2>1, <2>2
  <2>3. algorithm.kind = "recognize" => e \in Lexemes
    BY <1>2 DEF Elements
  <2>4. algorithm.kind = "filter" => e \in Lines
    BY <1>2 DEF Elements
  <2>5. algorithm.kind = "rail" => e \in RailOps /\ (input = <<>> => e.op = "start")
    BY <1>2 DEF Elements
  <2>6. algorithm.kind # "json"
    BY <1>2 DEF Elements
  <2>7. algorithm.kind = "rail" => input'[1].op = "start"
    <3> SUFFICES ASSUME algorithm.kind = "rail" PROVE input'[1].op = "start"
      OBVIOUS
    <3>1. input \in Seq(RailOps) /\ (input = <<>> \/ input[1].op = "start")
      BY DEF BuiltInv
    <3>2. CASE input = <<>>
      <4>1. input'[1] = e
        BY <2>1, <3>2
      <4> QED BY <2>5, <3>2, <4>1
    <3>3. CASE input # <<>>
      <4>1. input'[1] = input[1]
        BY <2>1, <2>5, <3>1, <3>3
      <4> QED BY <3>1, <3>3, <4>1
    <3> QED BY <3>2, <3>3
  <2>8. algorithm.kind = "repair" => e \in Messages(algorithm.with)
    BY <1>2 DEF Elements
  <2> HIDE DEF Lexemes, Lines, RailOps, Messages
  <2> QED BY <1>1, <2>2, <2>3, <2>4, <2>5, <2>6, <2>7, <2>8 DEF BuiltInv
<1>3. ASSUME NEW chunk \in Chunks, ExtendJson(chunk) PROVE BuiltInv'
  <2>1. input' = Append(input, chunk) /\ algorithm.kind = "json"
    BY <1>3 DEF ExtendJson
  <2>2. input' \in Seq(Chunks)
    BY <2>1 DEF BuiltInv
  <2> QED BY <1>1, <2>1, <2>2 DEF BuiltInv
<1>4. ASSUME NEW kind \in {"openai", "anthropic", "proof", "eager"}, NEW inputs,
             Choose(kind, inputs)
      PROVE  BuiltInv'
  BY <1>1, <1>4 DEF BuiltInv, Choose
<1>5. CASE UNCHANGED vars \/ Apply
  BY <1>1, <1>5 DEF BuiltInv, vars, Apply
<1> QED BY <1>2, <1>3, <1>4, <1>5 DEF Next

(* Inputs are sequences of elements, in every state.                       *)
LEMMA BuiltIsInvariant == Spec => []BuiltInv
<1>1. Init => BuiltInv
  BY DEF Init, BuiltInv, Sequential, Settings
<1> QED BY <1>1, BuiltStep, PTL DEF Spec

-----------------------------------------------------------------------------
(* Sanitizing leaves no arguments that do not parse in a call of the       *)
(* OpenAI format, and changes nothing else.                                *)
Sanitizes(m, wire) ==
    /\ Sanitize(m) \in Letters(wire, Ids)
    /\ Sanitize(m).shape = m.shape /\ Sanitize(m).role = m.role
    /\ Sanitize(m).calls = m.calls /\ Sanitize(m).results = m.results

(* It does so to every message.                                            *)
LEMMA SanitizedLetter ==
  ASSUME NEW wire \in Formats, NEW shape \in {"text", wire},
         NEW role \in {"user", "assistant", "tool", "none"},
         NEW calls \in Seq(Ids), NEW results \in Seq(Ids), NEW text \in BOOLEAN,
         NEW args \in {"ok", "bad", "empty"},
         shape = "text" => calls = <<>> /\ results = <<>>,
         role = "tool" => shape = "openai",
         shape = "anthropic" /\ role = "user" => calls = <<>>,
         NEW m, m = [shape |-> shape, role |-> role, calls |-> calls, results |-> results,
                     text |-> text, args |-> args]
  PROVE  Sanitizes(m, wire)
<1>1. PICK b \in {"ok", "bad", "empty"} :
        b = IF shape = "openai" /\ role = "assistant" /\ args = "bad" THEN "empty" ELSE args
  OBVIOUS
<1>2. PICK w : w = [shape |-> shape, role |-> role, calls |-> calls, results |-> results,
                    text |-> text, args |-> b]
  OBVIOUS
<1>3. Sanitize(m) = w
  BY <1>1, <1>2 DEF Sanitize
<1>4. b = "bad" => ~(shape = "openai" /\ role = "assistant")
  BY <1>1
<1>5. w \in Letters(wire, Ids)
  BY <1>2, <1>4 DEF Letters, HasBlocks
<1>6. w.shape = m.shape /\ w.role = m.role /\ w.calls = m.calls /\ w.results = m.results
  BY <1>2
<1> QED BY <1>3, <1>5, <1>6 DEF Sanitizes

(* What repair makes of a client's message first is one of its letters.    *)
LEMMA MessagesAreLetters ==
  ASSUME NEW wire \in Formats, NEW m \in Messages(wire)
  PROVE  Sanitizes(m, wire)
<1>1. /\ \A id \in Ids : <<id>> \in Seq(Ids)
      /\ \A id, other \in Ids : <<id, other>> \in Seq(Ids)
      /\ <<>> \in Seq(Ids)
  OBVIOUS
<1>2. ASSUME NEW role \in {"user", "assistant"}, NEW shape \in {"text", wire} \cap {"text", "anthropic"},
             m = [shape |-> shape, role |-> role, calls |-> <<>>, results |-> <<>>,
                  text |-> TRUE, args |-> "ok"]
      PROVE  Sanitizes(m, wire)
  BY <1>1, <1>2, SanitizedLetter
<1>3. ASSUME NEW ids \in Seq(Ids), NEW args \in {"ok", "bad"},
             NEW role \in {"assistant", "none"},
             m = [shape |-> wire, role |-> role, calls |-> ids, results |-> <<>>,
                  text |-> FALSE, args |-> args]
      PROVE  Sanitizes(m, wire)
  <2>1. PICK shape \in {"text", wire} : shape = wire
    OBVIOUS
  <2>2. shape # "text"
    BY <2>1 DEF Formats
  <2>3. role \in {"user", "assistant", "tool", "none"} /\ role # "tool" /\ role # "user"
    OBVIOUS
  <2>4. PICK none \in Seq(Ids) : none = <<>>
    BY <1>1
  <2>5. args \in {"ok", "bad", "empty"}
    OBVIOUS
  <2>6. m = [shape |-> shape, role |-> role, calls |-> ids, results |-> none,
             text |-> FALSE, args |-> args]
    BY <1>3, <2>1, <2>4
  <2> QED BY <2>2, <2>3, <2>5, <2>6, SanitizedLetter
<1>4. ASSUME NEW id \in Ids, NEW role \in {"user", "tool", "none"},
             role = "tool" => wire = "openai",
             m = [shape |-> wire, role |-> role, calls |-> <<>>, results |-> <<id>>,
                  text |-> FALSE, args |-> "ok"]
      PROVE  Sanitizes(m, wire)
  <2>1. PICK shape \in {"text", wire} : shape = wire
    OBVIOUS
  <2>2. shape # "text"
    BY <2>1 DEF Formats
  <2>3. role \in {"user", "assistant", "tool", "none"} /\ (role = "tool" => shape = "openai")
    BY <1>4, <2>1
  <2>4. PICK none \in Seq(Ids) : none = <<>>
    BY <1>1
  <2>5. PICK answered \in Seq(Ids) : answered = <<id>>
    BY <1>1
  <2>6. m = [shape |-> shape, role |-> role, calls |-> none, results |-> answered,
             text |-> FALSE, args |-> "ok"]
    BY <1>4, <2>1, <2>4, <2>5
  <2> QED BY <2>2, <2>3, <2>4, <2>6, SanitizedLetter
<1>5. \A role : Plain(role) = [shape |-> "text", role |-> role, calls |-> <<>>, results |-> <<>>,
                               text |-> TRUE, args |-> "ok"]
  BY DEF Plain
<1>6. ASSUME NEW ids PROVE \E role \in {"assistant", "none"} :
          CallBy(wire, ids) = [shape |-> wire, role |-> role, calls |-> ids, results |-> <<>>,
                               text |-> FALSE, args |-> "ok"]
  <2>1. PICK role \in {"assistant", "none"} : role = IF wire = "responses" THEN "none" ELSE "assistant"
    OBVIOUS
  <2>2. CallBy(wire, ids) = [Plain(role) EXCEPT !.shape = wire, !.calls = ids, !.text = FALSE]
    BY <2>1 DEF CallBy
  <2>3. CallBy(wire, ids) = [shape |-> wire, role |-> role, calls |-> ids, results |-> <<>>,
                             text |-> FALSE, args |-> "ok"]
    BY <1>5, <2>2
  <2> QED BY <2>3
<1>7. ASSUME NEW id PROVE \E role \in {"user", "tool", "none"} :
          /\ role = "tool" => wire = "openai"
          /\ ResultOf(wire, id) = [shape |-> wire, role |-> role, calls |-> <<>>, results |-> <<id>>,
                                   text |-> FALSE, args |-> "ok"]
  <2>1. PICK role : role = CASE wire = "openai" -> "tool"
                             [] wire = "anthropic" -> "user"
                             [] wire = "responses" -> "none"
    OBVIOUS
  <2>2. role \in {"user", "tool", "none"} /\ (role = "tool" => wire = "openai")
    BY <2>1 DEF Formats
  <2>3. ResultOf(wire, id) = [Plain(role) EXCEPT !.shape = wire, !.results = <<id>>, !.text = FALSE]
    BY <2>1 DEF ResultOf
  <2>4. ResultOf(wire, id) = [shape |-> wire, role |-> role, calls |-> <<>>, results |-> <<id>>,
                              text |-> FALSE, args |-> "ok"]
    BY <1>5, <2>3
  <2> QED BY <2>2, <2>4
<1>8. CASE m \in {Plain("user"), Plain("assistant")}
  BY <1>2, <1>5, <1>8
<1>9. CASE m \in {[Plain("user") EXCEPT !.shape = s] : s \in {wire} \cap {"anthropic"}}
  <2>1. m = [Plain("user") EXCEPT !.shape = wire] /\ wire = "anthropic"
    BY <1>9
  <2>2. m = [shape |-> wire, role |-> "user", calls |-> <<>>, results |-> <<>>,
             text |-> TRUE, args |-> "ok"]
    BY <1>5, <2>1
  <2> QED BY <1>2, <2>1, <2>2
<1>10. ASSUME NEW ids \in Seq(Ids), m = CallBy(wire, ids)
       PROVE  Sanitizes(m, wire)
  BY <1>3, <1>6, <1>10
<1>11. ASSUME NEW id \in Ids, m = ResultOf(wire, id)
       PROVE  Sanitizes(m, wire)
  BY <1>4, <1>7, <1>11
<1>12. ASSUME NEW id \in Ids, m = [CallBy(wire, <<id>>) EXCEPT !.args = "bad"]
       PROVE  Sanitizes(m, wire)
  <2>1. PICK role \in {"assistant", "none"} :
          CallBy(wire, <<id>>) = [shape |-> wire, role |-> role, calls |-> <<id>>, results |-> <<>>,
                                  text |-> FALSE, args |-> "ok"]
    BY <1>6
  <2>2. PICK c : c = CallBy(wire, <<id>>)
    OBVIOUS
  <2>4. m = [shape |-> wire, role |-> role, calls |-> <<id>>, results |-> <<>>,
             text |-> FALSE, args |-> "bad"]
    <3>1. c = [shape |-> wire, role |-> role, calls |-> <<id>>, results |-> <<>>,
               text |-> FALSE, args |-> "ok"]
      BY <2>1, <2>2
    <3>2. m = [c EXCEPT !.args = "bad"]
      BY <1>12, <2>2
    <3> QED BY <3>1, <3>2
  <2>3. PICK ids \in Seq(Ids) : ids = <<id>>
    BY <1>1
  <2> QED BY <1>3, <2>4, <2>3
<1>13. ASSUME m \in {CallBy(wire, pair) : pair \in IF wire = "responses" THEN {} ELSE Ids \X Ids}
       PROVE  \E ids \in Seq(Ids) : m = CallBy(wire, ids)
  <2>1. PICK ids : ids \in Ids \X Ids /\ m = CallBy(wire, ids)
    BY <1>13
  <2>2. ids \in Seq(Ids)
    BY <2>1
  <2> QED BY <2>1, <2>2
<1>14. ASSUME m \in {CallBy(wire, <<id>>) : id \in Ids}
       PROVE  \E ids \in Seq(Ids) : m = CallBy(wire, ids)
  <2>1. PICK id \in Ids : m = CallBy(wire, <<id>>)
    BY <1>14
  <2> QED BY <1>1, <2>1
<1>15. \/ m \in {Plain("user"), Plain("assistant")}
       \/ m \in {CallBy(wire, <<id>>) : id \in Ids}
       \/ m \in {CallBy(wire, pair) : pair \in IF wire = "responses" THEN {} ELSE Ids \X Ids}
       \/ m \in {ResultOf(wire, id) : id \in Ids}
       \/ m \in {[CallBy(wire, <<id>>) EXCEPT !.args = "bad"] : id \in Ids}
       \/ m \in {[Plain("user") EXCEPT !.shape = s] : s \in {wire} \cap {"anthropic"}}
  BY Zenon DEF Messages
<1>16. m \in {ResultOf(wire, id) : id \in Ids} => Sanitizes(m, wire)
  BY <1>11, Zenon
<1>17. m \in {[CallBy(wire, <<id>>) EXCEPT !.args = "bad"] : id \in Ids}
         => Sanitizes(m, wire)
  BY <1>12, Zenon
<1> QED BY <1>8, <1>9, <1>10, <1>13, <1>14, <1>15, <1>16, <1>17, Zenon

(* So is a whole history, which keeps its calls, results and format.       *)
LEMMA HistoriesAreLetters ==
  ASSUME NEW wire \in Formats, NEW messages \in Seq(Messages(wire)),
         NEW clean, clean = Each(messages, Sanitize)
  PROVE  /\ clean \in Seq(Letters(wire, Ids))
         /\ \A x : ResultsAt(clean, x) = ResultsAt(messages, x)
         /\ DetectFormat(clean) = DetectFormat(messages)
<1>1. PICK n \in Nat : n = Len(messages)
  OBVIOUS
<1>2. \A i \in 1 .. n : messages[i] \in Messages(wire)
  BY <1>1
<1>3. clean = [i \in 1 .. n |-> Sanitize(messages[i])]
  BY <1>1 DEF Each
<1>4. ASSUME NEW i \in 1 .. n
      PROVE  /\ clean[i] \in Letters(wire, Ids)
             /\ clean[i].shape = messages[i].shape /\ clean[i].role = messages[i].role
             /\ clean[i].calls = messages[i].calls /\ clean[i].results = messages[i].results
  <2>1. PICK m \in Messages(wire) : m = messages[i]
    BY <1>2
  <2>2. Sanitizes(m, wire)
    BY <2>1, MessagesAreLetters
  <2>3. clean[i] = Sanitize(m)
    BY <1>3, <2>1
  <2> QED BY <2>1, <2>2, <2>3 DEF Sanitizes
<1>5. clean \in Seq(Letters(wire, Ids)) /\ Len(clean) = n
  <2>1. PICK R : R = Letters(wire, Ids)
    OBVIOUS
  <2>2. clean = [i \in 1 .. n |-> clean[i]]
    BY <1>3
  <2>3. \A i \in 1 .. n : clean[i] \in R
    BY <1>4, <2>1
  <2>4. clean \in Seq(R) /\ Len(clean) = n
    BY <2>2, <2>3
  <2> QED BY <2>1, <2>4
<1>6. ASSUME NEW x PROVE ResultsAt(clean, x) = ResultsAt(messages, x)
  <2>1. ASSUME NEW p PROVE p \in ResultsAt(clean, x) <=> p \in ResultsAt(messages, x)
    <3>1. p \in ResultsAt(clean, x) <=>
            \E i \in 1 .. n : \E k \in 1 .. Len(clean[i].results) :
              p = <<i, k>> /\ clean[i].results[k] = x
      BY <1>5, PlaceOf, SMTT(40)
    <3>2. p \in ResultsAt(messages, x) <=>
            \E i \in 1 .. n : \E k \in 1 .. Len(messages[i].results) :
              p = <<i, k>> /\ messages[i].results[k] = x
      BY <1>1, PlaceOf
    <3> QED BY <1>4, <3>1, <3>2, SMTT(40)
  <2> QED BY <2>1
<1>7. \A i \in 1 .. n : Decides(clean[i]) <=> Decides(messages[i])
  BY <1>4 DEF Decides
<1>8. PICK I : I = {i \in 1 .. n : Decides(messages[i])}
  OBVIOUS
<1>9. PICK first : first = IF I # {} THEN Min(I) ELSE 0
  OBVIOUS
<1>10. SelectInSeq(messages, Decides) = first
  BY <1>1, <1>8, <1>9 DEF SelectInSeq
<1>11. SelectInSeq(clean, Decides) = first
  <2>1. I = {i \in 1 .. n : Decides(clean[i])}
    BY <1>7, <1>8
  <2> QED BY <1>5, <1>9, <2>1 DEF SelectInSeq
<1>12. first # 0 => first \in 1 .. n
  BY <1>8, <1>9, FirstOf
<1>13. DetectFormat(clean) = DetectFormat(messages)
  BY <1>4, <1>10, <1>11, <1>12 DEF DetectFormat
<1> QED BY <1>5, <1>6, <1>13

(* What the history was that is repaired.                                  *)
RepairOf(wire, clean) ==
    /\ wire \in Formats /\ wire = algorithm.with
    /\ clean = Each(input, Sanitize) /\ clean \in Seq(Letters(wire, Ids))
    /\ \A x : ResultsAt(clean, x) = ResultsAt(input, x)
    /\ DetectFormat(clean) = DetectFormat(input)
    /\ output[1] = MessageHistoryRepair(input)

(* Every repair that was run is the repair of such a history.              *)
LEMMA RepairedFrom ==
  ASSUME ChoiceInv, BuiltInv, Done("repair")
  PROVE  \E wire, clean : RepairOf(wire, clean)
<1>1. algorithm.kind = "repair" /\ output # <<>>
  BY DEF Done
<1>2. output[1] = MessageHistoryRepair(input)
  <2>1. output[1] = Result
    BY <1>1 DEF ChoiceInv
  <2> QED BY <1>1, <2>1 DEF Result
<1>3. PICK wire \in Formats : wire = algorithm.with
  BY <1>1, ShapesAssumption DEF BuiltInv, Formats
<1>4. input \in Seq(Messages(wire))
  BY <1>1, <1>3 DEF BuiltInv
<1>5. PICK clean : clean = Each(input, Sanitize)
  OBVIOUS
<1>6. /\ clean \in Seq(Letters(wire, Ids))
      /\ \A x : ResultsAt(clean, x) = ResultsAt(input, x)
      /\ DetectFormat(clean) = DetectFormat(input)
  BY <1>4, <1>5, HistoriesAreLetters
<1>7. RepairOf(wire, clean)
  BY <1>2, <1>3, <1>5, <1>6 DEF RepairOf
<1> QED BY <1>7

(* MessageHistoryRepair: calls and results of a repaired history pair up,  *)
(* and no call was given a second result.                                  *)
THEOREM RepairedPaired ==
  Spec => []RepairedIsPaired
<1>1. ChoiceInv /\ BuiltInv => RepairedIsPaired
  <2> SUFFICES ASSUME ChoiceInv, BuiltInv, Done("repair") PROVE RepairedIsPaired
    BY DEF RepairedIsPaired
  <2>1. PICK wire, clean : RepairOf(wire, clean)
    BY RepairedFrom
  <2>2. /\ wire \in Formats /\ wire = algorithm.with
        /\ clean = Each(input, Sanitize) /\ clean \in Seq(Letters(wire, Ids))
        /\ \A x : ResultsAt(clean, x) = ResultsAt(input, x)
        /\ DetectFormat(clean) = DetectFormat(input)
        /\ output[1] = MessageHistoryRepair(input)
    BY <2>1 DEF RepairOf
  <2>3. PICK o : o = output[1].messages
    OBVIOUS
  <2>4. o = MessageHistoryRepair(input).messages
    BY <2>2, <2>3
  <2>5. /\ o \in Seq(Letters(wire, Ids)) /\ WellFormed(o, DetectFormat(o))
        /\ DetectFormat(clean) = wire => \A x : Results(o, x) => Calls(o, x)
    BY <2>2, <2>4, RepairedIs
  <2>6. /\ CallIds(o) \in Seq(Ids) /\ ResultIds(o) \in Seq(Ids)
        /\ \A x : Contains(CallIds(o), x) <=> Calls(o, x)
        /\ \A x : Contains(ResultIds(o), x) <=> Results(o, x)
    <3>1. IsHistory(o, Ids)
      BY <2>5, LettersAreHistory
    <3> QED BY <3>1, IdsAre
  <2>7. ASSUME NEW s \in Seq(Ids), NEW x PROVE x \in ToSet(s) <=> Contains(s, x)
    BY DEF ToSet, Contains
  <2>8. ToSet(CallIds(o)) \subseteq ToSet(ResultIds(o))
    <3>1. \A x : Calls(o, x) => Results(o, x)
      BY <2>5 DEF WellFormed
    <3> QED BY <2>6, <2>7, <3>1
  <2>9. DetectFormat(input) = algorithm.with => ToSet(ResultIds(o)) \subseteq ToSet(CallIds(o))
    BY <2>2, <2>5, <2>6, <2>7
  <2>10. ASSUME NEW id \in Ids PROVE Occurrences(id, o) <= Max({1, Occurrences(id, input)})
    <3>1. PICK now : now = Cardinality(ResultsAt(o, id))
      OBVIOUS
    <3>2. PICK was : was = Cardinality(ResultsAt(clean, id))
      OBVIOUS
    <3>3. now \in Nat /\ was \in Nat
      BY <2>2, <2>5, <3>1, <3>2, ResultsFinite
    <3>4. now <= was \/ now <= 1
      BY <2>2, <2>4, <3>1, <3>2, RepairedOnce
    <3>5. Occurrences(id, o) = now /\ Occurrences(id, input) = was
      BY <2>2, <3>1, <3>2 DEF Occurrences, ResultsAt
    <3>6. Max({1, was}) \in {1, was} /\ Max({1, was}) >= 1 /\ Max({1, was}) >= was
      <4>1. IsFiniteSet({1, was})
        <5>1. IsFiniteSet({1}) /\ {1, was} = {1} \cup {was}
          BY FS_Singleton
        <5> QED BY <5>1, FS_AddElement
      <4>2. {1, was} \subseteq Int /\ {1, was} # {}
        BY <3>3
      <4> QED BY <4>1, <4>2, MaxIs
    <3>7. now <= Max({1, was})
      <4>1. PICK most : most = Max({1, was})
        OBVIOUS
      <4>2. most \in Int /\ most >= 1 /\ most >= was
        BY <3>3, <3>6, <4>1
      <4>3. now <= most
        BY <3>3, <3>4, <4>2
      <4> QED BY <4>1, <4>3
    <3> QED BY <3>5, <3>7
  <2> QED BY <2>3, <2>8, <2>9, <2>10 DEF RepairedIsPaired
<1> QED BY <1>1, ChoiceIsInvariant, BuiltIsInvariant, PTL

(* MessageHistoryRepair: the check of a reduced view repairs it again and  *)
(* asks for none; a repaired history is left as it is.                     *)
THEOREM RepairIdempotent ==
  Spec => []RepairIsIdempotent
<1>1. ChoiceInv /\ BuiltInv => RepairIsIdempotent
  <2> SUFFICES ASSUME ChoiceInv, BuiltInv, Done("repair") PROVE RepairIsIdempotent
    BY DEF RepairIsIdempotent
  <2>1. PICK wire, clean : RepairOf(wire, clean)
    BY RepairedFrom
  <2>2. output[1] = MessageHistoryRepair(input)
    BY <2>1 DEF RepairOf
  <2>3. wire \in Formats /\ Each(input, Sanitize) \in Seq(Letters(wire, Ids))
    BY <2>1 DEF RepairOf
  <2>5. PICK o : o = output[1].messages
    OBVIOUS
  <2>6. MessageHistoryRepair(o) = [messages |-> o, repairs |-> 0]
    BY <2>2, <2>3, <2>5, RepairTwice
  <2>7. [output[1] EXCEPT !.repairs = 0] = [messages |-> o, repairs |-> 0]
    BY <2>2, <2>5 DEF MessageHistoryRepair
  <2> QED BY <2>5, <2>6, <2>7 DEF RepairIsIdempotent
<1> QED BY <1>1, ChoiceIsInvariant, BuiltIsInvariant, PTL

-----------------------------------------------------------------------------
(* A walk over positions: each leads to itself or to a later one.          *)
IsWalk(next, n) == next \in [1 .. n -> 1 .. n] /\ \A i \in 1 .. n : next[i] >= i

(* Where the walk from a position ends.                                    *)
IsEnd(f, next, n) == f = [i \in 1 .. n |-> IF next[i] = i THEN i ELSE f[next[i]]]

(* A walk over positions has an end.                                       *)
LEMMA EndExists ==
  ASSUME NEW n \in Nat, NEW next, IsWalk(next, n)
  PROVE  \E f : IsEnd(f, next, n)
<1> DEFINE Part(f, k) == /\ f \in [1 .. n -> 1 .. n]
                         /\ \A i \in 1 .. n :
                              i > n - k => f[i] = IF next[i] = i THEN i ELSE f[next[i]]
           H == {k \in 0 .. n : \E f : Part(f, k)}
<1>0. \A i \in 1 .. n : next[i] \in 1 .. n /\ next[i] >= i
  BY DEF IsWalk
<1>1. 0 \in H
  <2>1. PICK f : f = [i \in 1 .. n |-> i]
    OBVIOUS
  <2>2. Part(f, 0)
    BY <2>1
  <2> HIDE DEF Part
  <2> QED BY <2>2
<1>2. ASSUME NEW k \in 1 .. n, k - 1 \in H PROVE k \in H
  <2>1. PICK g : Part(g, k - 1)
    BY <1>2
  <2>2. PICK m \in 1 .. n : m = n - k + 1
    OBVIOUS
  <2>3. PICK f : f = [i \in 1 .. n |-> IF i = m /\ next[m] # m THEN g[next[m]] ELSE
                                       IF i = m THEN m ELSE g[i]]
    OBVIOUS
  <2>4. f \in [1 .. n -> 1 .. n]
    BY <1>0, <2>1, <2>3
  <2>5. ASSUME NEW i \in 1 .. n, i > n - k
        PROVE  f[i] = IF next[i] = i THEN i ELSE f[next[i]]
    <3>1. next[i] \in 1 .. n /\ next[i] >= i
      BY <1>0
    <3>2. CASE i = m
      <4>1. next[i] # i => next[i] # m /\ f[next[i]] = g[next[i]]
        BY <2>3, <3>1, <3>2
      <4> QED BY <2>3, <3>1, <3>2, <4>1
    <3>3. CASE i # m
      <4>1. i > n - (k - 1) /\ next[i] # m
        BY <2>2, <2>5, <3>1, <3>3
      <4>2. f[i] = g[i] /\ f[next[i]] = g[next[i]]
        BY <2>3, <3>1, <3>3, <4>1
      <4>3. g[i] = IF next[i] = i THEN i ELSE g[next[i]]
        BY <2>1, <4>1
      <4> QED BY <4>2, <4>3
    <3> QED BY <3>2, <3>3
  <2>6. Part(f, k)
    BY <2>4, <2>5
  <2> HIDE DEF Part
  <2> QED BY <2>6
<1>3. 0 .. n \subseteq H
  <2> HIDE DEF H
  <2> QED BY <1>1, <1>2, Upwards
<1>4. n \in 0 .. n
  OBVIOUS
<1>5. PICK f : Part(f, n)
  <2> HIDE DEF Part
  <2> QED BY <1>3, <1>4
<1>6. f = [i \in 1 .. n |-> IF next[i] = i THEN i ELSE f[next[i]]]
  BY <1>5
<1>7. IsEnd(f, next, n)
  BY <1>6 DEF IsEnd
<1> QED BY <1>7

(* A walk that cannot leave a set of positions ends in it.                 *)
LEMMA EndIn ==
  ASSUME NEW n \in Nat, NEW next, IsWalk(next, n), NEW f, IsEnd(f, next, n),
         NEW G, \A i \in 1 .. n : i \in G => next[i] \in G
  PROVE  \A i \in 1 .. n : i \in G => f[i] \in G /\ f[i] \in 1 .. n /\ f[i] >= i
                                      /\ next[f[i]] = f[i]
<1> DEFINE Ends(i) == i \in G => f[i] \in G /\ f[i] \in 1 .. n /\ f[i] >= i /\ next[f[i]] = f[i]
           H == {k \in 0 .. n : \A i \in 1 .. n : i > n - k => Ends(i)}
<1>0. \A i \in 1 .. n : /\ next[i] \in 1 .. n /\ next[i] >= i
                        /\ f[i] = IF next[i] = i THEN i ELSE f[next[i]]
  BY DEF IsWalk, IsEnd
<1>1. 0 \in H
  OBVIOUS
<1>2. ASSUME NEW k \in 1 .. n, k - 1 \in H PROVE k \in H
  <2> SUFFICES ASSUME NEW i \in 1 .. n, i > n - k PROVE Ends(i)
    OBVIOUS
  <2>0. PICK j : j = next[i]
    OBVIOUS
  <2>1. /\ j \in 1 .. n /\ j >= i /\ f[i] = IF j = i THEN i ELSE f[j]
        /\ (i \in G => j \in G)
    BY <1>0, <2>0
  <2>2. CASE j = i
    <3>1. PICK e : e = f[i] /\ e = i
      BY <2>1, <2>2
    <3>2. next[e] = e
      BY <2>0, <2>2, <3>1
    <3> QED BY <3>1, <3>2
  <2>3. CASE j # i
    <3>1. j > n - (k - 1) /\ f[i] = f[j]
      BY <2>1, <2>3
    <3>2. Ends(j)
      BY <1>2, <2>1, <3>1
    <3>3. PICK e : e = f[i] /\ e = f[j]
      BY <3>1
    <3> QED BY <2>1, <3>2, <3>3
  <2> QED BY <2>2, <2>3
<1>3. 0 .. n \subseteq H
  <2> HIDE DEF H
  <2> QED BY <1>1, <1>2, Upwards
<1>4. n \in H
  <2>1. n \in 0 .. n
    OBVIOUS
  <2> HIDE DEF H
  <2> QED BY <1>3, <2>1
<1> QED BY <1>4

(* A position that is not the argument of an option of sudo, and behind    *)
(* nothing but what may be passed over.                                    *)
NoArgument(toks, k) == ~(k > 2 /\ toks[k - 1] = "-u" /\ toks[k - 2] \in {"sudo", "./sudo", "-E"})
Free(toks, k) == NoArgument(toks, k) /\ \A j \in 1 .. k - 1 : Passed(toks, j)
Bare(toks) == {k \in 1 .. Len(toks) + 1 : k = Len(toks) + 1 \/ Free(toks, k)}

LEMMA BaseIs ==
  /\ \A word : tcBase(word) \in Assignments => word \in Assignments
  /\ \A word \in Assignments : tcBase(word) = word
  /\ tcBase("-u") = "-u" /\ tcBase("-E") = "-E" /\ tcBase("run") = "run"
  /\ \A word : tcBase(word) = "sudo" => word \in {"sudo", "./sudo"}
BY DEF tcBase, Assignments

(* Behind the options of sudo comes a word that is not an argument.        *)
LEMMA PastOptionsIs ==
  ASSUME NEW toks \in Seq(Lexemes), NEW i \in 1 .. Len(toks), tcBase(toks[i]) = "sudo"
  PROVE  /\ PastOptions(toks, i + 1) \in i + 1 .. Len(toks) + 1
         /\ i \in Bare(toks) => PastOptions(toks, i + 1) \in Bare(toks)
<1> PICK l \in Nat : l = Len(toks)
  OBVIOUS
<1> PICK n \in Nat : n = l + 1
  OBVIOUS
<1> DEFINE Skip(k) == IF k > l \/ toks[k] \notin Options THEN k
                      ELSE IF toks[k] = "-u" THEN Min({k + 2, l + 1}) ELSE k + 1
           IsPast(f) == f = [k \in 1 .. Len(toks) + 1 |->
                               IF k > Len(toks) \/ toks[k] \notin Options THEN k
                               ELSE f[IF toks[k] = "-u" THEN Min({k + 2, Len(toks) + 1}) ELSE k + 1]]
<1>1. ASSUME NEW k \in 1 .. n
      PROVE  /\ Skip(k) \in 1 .. n /\ Skip(k) >= k
             /\ Skip(k) = k <=> (k > l \/ toks[k] \notin Options)
             /\ Skip(k) = k \/ (toks[k] = "-u" /\ Skip(k) = k + 2)
                \/ (toks[k] = "-E" /\ Skip(k) = k + 1) \/ Skip(k) = n
  <2>1. Min({k + 2, l + 1}) \in {k + 2, l + 1} /\ Min({k + 2, l + 1}) <= l + 1
    <3>1. PICK a, b \in Int : a = k + 2 /\ b = l + 1
      OBVIOUS
    <3> QED BY <3>1, MinOfTwo
  <2>2. PICK m : m = Min({k + 2, l + 1})
    OBVIOUS
  <2>3. (m = k + 2 \/ m = n) /\ m <= n
    BY <2>1, <2>2
  <2>4. CASE k > l \/ toks[k] \notin Options
    BY <2>4
  <2>5. CASE k <= l /\ toks[k] = "-u"
    <3>1. Skip(k) = m /\ toks[k] \in Options
      BY <2>2, <2>5 DEF Options
    <3>2. k < n
      BY <2>5
    <3> HIDE DEF Skip
    <3> QED BY <2>3, <2>5, <3>1, <3>2
  <2>6. CASE k <= l /\ toks[k] = "-E"
    <3>1. Skip(k) = k + 1 /\ toks[k] \in Options
      BY <2>6 DEF Options
    <3>2. k < n
      BY <2>6
    <3> HIDE DEF Skip
    <3> QED BY <2>6, <3>1, <3>2
  <2> QED BY <2>4, <2>5, <2>6 DEF Options
<1> PICK next : next = [k \in 1 .. n |-> Skip(k)]
  OBVIOUS
<1>2. \A k \in 1 .. n : next[k] = Skip(k)
  OBVIOUS
<1> HIDE DEF Skip
<1>3. IsWalk(next, n)
  BY <1>1, <1>2 DEF IsWalk
<1>4. ASSUME NEW f PROVE IsPast(f) <=> IsEnd(f, next, n)
  <2>1. ASSUME NEW k \in 1 .. n
        PROVE  (IF k > Len(toks) \/ toks[k] \notin Options THEN k
                ELSE f[IF toks[k] = "-u" THEN Min({k + 2, Len(toks) + 1}) ELSE k + 1])
               = IF next[k] = k THEN k ELSE f[next[k]]
    <3>1. next[k] = k <=> (k > l \/ toks[k] \notin Options)
      BY <1>1, <1>2
    <3>2. ~(k > l \/ toks[k] \notin Options) =>
            next[k] = IF toks[k] = "-u" THEN Min({k + 2, l + 1}) ELSE k + 1
      BY <1>2 DEF Skip
    <3> QED BY <3>1, <3>2
  <2> DEFINE A(k) == IF k > Len(toks) \/ toks[k] \notin Options THEN k
                     ELSE f[IF toks[k] = "-u" THEN Min({k + 2, Len(toks) + 1}) ELSE k + 1]
             B(k) == IF next[k] = k THEN k ELSE f[next[k]]
  <2>2. [k \in 1 .. n |-> A(k)] = [k \in 1 .. n |-> B(k)]
    <3>1. \A k \in 1 .. n : A(k) = B(k)
      BY <2>1
    <3> HIDE DEF A, B
    <3> QED BY <3>1
  <2>3. IsPast(f) <=> f = [k \in 1 .. n |-> A(k)]
    OBVIOUS
  <2>4. IsEnd(f, next, n) <=> f = [k \in 1 .. n |-> B(k)]
    BY DEF IsEnd
  <2> HIDE DEF A, B, IsPast
  <2> QED BY <2>2, <2>3, <2>4
<1>5. PICK f : IsEnd(f, next, n) /\ PastOptions(toks, i + 1) = f[i + 1]
  <2> DEFINE past == CHOOSE f : IsPast(f)
  <2>1. \E f : IsPast(f)
    <3> HIDE DEF IsPast
    <3> QED BY <1>3, <1>4, EndExists
  <2>2. IsPast(past)
    <3> HIDE DEF IsPast
    <3> QED BY <2>1
  <2>3. PastOptions(toks, i + 1) = past[i + 1]
    BY DEF PastOptions
  <2> HIDE DEF IsPast, past
  <2> QED BY <1>4, <2>2, <2>3
<1> HIDE DEF IsPast
<1> DEFINE G == {k \in i + 1 .. n : i \in Bare(toks) => k = n \/ Free(toks, k)}
<1>6. ASSUME NEW k \in 1 .. n, k \in G PROVE next[k] \in G
  <2> PICK m : m = next[k]
    OBVIOUS
  <2>1. /\ m \in 1 .. n /\ m >= k
        /\ m = k \/ (toks[k] = "-u" /\ m = k + 2) \/ (toks[k] = "-E" /\ m = k + 1) \/ m = n
    BY <1>1, <1>2
  <2>2. (toks[k] = "-u" /\ m = k + 2) \/ (toks[k] = "-E" /\ m = k + 1) => NoArgument(toks, m)
    BY DEF NoArgument
  <2>3. CASE m = k \/ m = n \/ i \notin Bare(toks)
    BY <1>6, <2>1, <2>3
  <2>4. CASE i \in Bare(toks) /\ m # n /\ toks[k] = "-u" /\ m = k + 2
    <3>1. k # n /\ \A j \in 1 .. k - 1 : Passed(toks, j)
      BY <1>6, <2>1, <2>4 DEF Free
    <3>2. Passed(toks, k)
      BY <2>4, BaseIs DEF Passed, Options
    <3>3. Passed(toks, k + 1)
      BY <2>4 DEF Passed
    <3>4. \A j \in 1 .. m - 1 : j \in 1 .. k - 1 \/ j = k \/ j = k + 1
      BY <2>4
    <3>5. Free(toks, m)
      BY <2>2, <2>4, <3>1, <3>2, <3>3, <3>4 DEF Free
    <3> QED BY <1>6, <2>1, <3>5
  <2>5. CASE i \in Bare(toks) /\ m # n /\ toks[k] = "-E" /\ m = k + 1
    <3>1. k # n /\ \A j \in 1 .. k - 1 : Passed(toks, j)
      BY <1>6, <2>1, <2>5 DEF Free
    <3>2. Passed(toks, k)
      BY <2>5, BaseIs DEF Passed, Options
    <3>3. \A j \in 1 .. m - 1 : j \in 1 .. k - 1 \/ j = k
      BY <2>5
    <3>4. Free(toks, m)
      BY <2>2, <2>5, <3>1, <3>2, <3>3 DEF Free
    <3> QED BY <1>6, <2>1, <3>4
  <2> QED BY <2>1, <2>3, <2>4, <2>5
<1>7. i + 1 \in G /\ i + 1 \in 1 .. n
  <2>1. toks[i] # "-u"
    BY BaseIs
  <2>2. NoArgument(toks, i + 1)
    BY <2>1 DEF NoArgument
  <2>3. Passed(toks, i) /\ (i \in Bare(toks) => \A j \in 1 .. i - 1 : Passed(toks, j))
    BY DEF Passed, Bare, Free
  <2>4. \A j \in 1 .. (i + 1) - 1 : j \in 1 .. i - 1 \/ j = i
    OBVIOUS
  <2> QED BY <2>2, <2>3, <2>4 DEF Free
<1>8. f[i + 1] \in G
  <2> HIDE DEF G
  <2> QED BY <1>3, <1>5, <1>6, <1>7, EndIn, SMTT(40)
<1> QED BY <1>5, <1>8 DEF Bare

(* Behind assignments comes the first word that is none.                   *)
LEMMA PastAssignmentsIs ==
  ASSUME NEW toks \in Seq(Lexemes), NEW i \in 1 .. Len(toks) + 1
  PROVE  /\ PastAssignments(toks, i) \in i .. Len(toks) + 1
         /\ \A k \in i .. PastAssignments(toks, i) - 1 : toks[k] \in Assignments
<1> PICK n \in Nat : n = Len(toks) + 1
  OBVIOUS
<1> PICK S : S = {k \in i .. n : k > Len(toks) \/ toks[k] \notin Assignments}
  OBVIOUS
<1>1. S \subseteq i .. n /\ n \in S
  OBVIOUS
<1>2. IsFiniteSet(S)
  <2>1. IsFiniteSet(i .. n)
    BY FS_Interval
  <2> QED BY <1>1, <2>1, FS_Subset
<1>3. Min(S) \in S /\ \A y \in S : Min(S) <= y
  <2>1. S # {} /\ S \subseteq Int
    BY <1>1
  <2> QED BY <1>2, <2>1, MinIs
<1>4. PICK m : m = PastAssignments(toks, i)
  OBVIOUS
<1>5. m \in S /\ \A y \in S : m <= y
  BY <1>3, <1>4 DEF PastAssignments
<1>6. \A k \in i .. m - 1 : toks[k] \in Assignments
  <2> SUFFICES ASSUME NEW k \in i .. m - 1, toks[k] \notin Assignments PROVE FALSE
    OBVIOUS
  <2>1. k \in S /\ k < m
    BY <1>5
  <2> QED BY <1>5, <2>1
<1> QED BY <1>4, <1>5, <1>6

(* What is skipped before a command leads to a word that is no argument.   *)
LEMMA PastWrapperIs ==
  ASSUME NEW toks \in Seq(Lexemes), NEW i \in 1 .. Len(toks)
  PROVE  /\ PastWrapper(toks, i) \in i .. Len(toks) + 1
         /\ i \in Bare(toks) => PastWrapper(toks, i) \in Bare(toks)
<1> PICK l \in Nat : l = Len(toks)
  OBVIOUS
<1> PICK b : b = tcBase(toks[i])
  OBVIOUS
<1> PICK j : j = PastWrapper(toks, i)
  OBVIOUS
<1>0. ASSUME NEW k \in i + 1 .. Len(toks) + 1, toks[k - 1] # "-u",
             \A m \in i .. k - 1 : Passed(toks, m), i \in Bare(toks)
      PROVE  k \in Bare(toks)
  <2>1. \A m \in 1 .. i - 1 : Passed(toks, m)
    BY <1>0 DEF Bare, Free
  <2>2. \A m \in 1 .. k - 1 : m \in 1 .. i - 1 \/ m \in i .. k - 1
    OBVIOUS
  <2> QED BY <1>0, <2>1, <2>2 DEF Bare, Free, NoArgument
<1>1. CASE b \in Assignments \/ b \in Wrappers
  <2>1. j = i + 1 /\ toks[i] # "-u"
    BY <1>1, BaseIs DEF PastWrapper, Assignments, Wrappers, Runners
  <2>2. \A m \in i .. j - 1 : Passed(toks, m)
    BY <1>1, <2>1 DEF Passed
  <2> QED BY <1>0, <2>1, <2>2
<1>2. CASE b = "env"
  <2>1. j = PastAssignments(toks, i + 1) /\ toks[i] # "-u"
    BY <1>2, BaseIs DEF PastWrapper, Assignments, Wrappers, Runners
  <2>2. i + 1 \in 1 .. Len(toks) + 1
    OBVIOUS
  <2>3. j \in i + 1 .. Len(toks) + 1 /\ \A m \in i + 1 .. j - 1 : toks[m] \in Assignments
    BY <2>1, <2>2, PastAssignmentsIs
  <2>4. \A m \in i .. j - 1 : toks[m] # "-u" /\ Passed(toks, m)
    <3> SUFFICES ASSUME NEW m \in i .. j - 1 PROVE toks[m] # "-u" /\ Passed(toks, m)
      OBVIOUS
    <3>1. CASE m = i
      BY <1>2, <2>1, <3>1 DEF Passed
    <3>2. CASE m # i
      <4>1. toks[m] \in Assignments
        BY <2>3, <3>2
      <4> QED BY <4>1, BaseIs DEF Passed, Assignments
    <3> QED BY <3>1, <3>2
  <2>5. j - 1 \in i .. j - 1
    BY <2>3
  <2> QED BY <1>0, <2>3, <2>4, <2>5
<1>3. CASE b = "sudo"
  <2>1. j = PastOptions(toks, i + 1)
    BY <1>3 DEF PastWrapper, Assignments, Wrappers, Runners
  <2>2. j \in i + 1 .. Len(toks) + 1 /\ (i \in Bare(toks) => j \in Bare(toks))
    BY <1>3, <2>1, PastOptionsIs
  <2> QED BY <2>2
<1>4. CASE b \in Runners /\ i < Len(toks) /\ toks[i + 1] = "run"
  <2>1. j = i + 2
    BY <1>4 DEF PastWrapper, Assignments, Wrappers, Runners
  <2>2. Passed(toks, i) /\ Passed(toks, i + 1)
    BY <1>4, BaseIs DEF Passed
  <2>3. \A m \in i .. j - 1 : m = i \/ m = i + 1
    BY <2>1
  <2>4. j \in i + 1 .. Len(toks) + 1 /\ toks[j - 1] = "run"
    BY <1>4, <2>1
  <2> QED BY <1>0, <2>2, <2>3, <2>4
<1>5. CASE ~ \/ b \in Assignments \/ b = "env" \/ b = "sudo" \/ b \in Wrappers
             \/ (b \in Runners /\ i < Len(toks) /\ toks[i + 1] = "run")
  <2>1. j = i
    BY <1>5 DEF PastWrapper
  <2> QED BY <2>1
<1> QED BY <1>1, <1>2, <1>3, <1>4, <1>5

(* The command comes after all wrappers, and is no argument of theirs.     *)
LEMMA CommandAtIs ==
  ASSUME NEW toks \in Seq(Lexemes)
  PROVE  CommandAt(toks) \in Bare(toks)
<1> PICK l \in Nat : l = Len(toks)
  OBVIOUS
<1> PICK n \in Nat : n = l + 1
  OBVIOUS
<1> DEFINE Skip(k) == IF k > l THEN k ELSE PastWrapper(toks, k)
           IsInner(f) == f = [i \in 1 .. Len(toks) + 1 |->
                                IF i > Len(toks) \/ PastWrapper(toks, i) = i THEN i
                                ELSE f[PastWrapper(toks, i)]]
<1>1. ASSUME NEW k \in 1 .. n
      PROVE  /\ Skip(k) \in 1 .. n /\ Skip(k) >= k
             /\ k \in Bare(toks) => Skip(k) \in Bare(toks)
  <2>1. CASE k > l
    BY <2>1
  <2>2. CASE k <= l
    <3>1. k \in 1 .. Len(toks)
      BY <2>2
    <3>2. PICK j : j = PastWrapper(toks, k)
      OBVIOUS
    <3>3. j \in k .. Len(toks) + 1 /\ (k \in Bare(toks) => j \in Bare(toks))
      BY <3>1, <3>2, PastWrapperIs
    <3>4. Skip(k) = j
      BY <2>2, <3>2
    <3> QED BY <3>3, <3>4
  <2> QED BY <2>1, <2>2
<1> PICK next : next = [k \in 1 .. n |-> Skip(k)]
  OBVIOUS
<1>2. \A k \in 1 .. n : next[k] = Skip(k)
  OBVIOUS
<1> HIDE DEF Skip
<1>3. IsWalk(next, n)
  BY <1>1, <1>2 DEF IsWalk
<1>4. ASSUME NEW f PROVE IsInner(f) <=> IsEnd(f, next, n)
  <2> DEFINE A(k) == IF k > Len(toks) \/ PastWrapper(toks, k) = k THEN k
                     ELSE f[PastWrapper(toks, k)]
             B(k) == IF next[k] = k THEN k ELSE f[next[k]]
  <2>1. \A k \in 1 .. n : A(k) = B(k)
    BY <1>2 DEF Skip
  <2>2. [k \in 1 .. n |-> A(k)] = [k \in 1 .. n |-> B(k)]
    <3> HIDE DEF A, B
    <3> QED BY <2>1
  <2>3. IsInner(f) <=> f = [k \in 1 .. n |-> A(k)]
    OBVIOUS
  <2>4. IsEnd(f, next, n) <=> f = [k \in 1 .. n |-> B(k)]
    BY DEF IsEnd
  <2> HIDE DEF A, B, IsInner
  <2> QED BY <2>2, <2>3, <2>4
<1>5. PICK f : IsEnd(f, next, n) /\ CommandAt(toks) = f[1]
  <2> DEFINE inner == CHOOSE f : IsInner(f)
  <2>1. \E f : IsInner(f)
    <3> HIDE DEF IsInner
    <3> QED BY <1>3, <1>4, EndExists
  <2>2. IsInner(inner)
    <3> HIDE DEF IsInner
    <3> QED BY <2>1
  <2>3. CommandAt(toks) = inner[1]
    BY DEF CommandAt
  <2> HIDE DEF IsInner, inner
  <2> QED BY <1>4, <2>2, <2>3
<1> HIDE DEF IsInner
<1>6. \A k \in 1 .. n : k \in Bare(toks) => next[k] \in Bare(toks)
  BY <1>1, <1>2
<1>7. 1 \in Bare(toks) /\ 1 \in 1 .. n
  BY DEF Bare, Free, NoArgument
<1> QED BY <1>3, <1>5, <1>6, <1>7, EndIn

(* The words within the token limit, and where they end.                   *)
Seen(line) == SubSeq(line, 1, Min({MaxTok, Len(line)}))
EndOf(seen) == Min({Len(seen) + 1} \cup {k \in DOMAIN seen : seen[k] \in Redirect})

(* What the recognizer takes of a line.                                    *)
LEMMA TokenizeIs ==
  ASSUME NEW line \in Seq(Lexemes), NEW end, end = EndOf(Seen(line))
  PROVE  /\ end \in 1 .. Len(line) + 1
         /\ Tokenize(line).words = SubSeq(line, 1, end - 1)
         /\ Tokenize(line).ok => \A k \in 1 .. end - 1 : line[k] \notin Compound
<1> PICK l \in Nat : l = Len(line)
  OBVIOUS
<1>1. MaxTok \in Nat
  BY CondenseAssumption
<1>2. PICK m : m = Min({MaxTok, l})
  OBVIOUS
<1>3. m \in 0 .. l /\ m <= MaxTok /\ (m = l \/ m = MaxTok)
  <2>1. PICK a, b \in Int : a = MaxTok /\ b = l
    BY <1>1
  <2>2. Min({a, b}) \in {a, b} /\ Min({a, b}) <= a /\ Min({a, b}) <= b
    BY MinOfTwo
  <2>3. (m = a \/ m = b) /\ m <= a /\ m <= b
    BY <1>2, <2>1, <2>2
  <2> QED BY <1>1, <2>1, <2>3
<1> PICK seen : seen = Seen(line)
  OBVIOUS
<1>4. Len(seen) = m /\ DOMAIN seen = 1 .. m /\ \A k \in 1 .. m : seen[k] = line[k]
  <2>1. seen = SubSeq(line, 1, m)
    BY <1>2 DEF Seen
  <2>2. m \in 0 .. Len(line)
    BY <1>3
  <2> QED BY <2>1, <2>2
<1> DEFINE A == {Len(seen) + 1} \cup {k \in DOMAIN seen : seen[k] \in Redirect}
           B == {l + 1, MaxTok + 1} \cup {k \in 1 .. l : line[k] \in Redirect}
<1>5. end \in A /\ \A y \in A : end <= y
  <2>1. A \subseteq 1 .. m + 1 /\ A # {}
    BY <1>3, <1>4
  <2>2. A \subseteq Int
    BY <1>3, <2>1
  <2>3. IsFiniteSet(1 .. m + 1)
    BY <1>3, FS_Interval
  <2> HIDE DEF A
  <2>4. IsFiniteSet(A)
    BY <2>1, <2>3, FS_Subset
  <2>5. Min(A) \in A /\ \A y \in A : Min(A) <= y
    BY <2>1, <2>2, <2>4, MinIs
  <2>6. end = Min(A)
    BY DEF A, EndOf
  <2> QED BY <2>5, <2>6
<1>6. PICK stop : stop = Min(B)
  OBVIOUS
<1>7. stop \in B /\ \A y \in B : stop <= y
  <2>1. PICK top \in Nat : top = l + MaxTok + 1
    BY <1>1
  <2>2. B \subseteq 1 .. top /\ B # {}
    BY <1>1, <2>1
  <2>3. IsFiniteSet(1 .. top)
    BY FS_Interval
  <2>4. B \subseteq Int
    BY <2>2
  <2> HIDE DEF B
  <2>5. IsFiniteSet(B)
    BY <2>2, <2>3, FS_Subset
  <2> QED BY <1>6, <2>2, <2>4, <2>5, MinIs
<1>8. end \in 1 .. m + 1 /\ (end = m + 1 \/ line[end] \in Redirect)
      /\ \A k \in 1 .. m : line[k] \in Redirect => end <= k
  BY <1>3, <1>4, <1>5
<1>9. end \in B
  BY <1>1, <1>3, <1>8
<1>10. \A y \in B : end <= y
  <2> SUFFICES ASSUME NEW y \in B PROVE end <= y
    OBVIOUS
  <2>1. y \in Nat
    BY <1>1
  <2>2. CASE y > m
    BY <1>3, <1>8, <2>1, <2>2
  <2>3. CASE y <= m
    BY <1>1, <1>3, <1>8, <2>1, <2>3
  <2> QED BY <1>3, <2>1, <2>2, <2>3
<1>11. end = stop
  <2>1. end \in Int /\ stop \in Int
    BY <1>1, <1>3, <1>7, <1>8
  <2>2. end <= stop /\ stop <= end
    BY <1>7, <1>9, <1>10
  <2> QED BY <2>1, <2>2
<1>12. Tokenize(line).words = SubSeq(line, 1, end - 1)
  BY <1>6, <1>11 DEF Tokenize
<1>13. ASSUME Tokenize(line).ok PROVE \A k \in 1 .. end - 1 : line[k] \notin Compound
  <2>1. PICK r \in 0 .. l : r = Min({end, l}) /\ r >= end - 1
    <3>1. end \in Int /\ end - 1 <= l /\ end >= 1
      BY <1>3, <1>8
    <3>2. PICK a, b \in Int : a = end /\ b = l
      BY <3>1, SMTT(40)
    <3>3. Min({a, b}) \in {a, b} /\ Min({a, b}) <= a /\ Min({a, b}) <= b
      BY MinOfTwo
    <3> PICK r : r = Min({a, b})
      OBVIOUS
    <3>4. (r = a \/ r = b) /\ r <= a /\ r <= b
      BY <3>3
    <3>5. r \in 0 .. l /\ r >= end - 1
      BY <3>1, <3>2, <3>4
    <3> QED BY <3>2, <3>5
  <2>2. PICK looked : looked = SubSeq(line, 1, r)
    OBVIOUS
  <2>3. \A k \in 1 .. Len(looked) : looked[k] \notin Compound
    BY <1>6, <1>11, <1>13, <2>1, <2>2 DEF Tokenize
  <2>4. Len(looked) = r /\ \A k \in 1 .. r : looked[k] = line[k]
    <3>1. r \in 0 .. Len(line)
      BY <2>1
    <3> QED BY <2>2, <3>1
  <2>5. \A k \in 1 .. end - 1 : k \in 1 .. r
    BY <1>3, <1>8, <2>1
  <2> QED BY <2>3, <2>4, <2>5
<1> QED BY <1>3, <1>8, <1>12, <1>13

(* A recognized line runs the command that was recognized.                 *)
LEMMA RecognizedIs ==
  ASSUME NEW line \in Seq(Lexemes), TCRecognize(line).outcome = "recognized",
         NEW end, end = EndOf(Seen(line)), NEW at, at = TCRecognize(line).at
  PROVE  /\ at < end
         /\ \A k \in 1 .. end - 1 : line[k] \notin Compound
         /\ line[at] \in KnownCmds
         /\ \A k \in 1 .. at - 1 : Passed(line, k)
         /\ ~(at > 2 /\ line[at - 1] = "-u" /\ line[at - 2] \in {"sudo", "./sudo", "-E"})
<1>1. /\ end \in 1 .. Len(line) + 1
      /\ Tokenize(line).words = SubSeq(line, 1, end - 1)
      /\ Tokenize(line).ok => \A k \in 1 .. end - 1 : line[k] \notin Compound
  BY TokenizeIs
<1>2. PICK toks : toks = Tokenize(line).words
  OBVIOUS
<1>3. PICK m \in 0 .. Len(line) : m = end - 1
  BY <1>1
<1>4. toks \in Seq(Lexemes) /\ Len(toks) = m /\ \A k \in 1 .. m : toks[k] = line[k]
  <2>1. toks = SubSeq(line, 1, m)
    BY <1>1, <1>2, <1>3
  <2> HIDE DEF Lexemes
  <2> QED BY <2>1
<1>5. /\ at = CommandAt(toks) /\ Tokenize(line).ok /\ ~(at > Len(toks)) /\ toks[at] \in KnownCmds
  BY <1>2 DEF TCRecognize, NotRecognized
<1>6. at \in Bare(toks)
  BY <1>4, <1>5, CommandAtIs
<1>7. at \in 1 .. m /\ NoArgument(toks, at) /\ \A k \in 1 .. at - 1 : Passed(toks, k)
  BY <1>4, <1>5, <1>6 DEF Bare, Free
<1>8. at < end /\ line[at] \in KnownCmds
  BY <1>1, <1>3, <1>4, <1>5, <1>7
<1>9. ~(at > 2 /\ line[at - 1] = "-u" /\ line[at - 2] \in {"sudo", "./sudo", "-E"})
  <2> SUFFICES ASSUME at > 2 PROVE ~(line[at - 1] = "-u" /\ line[at - 2] \in {"sudo", "./sudo", "-E"})
    OBVIOUS
  <2>1. at - 1 \in 1 .. m /\ at - 2 \in 1 .. m
    BY <1>7
  <2>2. toks[at - 1] = line[at - 1] /\ toks[at - 2] = line[at - 2]
    BY <1>4, <2>1
  <2> QED BY <1>7, <2>2 DEF NoArgument
<1>10. \A k \in 1 .. at - 1 : Passed(line, k)
  <2> SUFFICES ASSUME NEW k \in 1 .. at - 1 PROVE Passed(line, k)
    OBVIOUS
  <2>1. toks[k] = line[k] /\ (k > 1 => toks[k - 1] = line[k - 1]) /\ Passed(toks, k)
    BY <1>4, <1>7
  <2> QED BY <2>1 DEF Passed
<1> QED BY <1>1, <1>5, <1>8, <1>9, <1>10

(* No wrapper, option or operator within the token limit is mistaken for   *)
(* the command that is run, however long the line (TCRecognize).           *)
THEOREM RecognizedSimple ==
  Spec => []OnlySimpleCommands
<1>1. ChoiceInv /\ BuiltInv => OnlySimpleCommands
  <2> SUFFICES ASSUME ChoiceInv, BuiltInv, Done("recognize"), output[1].outcome = "recognized"
               PROVE  OnlySimpleCommands
    BY DEF OnlySimpleCommands
  <2>1. output[1] = TCRecognize(input)
    <3>1. output[1] = Result /\ algorithm.kind = "recognize"
      BY DEF ChoiceInv, Done
    <3>2. Result = TCRecognize(input)
      BY <3>1 DEF Result
    <3> QED BY <3>1, <3>2
  <2>2. input \in Seq(Lexemes)
    BY DEF BuiltInv, Done
  <2>3. PICK end, at : end = EndOf(Seen(input)) /\ at = output[1].at
    OBVIOUS
  <2>4. /\ at < end
        /\ \A k \in 1 .. end - 1 : input[k] \notin Compound
        /\ input[at] \in KnownCmds
        /\ \A k \in 1 .. at - 1 : Passed(input, k)
        /\ ~(at > 2 /\ input[at - 1] = "-u" /\ input[at - 2] \in {"sudo", "./sudo", "-E"})
    BY <2>1, <2>2, <2>3, RecognizedIs
  <2> QED BY <2>3, <2>4 DEF OnlySimpleCommands, Seen, EndOf
<1> QED BY <1>1, ChoiceIsInvariant, BuiltIsInvariant, PTL

-----------------------------------------------------------------------------
-----------------------------------------------------------------------------
PlanStep == [title : {"a", "b"}, state : {0, 1, 2}, evidence : {NoEvidence, "e"}]
Plans == Seq(PlanStep)

(* The elements of a document that may have been damaged.                  *)
Elem == [object : BOOLEAN, title : {"a", "b"}, evidence : {NoEvidence, "e"},
         number : BOOLEAN, half : {0, 2, 4} \cup Numbers]

(* What is read of an element.                                             *)
AsStep(e) == [title |-> e.title, state |-> ReadState(e), evidence |-> e.evidence]

(* It is a step.                                                           *)
LEMMA AsStepIs ==
  ASSUME NEW e \in Elem
  PROVE  /\ AsStep(e) \in PlanStep /\ AsStep(e).title = e.title
         /\ AsStep(e).state = ReadState(e)
<1>1. ReadState(e) \in {0, 1, 2}
  <2> PICK h : h = Truncated(e.half)
    OBVIOUS
  <2>1. ReadState(e) = IF e.number /\ h \in {0, 1, 2} THEN h ELSE 0
    BY DEF ReadState, StepPending, StepReserved, StepDone
  <2> QED BY <2>1
<1>2. e.title \in {"a", "b"} /\ e.evidence \in {NoEvidence, "e"}
  BY DEF Elem
<1> QED BY <1>1, <1>2 DEF AsStep, PlanStep

(* An element is read as a step, or skipped.                               *)
LEMMA ReadElementIs ==
  ASSUME NEW t \in Plans, NEW e \in Elem
  PROVE  /\ ReadElement(t, e) = (IF e.object THEN Append(t, AsStep(e)) ELSE t)
         /\ ReadElement(t, e) \in Plans
<1>1. ReadElement(t, e) = IF e.object THEN Append(t, AsStep(e)) ELSE t
  BY DEF ReadElement, AsStep
<1>2. Append(t, AsStep(e)) \in Plans
  BY AsStepIs DEF Plans
<1> QED BY <1>1, <1>2

(* Reading the elements one by one goes through plans.                     *)
LEMMA FoldRead ==
  ASSUME NEW n \in Nat, NEW d \in [1 .. n -> Elem]
  PROVE  \E p \in [0 .. n -> Plans] :
           /\ p[0] = <<>> /\ p[n] = FoldLeft(ReadElement, <<>>, d)
           /\ \A k \in 1 .. n : p[k] = ReadElement(p[k - 1], d[k])
<1> DEFINE step == [x \in 1 .. n |-> [v \in Plans |-> ReadElement(v, d[x])]]
           IsIter(f) == f = [s \in SUBSET (DOMAIN d) |->
                               IF s = {} THEN <<>> ELSE ReadElement(f[s \ {Max(s)}], d[Max(s)])]
<1>0. <<>> \in Plans
  BY DEF Plans
<1>1. PICK f \in [SUBSET (1 .. n) -> Plans] : IsFold(f, n, <<>>, step)
  <2>1. step \in [1 .. n -> [Plans -> Plans]]
    <3>1. ASSUME NEW x \in 1 .. n, NEW v \in Plans PROVE ReadElement(v, d[x]) \in Plans
      BY ReadElementIs
    <3> QED BY <3>1
  <2> HIDE DEF step
  <2> QED BY <1>0, <2>1, FoldExists
<1>2. IsIter(f)
  <2>1. ASSUME NEW s \in SUBSET (1 .. n)
        PROVE f[s] = IF s = {} THEN <<>> ELSE ReadElement(f[s \ {Max(s)}], d[Max(s)])
    <3>1. f[s] = IF s = {} THEN <<>> ELSE step[Max(s)][f[s \ {Max(s)}]]
      <4> HIDE DEF step
      <4> QED BY <1>1 DEF IsFold
    <3>2. CASE s = {}
      BY <3>1, <3>2
    <3>3. CASE s # {}
      <4>1. Max(s) \in 1 .. n
        BY <3>3, MaxOf
      <4>2. f[s \ {Max(s)}] \in Plans
        OBVIOUS
      <4> QED BY <3>1, <3>3, <4>1, <4>2
    <3> QED BY <3>2, <3>3
  <2>2. DOMAIN d = 1 .. n
    OBVIOUS
  <2> HIDE DEF step
  <2> QED BY <2>1, <2>2
<1>3. PICK g : IsIter(g) /\ FoldLeft(ReadElement, <<>>, d) = g[DOMAIN d]
  <2> DEFINE iter == CHOOSE g : IsIter(g)
  <2>1. IsIter(iter)
    <3> HIDE DEF IsIter
    <3> QED BY <1>2
  <2>2. FoldLeft(ReadElement, <<>>, d) = iter[DOMAIN d]
    BY DEF FoldLeft, MapThenFoldSet
  <2> QED BY <2>1, <2>2
<1>4. ASSUME NEW k \in 1 .. n
      PROVE  g[1 .. k] = ReadElement(g[1 .. k - 1], d[k])
  <2>1. /\ 1 .. k \in SUBSET (1 .. n) /\ 1 .. k # {} /\ Max(1 .. k) = k
        /\ (1 .. k) \ {Max(1 .. k)} = 1 .. k - 1
    BY FoldPath
  <2>2. DOMAIN d = 1 .. n
    OBVIOUS
  <2>3. \A s \in SUBSET (1 .. n) :
          g[s] = IF s = {} THEN <<>> ELSE ReadElement(g[s \ {Max(s)}], d[Max(s)])
    BY <1>3, <2>2
  <2>4. g[1 .. k] = ReadElement(g[(1 .. k) \ {Max(1 .. k)}], d[Max(1 .. k)])
    BY <2>1, <2>3
  <2> QED BY <2>1, <2>4
<1>5. g[1 .. 0] = <<>>
  <2>1. 1 .. 0 = {} /\ {} \in SUBSET (DOMAIN d)
    OBVIOUS
  <2> QED BY <1>3, <2>1
<1> DEFINE p == [k \in 0 .. n |-> g[1 .. k]]
           H == {k \in 0 .. n : p[k] \in Plans}
<1>6. p[0] = <<>> /\ \A k \in 1 .. n : p[k] = ReadElement(p[k - 1], d[k])
  BY <1>4, <1>5
<1> HIDE DEF IsIter
<1>7. p[n] = FoldLeft(ReadElement, <<>>, d)
  <2>1. DOMAIN d = 1 .. n
    OBVIOUS
  <2> QED BY <1>3, <2>1
<1>8. 0 .. n \subseteq H
  <2>1. 0 \in H
    BY <1>0, <1>6
  <2>2. ASSUME NEW k \in 1 .. n, k - 1 \in H PROVE k \in H
    <3>1. p[k - 1] \in Plans /\ d[k] \in Elem
      BY <2>2
    <3>2. p[k] \in Plans
      <4> HIDE DEF p
      <4> QED BY <1>6, <3>1, ReadElementIs
    <3> QED BY <3>2
  <2> HIDE DEF H
  <2> QED BY <2>1, <2>2, Upwards
<1>9. p \in [0 .. n -> Plans]
  BY <1>8
<1> HIDE DEF p, H
<1> QED BY <1>6, <1>7, <1>9

(* A damage whose number is read as done.                                  *)
Misread(damage) == damage.to = "number" /\ Truncated(damage.half) = StepDone

(* What is done in one plan is done, under its title, in another, or is    *)
(* what the damage made of the first step.                                 *)
DoneOf(t, s, damage) ==
    \A i \in 1 .. Len(t) : t[i].state = 2 =>
        \/ \E j \in 1 .. Len(s) : s[j].state = 2 /\ s[j].title = t[i].title
        \/ Misread(damage) /\ t[1].title = t[i].title

(* The elements of a plan that was saved, damaged or not.                  *)
ElementsOf(d, s, damage) ==
    /\ d \in [1 .. Len(s) -> Elem]
    /\ \A k \in 1 .. Len(s) :
         /\ d[k].title = s[k].title
         /\ ReadState(d[k]) = 2 => s[k].state = 2 \/ (k = 1 /\ Misread(damage))

(* What is read as done was saved as done, or misread.                     *)
LEMMA ReadIsDone ==
  ASSUME NEW s \in Plans, NEW damage, NEW d, ElementsOf(d, s, damage)
  PROVE  /\ FoldLeft(ReadElement, <<>>, d) \in Plans
         /\ DoneOf(FoldLeft(ReadElement, <<>>, d), s, damage)
<1> PICK n \in Nat : n = Len(s)
  BY DEF Plans
<1>1. d \in [1 .. n -> Elem]
  BY DEF ElementsOf
<1>2. PICK p \in [0 .. n -> Plans] :
        /\ p[0] = <<>> /\ p[n] = FoldLeft(ReadElement, <<>>, d)
        /\ \A k \in 1 .. n : p[k] = ReadElement(p[k - 1], d[k])
  BY <1>1, FoldRead
<1> DEFINE H == {k \in 0 .. n : DoneOf(p[k], s, damage)}
<1>3. 0 \in H
  BY <1>2 DEF DoneOf
<1>4. ASSUME NEW k \in 1 .. n, k - 1 \in H PROVE k \in H
  <2>1. PICK t : t = p[k - 1]
    OBVIOUS
  <2>2. /\ t \in Plans /\ p[k] = ReadElement(t, d[k]) /\ d[k] \in Elem /\ DoneOf(t, s, damage)
        /\ k = 1 => t = <<>>
    BY <1>1, <1>2, <1>4, <2>1
  <2>3. PICK e : e = d[k]
    OBVIOUS
  <2>4. PICK r : r = AsStep(e)
    OBVIOUS
  <2>5. /\ p[k] = (IF e.object THEN Append(t, r) ELSE t)
        /\ r \in PlanStep /\ r.title = e.title /\ r.state = ReadState(e)
    BY <2>2, <2>3, <2>4, ReadElementIs, AsStepIs
  <2>6. e.title = s[k].title /\ (ReadState(e) = 2 => s[k].state = 2 \/ (k = 1 /\ Misread(damage)))
    BY <2>3 DEF ElementsOf
  <2>7. CASE e.object
    <3>1. p[k] = Append(t, r)
      BY <2>5, <2>7
    <3>2. Len(t) \in Nat /\ Len(p[k]) = Len(t) + 1 /\ p[k][Len(t) + 1] = r
          /\ \A i \in 1 .. Len(t) : p[k][i] = t[i]
      BY <2>2, <2>5, <3>1 DEF Plans
    <3>3. ASSUME NEW i \in 1 .. Len(t), p[k][i].state = 2
          PROVE  \/ \E j \in 1 .. Len(s) : s[j].state = 2 /\ s[j].title = p[k][i].title
                 \/ Misread(damage) /\ p[k][1].title = p[k][i].title
      <4>1. p[k][i] = t[i] /\ p[k][1] = t[1]
        BY <3>2
      <4> QED BY <2>2, <3>3, <4>1 DEF DoneOf
    <3>4. ASSUME r.state = 2
          PROVE  \/ \E j \in 1 .. Len(s) : s[j].state = 2 /\ s[j].title = r.title
                 \/ Misread(damage) /\ p[k][1].title = r.title
      <4>1. CASE s[k].state = 2
        BY <2>5, <2>6, <4>1
      <4>2. CASE k = 1 /\ Misread(damage)
        <5>1. p[k][1] = r
          BY <2>2, <3>2, <4>2
        <5> QED BY <4>2, <5>1
      <4> QED BY <2>5, <2>6, <3>4, <4>1, <4>2
    <3>5. \A i \in 1 .. Len(p[k]) : i \in 1 .. Len(t) \/ i = Len(t) + 1
      BY <3>2
    <3>6. DoneOf(p[k], s, damage)
      BY <3>2, <3>3, <3>4, <3>5 DEF DoneOf
    <3> QED BY <3>6
  <2>8. CASE ~e.object
    BY <2>2, <2>5, <2>8
  <2> QED BY <2>7, <2>8
<1>5. 0 .. n \subseteq H
  <2> HIDE DEF H
  <2> QED BY <1>3, <1>4, Upwards
<1>6. n \in H
  BY <1>5
<1> QED BY <1>2, <1>6

(* What is saved of a step, and what is read of that.                      *)
LEMMA ElementIs ==
  ASSUME NEW x \in PlanStep
  PROVE  /\ Element(x) \in Elem /\ Element(x).object /\ Element(x).title = x.title
         /\ ReadState(Element(x)) = x.state /\ AsStep(Element(x)) = x
<1>1. PICK t \in {"a", "b"}, v \in {0, 1, 2}, y \in {NoEvidence, "e"} :
        x = [title |-> t, state |-> v, evidence |-> y]
  BY DEF PlanStep
<1>2. PICK h : h = 2 * v
  OBVIOUS
<1>3. h \in {0, 2, 4} /\ h \div 2 = v
  BY <1>2
<1>4. Element(x) = [object |-> TRUE, title |-> t, evidence |-> y, number |-> TRUE, half |-> h]
  BY <1>1, <1>2 DEF Element
<1>5. Element(x) \in Elem
  BY <1>3, <1>4 DEF Elem
<1>6. Element(x).half = h /\ Element(x).number /\ Element(x).object /\ Element(x).title = t
      /\ Element(x).evidence = y
  BY <1>4
<1>7. ReadState(Element(x)) = v
  BY <1>3, <1>6 DEF ReadState, Truncated, StepPending, StepReserved, StepDone
<1> QED BY <1>1, <1>5, <1>6, <1>7 DEF AsStep

(* A plan is read as it was saved.                                         *)
LEMMA ReadIsWhole ==
  ASSUME NEW s \in Plans, NEW d, d = [k \in DOMAIN s |-> Element(s[k])]
  PROVE  FoldLeft(ReadElement, <<>>, d) = s
<1> PICK n \in Nat : n = Len(s)
  BY DEF Plans
<1>1. DOMAIN s = 1 .. n /\ \A k \in 1 .. n : s[k] \in PlanStep
  BY DEF Plans
<1>2. \A k \in 1 .. n : d[k] = Element(s[k]) /\ d[k] \in Elem
  BY <1>1, ElementIs
<1>3. d \in [1 .. n -> Elem]
  BY <1>1, <1>2
<1>4. PICK p \in [0 .. n -> Plans] :
        /\ p[0] = <<>> /\ p[n] = FoldLeft(ReadElement, <<>>, d)
        /\ \A k \in 1 .. n : p[k] = ReadElement(p[k - 1], d[k])
  BY <1>3, FoldRead
<1> DEFINE H == {k \in 0 .. n : Len(p[k]) = k /\ \A i \in 1 .. k : p[k][i] = s[i]}
<1>5. 0 \in H
  BY <1>4
<1>6. ASSUME NEW k \in 1 .. n, k - 1 \in H PROVE k \in H
  <2>1. PICK t, e : t = p[k - 1] /\ e = d[k]
    OBVIOUS
  <2>2. t \in Plans /\ p[k] = ReadElement(t, e) /\ e \in Elem
    <3>1. d[k] \in Elem /\ p[k - 1] \in Plans
      BY <1>3
    <3> QED BY <1>4, <2>1, <3>1
  <2>3. e.object /\ AsStep(e) = s[k]
    BY <1>1, <1>2, <2>1, ElementIs
  <2>4. p[k] = Append(t, s[k])
    BY <2>2, <2>3, ReadElementIs
  <2>5. Len(t) = k - 1 /\ \A i \in 1 .. k - 1 : t[i] = s[i]
    BY <1>6, <2>1
  <2>6. Len(p[k]) = k /\ p[k][k] = s[k] /\ \A i \in 1 .. k - 1 : p[k][i] = t[i]
    BY <1>1, <2>2, <2>4, <2>5 DEF Plans
  <2>7. \A i \in 1 .. k : i = k \/ i \in 1 .. k - 1
    OBVIOUS
  <2> QED BY <2>5, <2>6, <2>7
<1>7. 0 .. n \subseteq H
  <2> HIDE DEF H
  <2> QED BY <1>5, <1>6, Upwards
<1>8. Len(p[n]) = n /\ \A i \in 1 .. n : p[n][i] = s[i]
  BY <1>7
<1>9. p[n] = s
  <2>1. p[n] \in Seq(PlanStep) /\ s \in Seq(PlanStep)
    BY DEF Plans
  <2> QED BY <1>8, <2>1, SMTT(40)
<1> QED BY <1>4, <1>9

PlanDocs == {NoDocument} \cup {Serialize(s) : s \in Plans}
RailAt == [steps : Plans, ok : BOOLEAN, saved : PlanDocs]

(* Replacing a field of an element.                                        *)
LEMMA SetObject ==
  ASSUME NEW e \in Elem, NEW c \in BOOLEAN, NEW f, f = [e EXCEPT !.object = c]
  PROVE  f \in Elem /\ f.title = e.title /\ f.number = e.number /\ f.half = e.half
BY DEF Elem

LEMMA SetNumber ==
  ASSUME NEW e \in Elem, NEW c \in BOOLEAN, NEW f, f = [e EXCEPT !.number = c]
  PROVE  f \in Elem /\ f.title = e.title /\ f.number = c
BY DEF Elem

LEMMA SetHalf ==
  ASSUME NEW e \in Elem, NEW c \in {0} \cup Numbers, NEW f, f = [e EXCEPT !.half = c]
  PROVE  f \in Elem /\ f.title = e.title /\ f.number = e.number /\ f.half = c
BY DEF Elem

(* A spoiled element keeps its title, and is read as done only if it was   *)
(* done or its number is taken for that.                                   *)
LEMMA SpoiledIs ==
  ASSUME NEW x \in PlanStep, NEW damage \in Damages, NEW f, f = Spoiled(Element(x), damage)
  PROVE  /\ f \in Elem /\ f.title = x.title
         /\ ReadState(f) = 2 => x.state = 2 \/ Misread(damage)
<1> PICK e : e = Element(x)
  OBVIOUS
<1>1. e \in Elem /\ e.title = x.title /\ ReadState(e) = x.state
  BY ElementIs
<1>2. FALSE \in BOOLEAN
  OBVIOUS
<1>3. CASE damage.to = "element"
  <2>1. f = [e EXCEPT !.object = FALSE]
    BY <1>3 DEF Spoiled
  <2>2. f \in Elem /\ f.title = e.title /\ f.number = e.number /\ f.half = e.half
    BY <1>1, <1>2, <2>1, SetObject
  <2>3. ReadState(f) = ReadState(e)
    BY <2>2, Zenon DEF ReadState
  <2> QED BY <1>1, <2>2, <2>3
<1>4. CASE damage.to = "text"
  <2>1. f = [e EXCEPT !.number = FALSE]
    BY <1>4 DEF Spoiled
  <2>2. f \in Elem /\ f.title = e.title /\ f.number = FALSE
    BY <1>1, <1>2, <2>1, SetNumber
  <2>3. ReadState(f) = 0
    BY <2>2 DEF ReadState, StepPending
  <2> QED BY <1>1, <2>2, <2>3
<1>5. CASE damage.to = "number"
  <2>1. PICK c : c = damage.half
    OBVIOUS
  <2>2. f = [e EXCEPT !.half = c]
    BY <1>5, <2>1 DEF Spoiled
  <2>3. c \in {0} \cup Numbers
    BY <2>1 DEF Damages
  <2>4. f \in Elem /\ f.title = e.title /\ f.half = c
    BY <1>1, <2>2, <2>3, SetHalf
  <2>5. ReadState(f) = 2 => Truncated(c) = 2
    BY <2>4 DEF ReadState, StepPending, StepReserved, StepDone
  <2> QED BY <1>1, <1>5, <2>1, <2>4, <2>5 DEF Misread, StepDone
<1>6. CASE damage.to \notin {"element", "text", "number"}
  <2>1. f = e
    BY <1>6 DEF Spoiled
  <2> QED BY <1>1, <2>1
<1> QED BY <1>3, <1>4, <1>5, <1>6

(* Damage leaves the elements of a saved plan, or spoils the first.        *)
LEMMA DamagedIs ==
  ASSUME NEW s \in Plans, NEW damage \in Damages, NEW d, d = Damaged(Serialize(s), damage)
  PROVE  /\ ElementsOf(d.steps, s, damage)
         /\ damage.to = "none" => d.steps = [k \in DOMAIN s |-> Element(s[k])]
<1> PICK n \in Nat : n = Len(s)
  BY DEF Plans
<1>1. DOMAIN s = 1 .. n /\ \A k \in 1 .. n : s[k] \in PlanStep
  BY DEF Plans
<1>2. d.steps = [k \in 1 .. n |-> IF k = 1 THEN Spoiled(Element(s[k]), damage) ELSE Element(s[k])]
  <2>1. PICK e : e = [k \in DOMAIN s |-> Element(s[k])]
    OBVIOUS
  <2>2. Serialize(s).steps = e
    BY <2>1 DEF Serialize
  <2>3. d.steps = [k \in DOMAIN e |-> IF k = 1 THEN Spoiled(e[k], damage) ELSE e[k]]
    BY <2>2 DEF Damaged
  <2>4. DOMAIN e = 1 .. n /\ \A k \in 1 .. n : e[k] = Element(s[k])
    BY <1>1, <2>1
  <2> QED BY <2>3, <2>4
<1>3. ASSUME NEW k \in 1 .. n
      PROVE  /\ d.steps[k] \in Elem /\ d.steps[k].title = s[k].title
             /\ ReadState(d.steps[k]) = 2 => s[k].state = 2 \/ (k = 1 /\ Misread(damage))
  <2>1. s[k] \in PlanStep
    BY <1>1
  <2>2. CASE k = 1
    <3>1. d.steps[k] = Spoiled(Element(s[k]), damage)
      BY <1>2, <2>2
    <3> QED BY <2>1, <2>2, <3>1, SpoiledIs
  <2>3. CASE k # 1
    <3>1. d.steps[k] = Element(s[k])
      BY <1>2, <2>3
    <3> QED BY <2>1, <3>1, ElementIs
  <2> QED BY <2>2, <2>3
<1>4. d.steps \in [1 .. n -> Elem]
  <2>1. d.steps = [k \in 1 .. n |-> d.steps[k]]
    BY <1>2
  <2> QED BY <1>3, <2>1
<1>5. ElementsOf(d.steps, s, damage)
  BY <1>3, <1>4 DEF ElementsOf
<1>6. ASSUME damage.to = "none" PROVE d.steps = [k \in DOMAIN s |-> Element(s[k])]
  <2>1. \A x : Spoiled(x, damage) = x
    BY <1>6 DEF Spoiled
  <2> QED BY <1>1, <1>2, <2>1
<1> QED BY <1>5, <1>6

(* What a restore makes of a plan and a document.                          *)
Restores(r, steps, doc, damage) ==
    /\ r.steps \in Plans /\ r.ok \in BOOLEAN
    /\ ~r.ok => r.steps = steps
    /\ r.ok => doc # NoDocument
    /\ \A s \in Plans : doc = Serialize(s) =>
         /\ r.ok => DoneOf(r.steps, s, damage)
         /\ damage.to = "none" => r.steps = s

(* It is refused, or restores what was saved but for what is spoiled.      *)
LEMMA RestoreIs ==
  ASSUME NEW steps \in Plans, NEW doc \in PlanDocs, NEW damage \in Damages
  PROVE  Restores(RestoreRail(steps, Damaged(doc, damage)), steps, doc, damage)
<1> PICK d, r : d = Damaged(doc, damage) /\ r = RestoreRail(steps, d)
  OBVIOUS
<1>0. r = IF ~d.object \/ d.list = "other" THEN [steps |-> steps, ok |-> FALSE]
          ELSE IF d.list = "absent" THEN [steps |-> <<>>, ok |-> TRUE]
          ELSE [steps |-> FoldLeft(ReadElement, <<>>, d.steps), ok |-> TRUE]
  BY DEF RestoreRail, Accepted, Refused
<1>1. \A s \in Plans : Serialize(s).object /\ Serialize(s).list = "array"
  BY DEF Serialize
<1>2. ~NoDocument.object
  BY DEF NoDocument
<1>3. CASE doc = NoDocument
  <2>1. ~d.object
    BY <1>2, <1>3 DEF Damaged
  <2>2. r = [steps |-> steps, ok |-> FALSE]
    BY <1>0, <2>1
  <2>3. \A s \in Plans : doc # Serialize(s)
    BY <1>1, <1>2, <1>3
  <2>4. r.steps = steps /\ r.ok = FALSE
    BY <2>2
  <2> QED BY <2>3, <2>4 DEF Restores
<1>4. ASSUME NEW s \in Plans, doc = Serialize(s)
      PROVE  /\ r.steps \in Plans /\ r.ok \in BOOLEAN
             /\ ~r.ok => r.steps = steps
             /\ r.ok => DoneOf(r.steps, s, damage)
             /\ damage.to = "none" => r.steps = s
  <2>1. ElementsOf(d.steps, s, damage)
    BY <1>4, DamagedIs
  <2>2. PICK v : v = FoldLeft(ReadElement, <<>>, d.steps)
    OBVIOUS
  <2>3. v \in Plans /\ DoneOf(v, s, damage)
    BY <2>1, <2>2, ReadIsDone
  <2>4. <<>> \in Plans /\ DoneOf(<<>>, s, damage)
    BY DEF Plans, DoneOf
  <2>5. \/ r.ok = FALSE /\ r.steps = steps
        \/ r.ok = TRUE /\ r.steps = <<>>
        \/ r.ok = TRUE /\ r.steps = v
    BY <1>0, <2>2
  <2>6. damage.to = "none" => r.steps = s
    <3> SUFFICES ASSUME damage.to = "none" PROVE r.steps = s
      OBVIOUS
    <3>1. d.object /\ d.list = "array"
      BY <1>1, <1>4 DEF Damaged
    <3>2. d.steps = [k \in DOMAIN s |-> Element(s[k])]
      BY <1>4, DamagedIs
    <3>3. v = s
      BY <2>2, <3>2, ReadIsWhole
    <3>4. r = [steps |-> v, ok |-> TRUE]
      BY <1>0, <2>2, <3>1
    <3> QED BY <3>3, <3>4
  <2> QED BY <2>3, <2>4, <2>5, <2>6
<1>5. CASE doc # NoDocument
  <2>1. PICK s \in Plans : doc = Serialize(s)
    BY <1>5 DEF PlanDocs
  <2>2. r.steps \in Plans /\ r.ok \in BOOLEAN /\ (~r.ok => r.steps = steps)
    BY <1>4, <2>1
  <2> QED BY <1>4, <1>5, <2>2 DEF Restores
<1> QED BY <1>3, <1>5

(* A new plan or another restored one.                                     *)
Replaces(op, r) == op.op \in {"start", "restore"} /\ r.ok

(* The steps of a plan stay what they were, and none loses what it reached.*)
Advances(t, s) ==
    /\ Len(t) = Len(s)
    /\ \A i \in 1 .. Len(s) : /\ t[i].title = s[i].title
                              /\ s[i].state # 0 => t[i].state # 0
                              /\ s[i].state = 2 => t[i].state = 2

(* What an operation on a rail may do.                                     *)
Operates(at, op, r) ==
    /\ r \in RailAt
    /\ r.saved = (IF op.op = "save" THEN Serialize(at.steps) ELSE at.saved)
    /\ op.op = "save" => r.steps = at.steps
    /\ ~Replaces(op, r) => Advances(r.steps, at.steps)
    /\ op.op = "reserve" /\ r.ok =>
         /\ op.step \in 1 .. Len(at.steps)
         /\ at.steps[op.step].state = 0 /\ r.steps[op.step].state # 0
    /\ op.op = "ack" /\ r.ok => op.step \in 1 .. Len(r.steps)
    /\ op.op \in {"reserve", "ack", "save"} =>
         \A i \in 1 .. Len(r.steps) : r.steps[i].state = 2 =>
           \/ at.steps[i].state = 2 /\ at.steps[i].title = r.steps[i].title
           \/ op.op = "ack" /\ r.ok /\ op.step = i
    /\ op.op = "start" => \A i \in 1 .. Len(r.steps) : r.steps[i].state # 2
    /\ op.op = "restore" => Restores(r, at.steps, at.saved, op.damage)

(* A plan advances to itself.                                              *)
LEMMA AdvancesSelf ==
  ASSUME NEW s \in Plans
  PROVE  Advances(s, s)
BY DEF Advances

(* Replacing one step by one that has its title and has come further.      *)
LEMMA AdvanceStep ==
  ASSUME NEW s \in Plans, NEW i \in 1 .. Len(s), NEW x \in PlanStep, x.title = s[i].title,
         s[i].state # 0 => x.state # 0, s[i].state = 2 => x.state = 2,
         NEW t, t = [s EXCEPT ![i] = x]
  PROVE  /\ t \in Plans /\ Advances(t, s) /\ Len(t) = Len(s)
         /\ \A k \in 1 .. Len(s) : t[k] = IF k = i THEN x ELSE s[k]
<1>1. s \in Seq(PlanStep)
  BY DEF Plans
<1>2. t \in Seq(PlanStep) /\ Len(t) = Len(s)
  BY <1>1
<1>3. \A k \in 1 .. Len(s) : t[k] = IF k = i THEN x ELSE s[k]
  BY <1>1
<1>4. Advances(t, s)
  BY <1>2, <1>3 DEF Advances
<1> QED BY <1>2, <1>3, <1>4 DEF Plans

(* A function on positions is a sequence.                                  *)
LEMMA IsSeq ==
  ASSUME NEW S, NEW n \in Nat, NEW f \in [1 .. n -> S]
  PROVE  f \in Seq(S)
OBVIOUS

(* A state of a rail.                                                      *)
LEMMA RailAtIs ==
  ASSUME NEW s \in Plans, NEW ok \in BOOLEAN, NEW doc \in PlanDocs
  PROVE  [steps |-> s, ok |-> ok, saved |-> doc] \in RailAt
BY DEF RailAt

(* Claiming a step.                                                        *)
LEMMA ReserveIs ==
  ASSUME NEW at \in RailAt, NEW i \in 1 .. 2, NEW op, op = [op |-> "reserve", step |-> i]
  PROVE  Operates(at, op, Operate(at, op))
<1> PICK s, r : s = at.steps /\ r = Operate(at, op)
  OBVIOUS
<1>0. s \in Plans /\ at.saved \in PlanDocs /\ DOMAIN s = 1 .. Len(s)
  BY DEF RailAt, Plans
<1>1. \A x, ok : [steps |-> x, ok |-> ok, saved |-> at.saved].saved = at.saved
  OBVIOUS
<1>2. CASE i \notin DOMAIN s \/ s[i].state # 0
  <2>1. r = [steps |-> s, ok |-> FALSE, saved |-> at.saved]
    BY <1>2 DEF Operate, Reserve, Refused, StepPending
  <2>2. r \in RailAt
    BY <1>0, <2>1, RailAtIs, Zenon
  <2>3. Advances(r.steps, s)
    BY <1>0, <2>1, AdvancesSelf
  <2>4. r.ok = FALSE
    BY <2>1
  <2> QED BY <2>1, <2>2, <2>3, <2>4 DEF Operates
<1>3. CASE i \in DOMAIN s /\ s[i].state = 0
  <2>1. PICK x : x = [s[i] EXCEPT !.state = 1]
    OBVIOUS
  <2>2. s[i] \in PlanStep
    BY <1>0, <1>3 DEF Plans
  <2>3. x \in PlanStep /\ x.title = s[i].title /\ x.state = 1
    BY <2>1, <2>2 DEF PlanStep
  <2>4. PICK t : t = [s EXCEPT ![i] = x]
    OBVIOUS
  <2>5. t = [s EXCEPT ![i].state = 1]
    BY <2>1, <2>4
  <2>6. r = [steps |-> t, ok |-> TRUE, saved |-> at.saved]
    <3>1. Reserve(s, i) = [steps |-> t, ok |-> TRUE]
      BY <1>3, <2>5 DEF Reserve, Accepted, StepPending, StepReserved
    <3>2. r = [steps |-> Reserve(s, i).steps, ok |-> Reserve(s, i).ok, saved |-> at.saved]
      BY DEF Operate
    <3>3. Reserve(s, i).steps = t /\ Reserve(s, i).ok = TRUE
      BY <3>1
    <3> QED BY <3>2, <3>3, Zenon
  <2>7. /\ t \in Plans /\ Advances(t, s) /\ Len(t) = Len(s)
        /\ \A k \in 1 .. Len(s) : t[k] = IF k = i THEN x ELSE s[k]
    BY <1>0, <1>3, <2>3, <2>4, AdvanceStep
  <2>8. r \in RailAt
    BY <1>0, <2>6, <2>7, RailAtIs, Zenon
  <2>9. \A k \in 1 .. Len(s) : t[k].state = 2 => s[k].state = 2 /\ s[k].title = t[k].title
    BY <2>3, <2>7
  <2>10. i \in 1 .. Len(s) /\ t[i].state = 1
    BY <1>0, <1>3, <2>3, <2>7
  <2>11. r.steps = t /\ r.saved = at.saved
    BY <2>6
  <2> QED BY <1>3, <2>7, <2>8, <2>9, <2>10, <2>11 DEF Operates
<1> QED BY <1>2, <1>3

(* Acknowledging a step.                                                   *)
LEMMA AckIs ==
  ASSUME NEW at \in RailAt, NEW i \in 1 .. 2, NEW evidence \in {NoEvidence, "e"},
         NEW op, op = [op |-> "ack", step |-> i, evidence |-> evidence]
  PROVE  Operates(at, op, Operate(at, op))
<1> PICK s, r : s = at.steps /\ r = Operate(at, op)
  OBVIOUS
<1>0. s \in Plans /\ at.saved \in PlanDocs /\ DOMAIN s = 1 .. Len(s)
  BY DEF RailAt, Plans
<1>2. CASE i \notin DOMAIN s
  <2>1. r = [steps |-> s, ok |-> FALSE, saved |-> at.saved]
    BY <1>2 DEF Operate, Ack, Refused
  <2>2. r \in RailAt
    BY <1>0, <2>1, RailAtIs, Zenon
  <2>3. Advances(r.steps, s)
    BY <1>0, <2>1, AdvancesSelf
  <2>4. r.ok = FALSE
    BY <2>1
  <2> QED BY <2>1, <2>2, <2>3, <2>4 DEF Operates
<1>3. CASE i \in DOMAIN s
  <2>1. PICK e : e = IF evidence = NoEvidence THEN s[i].evidence ELSE evidence
    OBVIOUS
  <2>2. s[i] \in PlanStep
    BY <1>0, <1>3 DEF Plans
  <2>3. PICK x : x = [title |-> s[i].title, state |-> 2, evidence |-> e]
    OBVIOUS
  <2>4. x \in PlanStep /\ x.title = s[i].title /\ x.state = 2
    BY <2>1, <2>2, <2>3 DEF PlanStep
  <2>5. PICK t : t = [s EXCEPT ![i] = x]
    OBVIOUS
  <2>6. t = [s EXCEPT ![i].state = 2, ![i].evidence = IF evidence = NoEvidence THEN @ ELSE evidence]
    <3>1. PICK y : y = [s[i] EXCEPT !.state = 2]
      OBVIOUS
    <3>2. y.evidence = s[i].evidence /\ y.title = s[i].title /\ y.state = 2
          /\ y = [title |-> s[i].title, state |-> 2, evidence |-> s[i].evidence]
      BY <2>2, <3>1 DEF PlanStep
    <3>3. x = [y EXCEPT !.evidence = IF evidence = NoEvidence THEN @ ELSE evidence]
      BY <2>1, <2>3, <3>2
    <3> QED BY <1>0, <1>3, <2>5, <3>1, <3>3
  <2>7. r = [steps |-> t, ok |-> TRUE, saved |-> at.saved]
    <3>1. Ack(s, i, evidence) = [steps |-> t, ok |-> TRUE]
      BY <1>3, <2>6 DEF Ack, Accepted, StepDone
    <3>2. r = [steps |-> Ack(s, i, evidence).steps, ok |-> Ack(s, i, evidence).ok, saved |-> at.saved]
      BY DEF Operate
    <3>3. Ack(s, i, evidence).steps = t /\ Ack(s, i, evidence).ok = TRUE
      BY <3>1
    <3> QED BY <3>2, <3>3, Zenon
  <2>8. /\ t \in Plans /\ Advances(t, s) /\ Len(t) = Len(s)
        /\ \A k \in 1 .. Len(s) : t[k] = IF k = i THEN x ELSE s[k]
    BY <1>0, <1>3, <2>4, <2>5, AdvanceStep
  <2>9. r \in RailAt
    BY <1>0, <2>7, <2>8, RailAtIs, Zenon
  <2>10. \A k \in 1 .. Len(s) : t[k].state = 2 =>
           k = i \/ (s[k].state = 2 /\ s[k].title = t[k].title)
    BY <2>8
  <2>11. i \in 1 .. Len(t)
    BY <1>0, <1>3, <2>8
  <2>12. r.steps = t /\ r.saved = at.saved /\ r.ok
    BY <2>7
  <2> QED BY <2>8, <2>9, <2>10, <2>11, <2>12 DEF Operates
<1> QED BY <1>2, <1>3

(* Any operation.                                                          *)
LEMMA OperateIs ==
  ASSUME NEW at \in RailAt, NEW op \in RailOps
  PROVE  Operates(at, op, Operate(at, op))
<1> PICK r : r = Operate(at, op)
  OBVIOUS
<1>0. at.steps \in Plans /\ at.saved \in PlanDocs /\ Serialize(at.steps) \in PlanDocs
  BY DEF RailAt, PlanDocs
<1>1. CASE op \in [op : {"start"}, titles : {<<"a", "b">>}]
  <2>1. op = [op |-> "start", titles |-> <<"a", "b">>]
    BY <1>1
  <2>2. PICK t : t = [k \in DOMAIN op.titles |-> RailStep(op.titles[k])]
    OBVIOUS
  <2>3. r = [steps |-> t, ok |-> TRUE, saved |-> at.saved]
    BY <2>1, <2>2 DEF Operate, Start, Accepted
  <2>4. t \in Seq(PlanStep) /\ \A i \in 1 .. Len(t) : t[i].state = 0
    <3>1. DOMAIN op.titles = 1 .. 2 /\ op.titles[1] = "a" /\ op.titles[2] = "b"
      BY <2>1
    <3>2. \A k \in 1 .. 2 : RailStep(op.titles[k]) \in PlanStep /\ RailStep(op.titles[k]).state = 0
      BY <3>1 DEF RailStep, PlanStep, StepPending
    <3>3. t \in [1 .. 2 -> PlanStep] /\ \A k \in 1 .. 2 : t[k].state = 0
      BY <2>2, <3>1, <3>2
    <3>4. Len(t) = 2
      BY <3>3
    <3>5. t \in Seq(PlanStep)
      <4> PICK n \in Nat : n = 2
        OBVIOUS
      <4>1. t \in [1 .. n -> PlanStep]
        BY <3>3
      <4> QED BY <4>1, IsSeq
    <3> QED BY <3>3, <3>4, <3>5
  <2>5. r \in RailAt
    BY <1>0, <2>3, <2>4 DEF RailAt, Plans
  <2>6. op.op = "start" /\ r.steps = t /\ r.saved = at.saved /\ r.ok
    BY <2>1, <2>3
  <2> QED BY <2>4, <2>5, <2>6 DEF Operates, Replaces
<1>2. CASE op \in [op : {"save"}]
  <2>1. op.op = "save"
    BY <1>2
  <2>2. r = [steps |-> at.steps, ok |-> TRUE, saved |-> Serialize(at.steps)]
    BY <2>1 DEF Operate, Accepted
  <2>3. r \in RailAt
    BY <1>0, <2>2 DEF RailAt
  <2>4. Advances(r.steps, at.steps)
    BY <1>0, <2>2, AdvancesSelf
  <2> QED BY <2>1, <2>2, <2>3, <2>4 DEF Operates
<1>3. CASE op \in [op : {"reserve"}, step : 1 .. 2]
  <2>1. PICK i \in 1 .. 2 : op = [op |-> "reserve", step |-> i]
    BY <1>3
  <2> QED BY <2>1, ReserveIs
<1>4. CASE op \in [op : {"ack"}, step : 1 .. 2, evidence : {NoEvidence, "e"}]
  <2>1. PICK i \in 1 .. 2, e \in {NoEvidence, "e"} : op = [op |-> "ack", step |-> i, evidence |-> e]
    BY <1>4
  <2> QED BY <2>1, AckIs
<1>5. CASE op \in [op : {"restore"}, damage : Damages]
  <2>1. op.op = "restore" /\ op.damage \in Damages
    BY <1>5
  <2>2. PICK d : d = RestoreRail(at.steps, Damaged(at.saved, op.damage))
    OBVIOUS
  <2>3. Restores(d, at.steps, at.saved, op.damage)
    BY <1>0, <2>1, <2>2, RestoreIs
  <2>4. r = [steps |-> d.steps, ok |-> d.ok, saved |-> at.saved]
    BY <2>1, <2>2 DEF Operate
  <2>5. r.steps = d.steps /\ r.ok = d.ok /\ r.saved = at.saved
    BY <2>4
  <2>6. r \in RailAt
    BY <1>0, <2>3, <2>4 DEF Restores, RailAt
  <2>7. Restores(r, at.steps, at.saved, op.damage)
    BY <2>3, <2>5 DEF Restores
  <2>8. ~r.ok => Advances(r.steps, at.steps)
    BY <1>0, <2>7, AdvancesSelf DEF Restores
  <2> QED BY <2>1, <2>5, <2>6, <2>7, <2>8 DEF Operates, Replaces
<1> QED BY <1>1, <1>2, <1>3, <1>4, <1>5 DEF RailOps

(* The states of a rail under a sequence of operations.                    *)
IsRail(p, ops, n) ==
    /\ p \in [0 .. n -> RailAt]
    /\ p[0] = [steps |-> <<>>, ok |-> TRUE, saved |-> NoDocument]
    /\ \A k \in 1 .. n : Operates(p[k - 1], ops[k], p[k])

(* What the operations make of a rail.                                     *)
LEMMA OperatedIs ==
  ASSUME NEW ops \in Seq(RailOps), NEW n, n = Len(ops)
  PROVE  \E p : IsRail(p, ops, n) /\ \A k \in 1 .. n : Operated(ops)[k] = p[k]
<1>0. n \in Nat /\ \A k \in 1 .. n : ops[k] \in RailOps
  <2> HIDE DEF RailOps
  <2> QED OBVIOUS
<1> PICK base : base = [steps |-> <<>>, ok |-> TRUE, saved |-> NoDocument]
  OBVIOUS
<1>1. base \in RailAt
  <2>1. <<>> \in Plans /\ NoDocument \in PlanDocs /\ TRUE \in BOOLEAN
    BY DEF Plans, PlanDocs
  <2> QED BY <2>1, RailAtIs, Zenon
<1>2. ASSUME NEW k \in 1 .. n, NEW v \in RailAt PROVE Operate(v, ops[k]) \in RailAt
  BY <1>0, OperateIs DEF Operates
<1> DEFINE step == [k \in 1 .. n |-> [v \in RailAt |-> Operate(v, ops[k])]]
           IsAfter(f) == f = [k \in 0 .. n |-> IF k = 0 THEN base ELSE Operate(f[k - 1], ops[k])]
<1>3. PICK f \in [0 .. n -> RailAt] : IsPath(f, n, base, step)
  <2>1. step \in [1 .. n -> [RailAt -> RailAt]]
    BY <1>2
  <2> HIDE DEF step
  <2> QED BY <1>0, <1>1, <2>1, PathExists
<1>4. IsAfter(f)
  <2>1. ASSUME NEW k \in 0 .. n
        PROVE  f[k] = IF k = 0 THEN base ELSE Operate(f[k - 1], ops[k])
    <3>1. f[k] = IF k = 0 THEN base ELSE step[k][f[k - 1]]
      <4> HIDE DEF step
      <4> QED BY <1>3 DEF IsPath
    <3>2. k # 0 => k \in 1 .. n /\ f[k - 1] \in RailAt
      BY <1>0
    <3> QED BY <3>1, <3>2
  <2> HIDE DEF step
  <2> QED BY <2>1
<1>5. PICK g : IsAfter(g) /\ Operated(ops) = [k \in 1 .. n |-> g[k]]
  <2> DEFINE after == CHOOSE g : IsAfter(g)
  <2>1. IsAfter(after)
    <3> HIDE DEF IsAfter
    <3> QED BY <1>4
  <2>2. Operated(ops) = [k \in 1 .. n |-> after[k]]
    BY DEF Operated
  <2> HIDE DEF IsAfter
  <2> QED BY <2>1, <2>2
<1>10. g[0] = base /\ \A k \in 1 .. n : g[k] = Operate(g[k - 1], ops[k])
  <2>1. \A k \in 0 .. n : g[k] = IF k = 0 THEN base ELSE Operate(g[k - 1], ops[k])
    BY <1>5
  <2>2. \A k \in 1 .. n : k \in 0 .. n /\ k # 0
    OBVIOUS
  <2> HIDE DEF IsAfter, step
  <2> QED BY <1>0, <2>1, <2>2, SMTT(40)
<1> DEFINE H == {k \in 0 .. n : g[k] \in RailAt}
<1>6. 0 .. n \subseteq H
  <2>1. 0 \in H
    BY <1>0, <1>1, <1>10
  <2>2. ASSUME NEW k \in 1 .. n, k - 1 \in H PROVE k \in H
    <3>1. g[k] = Operate(g[k - 1], ops[k])
      BY <1>10
    <3> QED BY <1>2, <2>2, <3>1
  <2> HIDE DEF H
  <2> QED BY <1>0, <2>1, <2>2, Upwards
<1>7. g \in [0 .. n -> RailAt] /\ g[0] = base
  <2>1. \A k \in 0 .. n : g[k] \in RailAt
    BY <1>6
  <2>2. g = [k \in 0 .. n |-> g[k]]
    BY <1>5
  <2>3. g[0] = base
    BY <1>10
  <2> QED BY <2>1, <2>2, <2>3
<1>8. ASSUME NEW k \in 1 .. n PROVE Operates(g[k - 1], ops[k], g[k])
  <2>1. g[k] = Operate(g[k - 1], ops[k])
    BY <1>10
  <2>2. g[k - 1] \in RailAt
    BY <1>0, <1>7
  <2> QED BY <1>0, <2>1, <2>2, OperateIs
<1>9. IsRail(g, ops, n)
  BY <1>7, <1>8 DEF IsRail
<1> HIDE DEF IsAfter
<1> QED BY <1>5, <1>9

(* A step that is claimed twice was replaced in between.                   *)
LEMMA ClaimedOnce ==
  ASSUME NEW n \in Nat, NEW ops, NEW p, IsRail(p, ops, n),
         NEW k \in 1 .. n, NEW l \in 1 .. n, NEW i, k < l,
         ops[k].op = "reserve", ops[k].step = i, p[k].ok,
         ops[l].op = "reserve", ops[l].step = i, p[l].ok
  PROVE  \E j \in k + 1 .. l - 1 : Replaces(ops[j], p[j])
<1> SUFFICES ASSUME \A j \in k + 1 .. l - 1 : ~Replaces(ops[j], p[j]) PROVE FALSE
  OBVIOUS
<1>0. \A j \in 1 .. n : Operates(p[j - 1], ops[j], p[j]) /\ p[j].steps \in Plans
  <2>1. \A j \in 1 .. n : Operates(p[j - 1], ops[j], p[j]) /\ p[j] \in RailAt
    BY DEF IsRail
  <2> QED BY <2>1 DEF RailAt
<1> PICK m \in Nat : m = l - 1 - k
  OBVIOUS
<1> DEFINE H == {h \in 0 .. m : /\ i \in 1 .. Len(p[k + h].steps)
                                /\ p[k + h].steps[i].state # 0}
<1>1. 0 \in H
  <2>1. /\ i \in 1 .. Len(p[k - 1].steps) /\ p[k].steps[i].state # 0
        /\ Advances(p[k].steps, p[k - 1].steps)
    BY <1>0 DEF Operates, Replaces
  <2>2. i \in 1 .. Len(p[k].steps) /\ k + 0 = k
    BY <2>1 DEF Advances
  <2> QED BY <2>1, <2>2
<1>2. ASSUME NEW h \in 1 .. m, h - 1 \in H PROVE h \in H
  <2>1. PICK j \in k + 1 .. l - 1 : j = k + h
    OBVIOUS
  <2>2. j \in 1 .. n /\ k + (h - 1) = j - 1
    BY <2>1
  <2>3. i \in 1 .. Len(p[j - 1].steps) /\ p[j - 1].steps[i].state # 0
    BY <1>2, <2>2
  <2>4. Advances(p[j].steps, p[j - 1].steps)
    BY <1>0, <2>1, <2>2 DEF Operates
  <2>5. i \in 1 .. Len(p[j].steps) /\ p[j].steps[i].state # 0
    BY <2>3, <2>4 DEF Advances
  <2> QED BY <2>1, <2>5
<1>3. m \in H
  <2>1. 0 .. m \subseteq H
    <3> HIDE DEF H
    <3> QED BY <1>1, <1>2, Upwards
  <2> HIDE DEF H
  <2> QED BY <2>1
<1>4. k + m = l - 1
  OBVIOUS
<1>5. p[l - 1].steps[i].state # 0
  BY <1>3, <1>4
<1>6. p[l - 1].steps[i].state = 0
  BY <1>0 DEF Operates
<1> QED BY <1>5, <1>6

(* The document that is kept is that of the last save.                     *)
LEMMA SavedLast ==
  ASSUME NEW n \in Nat, NEW ops, NEW p, IsRail(p, ops, n), NEW m \in 0 .. n,
         NEW j \in 1 .. m, ops[j].op = "save", \A h \in j + 1 .. m : ops[h].op # "save"
  PROVE  p[m].saved = Serialize(p[j].steps)
<1>0. \A h \in 1 .. n : Operates(p[h - 1], ops[h], p[h])
  BY DEF IsRail
<1> PICK q \in Nat : q = m - j
  OBVIOUS
<1> DEFINE H == {h \in 0 .. q : p[j + h].saved = Serialize(p[j].steps)}
<1>1. 0 \in H
  <2>1. p[j].saved = Serialize(p[j - 1].steps) /\ p[j].steps = p[j - 1].steps
    BY <1>0 DEF Operates
  <2> QED BY <2>1
<1>2. ASSUME NEW h \in 1 .. q, h - 1 \in H PROVE h \in H
  <2>1. PICK g \in j + 1 .. m : g = j + h
    OBVIOUS
  <2>2. g \in 1 .. n /\ j + (h - 1) = g - 1
    BY <2>1
  <2>3. p[g].saved = p[g - 1].saved
    BY <1>0, <2>1, <2>2 DEF Operates
  <2>4. p[g - 1].saved = Serialize(p[j].steps)
    BY <1>2, <2>2
  <2> QED BY <2>1, <2>3, <2>4
<1>3. q \in H
  <2>1. 0 .. q \subseteq H
    <3> HIDE DEF H
    <3> QED BY <1>1, <1>2, Upwards
  <2> QED BY <2>1
<1>4. j + q = m
  OBVIOUS
<1> QED BY <1>3, <1>4

(* A step under this title was acknowledged, or misread as done.           *)
Acked(p, ops, m, title) ==
    \E j \in 1 .. m :
        \/ ops[j].op = "ack" /\ p[j].ok /\ p[j].steps[ops[j].step].title = title
        \/ /\ ops[j].op = "restore" /\ p[j].ok /\ Misread(ops[j].damage)
           /\ p[j].steps # <<>> /\ p[j].steps[1].title = title

(* Each step that is done in a plan was acknowledged, or misread.          *)
AllAcked(p, ops, m, s) == \A i \in 1 .. Len(s) : s[i].state = 2 => Acked(p, ops, m, s[i].title)

(* In the rail and in the saved document a step is done only if it was     *)
(* acknowledged, or misread.                                               *)
LEMMA DoneIsAcked ==
  ASSUME NEW n \in Nat, NEW ops, NEW p, IsRail(p, ops, n), NEW m \in 0 .. n,
         \A k \in 1 .. n : ops[k].op \in {"start", "reserve", "ack", "save", "restore"}
  PROVE  AllAcked(p, ops, m, p[m].steps)
<1>0. \A h \in 1 .. n : Operates(p[h - 1], ops[h], p[h])
  BY DEF IsRail
<1>1. \A h \in 0 .. n : p[h].steps \in Plans
  <2>1. \A h \in 0 .. n : p[h] \in RailAt
    BY DEF IsRail
  <2> QED BY <2>1 DEF RailAt
<1> DEFINE DocAcked(h) == p[h].saved # NoDocument =>
                            \E s \in Plans : p[h].saved = Serialize(s) /\ AllAcked(p, ops, h, s)
           H == {h \in 0 .. n : AllAcked(p, ops, h, p[h].steps) /\ DocAcked(h)}
<1>2. 0 \in H
  <2>1. p[0].saved = NoDocument /\ p[0].steps = <<>>
    BY DEF IsRail
  <2> QED BY <2>1 DEF AllAcked
<1>3. ASSUME NEW k \in 1 .. n, k - 1 \in H PROVE k \in H
  <2> PICK a, b, op : a = p[k - 1] /\ b = p[k] /\ op = ops[k]
    OBVIOUS
  <2>1. Operates(a, op, b) /\ AllAcked(p, ops, k - 1, a.steps) /\ DocAcked(k - 1)
    BY <1>0, <1>3
  <2>2. \A title : Acked(p, ops, k - 1, title) => Acked(p, ops, k, title)
    BY DEF Acked
  <2>3. \A s : AllAcked(p, ops, k - 1, s) => AllAcked(p, ops, k, s)
    BY <2>2 DEF AllAcked
  <2>4. AllAcked(p, ops, k, b.steps)
    <3>1. CASE op.op \in {"reserve", "ack", "save"}
      <4>1. ASSUME NEW i \in 1 .. Len(b.steps), b.steps[i].state = 2
            PROVE  Acked(p, ops, k, b.steps[i].title)
        <5>1. CASE a.steps[i].state = 2 /\ a.steps[i].title = b.steps[i].title
          <6>1. i \in 1 .. Len(a.steps)
            BY <2>1, <3>1 DEF Operates, Advances, Replaces
          <6> QED BY <2>1, <2>2, <5>1, <6>1 DEF AllAcked
        <5>2. CASE op.op = "ack" /\ b.ok /\ op.step = i
          BY <5>2 DEF Acked
        <5> QED BY <2>1, <3>1, <4>1, <5>1, <5>2 DEF Operates
      <4> QED BY <4>1 DEF AllAcked
    <3>2. CASE op.op = "start"
      BY <2>1, <3>2 DEF Operates, AllAcked
    <3>3. CASE op.op = "restore"
      <4>1. Restores(b, a.steps, a.saved, op.damage)
        BY <2>1, <3>3 DEF Operates
      <4>2. CASE ~b.ok
        BY <2>1, <2>3, <4>1, <4>2 DEF Restores
      <4>3. CASE b.ok
        <5>1. a.saved # NoDocument
          BY <4>1, <4>3 DEF Restores
        <5>2. PICK s \in Plans : a.saved = Serialize(s) /\ AllAcked(p, ops, k - 1, s)
          BY <2>1, <5>1
        <5>3. DoneOf(b.steps, s, op.damage) /\ b.steps \in Plans
          BY <4>1, <4>3, <5>2 DEF Restores
        <5>4. ASSUME NEW i \in 1 .. Len(b.steps), b.steps[i].state = 2
              PROVE  Acked(p, ops, k, b.steps[i].title)
          <6>1. CASE \E j \in 1 .. Len(s) : s[j].state = 2 /\ s[j].title = b.steps[i].title
            BY <2>3, <5>2, <6>1 DEF AllAcked
          <6>2. CASE Misread(op.damage) /\ b.steps[1].title = b.steps[i].title
            <7>1. b.steps # <<>>
              BY <5>3, <5>4
            <7> QED BY <3>3, <4>3, <6>2, <7>1 DEF Acked
          <6> QED BY <5>3, <5>4, <6>1, <6>2 DEF DoneOf
        <5> QED BY <5>4 DEF AllAcked
      <4> QED BY <4>2, <4>3
    <3> QED BY <3>1, <3>2, <3>3
  <2>5. DocAcked(k)
    <3>1. CASE op.op = "save"
      <4>1. b.saved = Serialize(a.steps) /\ a.steps \in Plans
        BY <1>1, <2>1, <3>1 DEF Operates
      <4> QED BY <2>1, <2>3, <4>1
    <3>2. CASE op.op # "save"
      <4>1. b.saved = a.saved
        BY <2>1, <3>2 DEF Operates
      <4> QED BY <2>1, <2>3, <4>1
    <3> QED BY <3>1, <3>2
  <2> QED BY <2>4, <2>5
<1>4. m \in H
  <2>1. 0 .. n \subseteq H
    <3> HIDE DEF H
    <3> QED BY <1>2, <1>3, Upwards
  <2> QED BY <2>1
<1> QED BY <1>4

(* The next step is the first that is not done.                            *)
LEMMA NextStepIs ==
  ASSUME NEW s \in Plans
  PROVE  NextStep(s) = 0 <=> \A i \in 1 .. Len(s) : s[i].state = 2
<1> PICK I : I = {i \in 1 .. Len(s) : s[i].state # 2}
  OBVIOUS
<1>1. NextStep(s) = IF I # {} THEN Min(I) ELSE 0
  BY DEF NextStep, SelectInSeq, StepDone
<1>2. I # {} => Min(I) \in I
  <2>1. IsFiniteSet(I)
    <3>1. Len(s) \in Nat
      BY DEF Plans
    <3> QED BY <3>1, IntervalCount, FS_Subset
  <2>2. I \subseteq Int
    OBVIOUS
  <2> QED BY <2>1, <2>2, MinIs
<1>3. \A i \in I : i # 0
  OBVIOUS
<1> QED BY <1>1, <1>2, <1>3

(* TaskRail: Reserve, Ack, Next, Serialize and RestoreRail keep the plan   *)
(* over any number of operations and damaged documents: a step is claimed  *)
(* once, done work stays done, and only acknowledged work is done, or a    *)
(* step whose number was damaged to one that truncates to done.            *)
THEOREM PlanOutlives ==
  Spec => []PlanSurvives
<1>1. ChoiceInv /\ BuiltInv => PlanSurvives
  <2> SUFFICES ASSUME ChoiceInv, BuiltInv, Done("rail") PROVE PlanSurvives
    BY DEF PlanSurvives
  <2>1. output[1] = Operated(input)
    <3>1. output[1] = Result /\ algorithm.kind = "rail"
      BY DEF ChoiceInv, Done
    <3>2. Result = Operated(input)
      BY <3>1 DEF Result
    <3> QED BY <3>1, <3>2
  <2>2. input \in Seq(RailOps) /\ input # <<>> /\ input[1].op = "start"
    BY DEF BuiltInv, ChoiceInv, Done
  <2> PICK n \in Nat : n = Len(input)
    BY <2>2
  <2>3. PICK p : IsRail(p, input, n) /\ \A k \in 1 .. n : Operated(input)[k] = p[k]
    BY <2>2, OperatedIs
  <2> PICK at : at = output[1]
    OBVIOUS
  <2>4. \A k \in 1 .. n : at[k] = p[k]
    BY <2>1, <2>3
  <2>5. \A k \in 1 .. n : Operates(p[k - 1], input[k], p[k])
    BY <2>3 DEF IsRail
  <2>6. \A k \in 0 .. n : p[k].steps \in Plans
    <3>1. \A k \in 0 .. n : p[k] \in RailAt
      BY <2>3 DEF IsRail
    <3> QED BY <3>1 DEF RailAt
  <2>7. \A k \in 1 .. n : input[k].op \in {"start", "reserve", "ack", "save", "restore"}
    <3>1. \A k \in 1 .. n : input[k] \in RailOps
      <4> HIDE DEF RailOps
      <4> QED BY <2>2
    <3>2. \A op \in RailOps : op.op \in {"start", "reserve", "ack", "save", "restore"}
      BY DEF RailOps
    <3> QED BY <3>1, <3>2
  <2>8. \A k \in 1 .. n : DOMAIN p[k].steps = 1 .. Len(p[k].steps) /\ Len(p[k].steps) \in Nat
    BY <2>6 DEF Plans
  <2> DEFINE all == 1 .. Len(input)
             Replaced(k) == input[k].op \in {"start", "restore"} /\ at[k].ok
             Claimed(k, i) == input[k].op = "reserve" /\ input[k].step = i /\ at[k].ok
             saves(k) == {j \in 1 .. k - 1 : input[j].op = "save"}
             Acknowledged(j, title) ==
                 /\ input[j].op = "ack" /\ at[j].ok
                 /\ at[j].steps[input[j].step].title = title
             MisreadAs(j, title) ==
                 /\ input[j].op = "restore" /\ at[j].ok
                 /\ input[j].damage.to = "number" /\ Truncated(input[j].damage.half) = StepDone
                 /\ at[j].steps # <<>> /\ at[j].steps[1].title = title
  <2>9. ASSUME NEW k \in all, NEW l \in all, NEW i \in 1 .. 2, k < l, Claimed(k, i), Claimed(l, i)
        PROVE  \E j \in k + 1 .. l - 1 : Replaced(j)
    <3>1. k \in 1 .. n /\ l \in 1 .. n /\ at[k] = p[k] /\ at[l] = p[l]
      BY <2>4
    <3>2. PICK j \in k + 1 .. l - 1 : Replaces(input[j], p[j])
      BY <2>3, <2>9, <3>1, ClaimedOnce
    <3>3. at[j] = p[j]
      BY <2>4, <3>1
    <3> QED BY <3>2, <3>3 DEF Replaces
  <2>10. ASSUME NEW k \in all \ {1}, ~Replaced(k), NEW i \in DOMAIN at[k - 1].steps,
                at[k - 1].steps[i].state = StepDone
         PROVE  at[k].steps[i].state = StepDone
    <3>1. k \in 1 .. n /\ k - 1 \in 1 .. n /\ at[k] = p[k] /\ at[k - 1] = p[k - 1]
      BY <2>4
    <3>2. Advances(p[k].steps, p[k - 1].steps)
      BY <2>5, <2>10, <3>1 DEF Operates, Replaces
    <3>3. i \in 1 .. Len(p[k - 1].steps)
      BY <2>8, <2>10, <3>1
    <3> QED BY <2>10, <3>1, <3>2, <3>3 DEF Advances, StepDone
  <2>11. ASSUME NEW k \in all, input[k].op = "restore"
         PROVE  /\ ~at[k].ok => at[k].steps = at[k - 1].steps
                /\ input[k].damage.to = "none" /\ saves(k) # {} =>
                     at[k].steps = at[Max(saves(k))].steps
    <3>1. k \in 1 .. n /\ k - 1 \in 1 .. n /\ at[k] = p[k] /\ at[k - 1] = p[k - 1]
      BY <2>2, <2>4, <2>11
    <3>2. Restores(p[k], p[k - 1].steps, p[k - 1].saved, input[k].damage)
      BY <2>5, <2>11, <3>1 DEF Operates
    <3>3. ASSUME input[k].damage.to = "none", saves(k) # {}
          PROVE  at[k].steps = at[Max(saves(k))].steps
      <4> PICK S : S = saves(k)
        OBVIOUS
      <4>1. IsFiniteSet(S) /\ S \subseteq Int /\ S # {}
        <5>1. k - 1 \in Nat /\ S \subseteq 1 .. k - 1
          BY <3>1
        <5>2. IsFiniteSet(S)
          <6> HIDE DEF saves
          <6> QED BY <5>1, IntervalCount, FS_Subset
        <5> QED BY <3>3, <5>1, <5>2
      <4>2. PICK j : j = Max(S) /\ j \in S /\ \A y \in S : j >= y
        BY <4>1, MaxIs
      <4>3. j \in 1 .. k - 1 /\ input[j].op = "save"
            /\ \A h \in j + 1 .. k - 1 : input[h].op # "save"
        <5>1. S = {h \in 1 .. k - 1 : input[h].op = "save"}
          OBVIOUS
        <5>2. j \in 1 .. k - 1 /\ input[j].op = "save"
          BY <4>2, <5>1
        <5>3. ASSUME NEW h \in j + 1 .. k - 1, input[h].op = "save" PROVE FALSE
          <6>1. h \in 1 .. k - 1 /\ h > j
            BY <5>2
          <6>2. h \in S
            BY <5>1, <5>3, <6>1
          <6>3. j >= h
            BY <4>2, <6>2
          <6> QED BY <5>2, <6>1, <6>3
        <5> QED BY <5>2, <5>3, SMTT(40)
      <4>4. p[k - 1].saved = Serialize(p[j].steps)
        <5>1. k - 1 \in 0 .. n
          BY <3>1
        <5> QED BY <2>3, <4>3, <5>1, SavedLast
      <4>5. j \in 1 .. n /\ at[j] = p[j] /\ p[j].steps \in Plans
        BY <2>4, <2>6, <3>1, <4>3
      <4>6. p[k].steps = p[j].steps
        BY <3>2, <3>3, <4>4, <4>5 DEF Restores
      <4> QED BY <3>1, <4>2, <4>5, <4>6
    <3> QED BY <3>1, <3>2, <3>3 DEF Restores
  <2>12. ASSUME NEW k \in all, NEW i \in DOMAIN at[k].steps, at[k].steps[i].state = StepDone
         PROVE  \E j \in 1 .. k : \/ Acknowledged(j, at[k].steps[i].title)
                                  \/ MisreadAs(j, at[k].steps[i].title)
    <3>1. k \in 1 .. n /\ k \in 0 .. n /\ at[k] = p[k]
      BY <2>4
    <3>2. AllAcked(p, input, k, p[k].steps)
      BY <2>3, <2>7, <3>1, DoneIsAcked
    <3>3. i \in 1 .. Len(p[k].steps) /\ p[k].steps[i].state = 2
      BY <2>8, <2>12, <3>1 DEF StepDone
    <3> PICK title : title = p[k].steps[i].title
      OBVIOUS
    <3>4. PICK j \in 1 .. k :
            \/ input[j].op = "ack" /\ p[j].ok /\ p[j].steps[input[j].step].title = title
            \/ /\ input[j].op = "restore" /\ p[j].ok /\ Misread(input[j].damage)
               /\ p[j].steps # <<>> /\ p[j].steps[1].title = title
      BY <3>2, <3>3 DEF AllAcked, Acked
    <3>5. at[j] = p[j]
      BY <2>4, <3>1
    <3>6. Acknowledged(j, title) \/ MisreadAs(j, title)
      BY <3>4, <3>5 DEF Misread
    <3> QED BY <3>1, <3>6
  <2>13. ASSUME NEW k \in all
         PROVE  NextStep(at[k].steps) = 0 <=>
                  \A i \in DOMAIN at[k].steps : at[k].steps[i].state = StepDone
    <3>1. k \in 1 .. n /\ at[k] = p[k] /\ p[k].steps \in Plans
      BY <2>4, <2>6
    <3>2. NextStep(p[k].steps) = 0 <=> \A i \in 1 .. Len(p[k].steps) : p[k].steps[i].state = 2
      BY <3>1, NextStepIs
    <3> QED BY <2>8, <3>1, <3>2 DEF StepDone
  <2> HIDE DEF all, Replaced, Claimed, saves, Acknowledged, MisreadAs
  <2>14. /\ \A k, l \in all, i \in 1 .. 2 :
              k < l /\ Claimed(k, i) /\ Claimed(l, i) => \E j \in k + 1 .. l - 1 : Replaced(j)
         /\ \A k \in all \ {1} : ~Replaced(k) =>
              \A i \in DOMAIN at[k - 1].steps :
                  at[k - 1].steps[i].state = StepDone => at[k].steps[i].state = StepDone
         /\ \A k \in all : input[k].op = "restore" =>
              /\ ~at[k].ok => at[k].steps = at[k - 1].steps
              /\ input[k].damage.to = "none" /\ saves(k) # {} =>
                   at[k].steps = at[Max(saves(k))].steps
         /\ \A k \in all : \A i \in DOMAIN at[k].steps :
              at[k].steps[i].state = StepDone =>
                \E j \in 1 .. k : \/ Acknowledged(j, at[k].steps[i].title)
                                  \/ MisreadAs(j, at[k].steps[i].title)
         /\ \A k \in all : NextStep(at[k].steps) = 0 <=>
              \A i \in DOMAIN at[k].steps : at[k].steps[i].state = StepDone
    BY <2>9, <2>10, <2>11, <2>12, <2>13
  <2> QED BY <2>14 DEF PlanSurvives, all, Replaced, Claimed, saves, Acknowledged, MisreadAs
<1> QED BY <1>1, ChoiceIsInvariant, BuiltIsInvariant, PTL

-----------------------------------------------------------------------------
Tables == Seq(Entry)

(* Adding a coordinate to a table gives a table.                           *)
LEMMA AddIn ==
  ASSUME NEW t \in Tables, NEW k \in Coords
  PROVE  Add(t, k) \in Tables
<1>1. t \in Seq(Entry) /\ [key |-> k, last |-> -1] \in Entry
  BY RecallAssumption DEF Tables, Entry
<1> QED BY <1>1 DEF Add, Tables

(* Adding coordinates one by one goes through tables.                      *)
LEMMA FoldAdd ==
  ASSUME NEW base \in Tables, NEW n \in Nat, NEW found \in [1 .. n -> Coords]
  PROVE  \E p \in [0 .. n -> Tables] :
           /\ p[0] = base /\ p[n] = FoldLeft(Add, base, found)
           /\ \A k \in 1 .. n : p[k] = Add(p[k - 1], found[k])
<1> DEFINE step == [x \in 1 .. n |-> [v \in Tables |-> Add(v, found[x])]]
           IsIter(f) == f = [s \in SUBSET (DOMAIN found) |->
                               IF s = {} THEN base ELSE Add(f[s \ {Max(s)}], found[Max(s)])]
<1>1. PICK f \in [SUBSET (1 .. n) -> Tables] : IsFold(f, n, base, step)
  <2>1. step \in [1 .. n -> [Tables -> Tables]]
    BY AddIn
  <2> HIDE DEF step
  <2> QED BY <2>1, FoldExists
<1>2. IsIter(f)
  <2>1. ASSUME NEW s \in SUBSET (1 .. n)
        PROVE f[s] = IF s = {} THEN base ELSE Add(f[s \ {Max(s)}], found[Max(s)])
    <3>1. f[s] = IF s = {} THEN base ELSE step[Max(s)][f[s \ {Max(s)}]]
      <4> HIDE DEF step
      <4> QED BY <1>1 DEF IsFold
    <3>2. CASE s = {}
      BY <3>1, <3>2
    <3>3. CASE s # {}
      <4>1. Max(s) \in 1 .. n
        BY <3>3, MaxOf
      <4>2. f[s \ {Max(s)}] \in Tables
        OBVIOUS
      <4> QED BY <3>1, <3>3, <4>1, <4>2
    <3> QED BY <3>2, <3>3
  <2>2. DOMAIN found = 1 .. n
    OBVIOUS
  <2> HIDE DEF step
  <2> QED BY <2>1, <2>2
<1>3. PICK g : IsIter(g) /\ FoldLeft(Add, base, found) = g[DOMAIN found]
  <2> DEFINE iter == CHOOSE g : IsIter(g)
  <2>1. IsIter(iter)
    <3> HIDE DEF IsIter
    <3> QED BY <1>2
  <2>2. FoldLeft(Add, base, found) = iter[DOMAIN found]
    BY DEF FoldLeft, MapThenFoldSet
  <2> QED BY <2>1, <2>2
<1>4. ASSUME NEW k \in 1 .. n
      PROVE  g[1 .. k] = Add(g[1 .. k - 1], found[k])
  <2>1. /\ 1 .. k \in SUBSET (1 .. n) /\ 1 .. k # {} /\ Max(1 .. k) = k
        /\ (1 .. k) \ {Max(1 .. k)} = 1 .. k - 1
    BY FoldPath
  <2>2. DOMAIN found = 1 .. n
    OBVIOUS
  <2>3. \A s \in SUBSET (1 .. n) :
          g[s] = IF s = {} THEN base ELSE Add(g[s \ {Max(s)}], found[Max(s)])
    BY <1>3, <2>2
  <2>4. g[1 .. k] = Add(g[(1 .. k) \ {Max(1 .. k)}], found[Max(1 .. k)])
    BY <2>1, <2>3
  <2> QED BY <2>1, <2>4
<1>5. g[1 .. 0] = base
  <2>1. 1 .. 0 = {} /\ {} \in SUBSET (DOMAIN found)
    OBVIOUS
  <2> QED BY <1>3, <2>1
<1> DEFINE p == [k \in 0 .. n |-> g[1 .. k]]
           H == {k \in 0 .. n : p[k] \in Tables}
<1>6. p[0] = base /\ \A k \in 1 .. n : p[k] = Add(p[k - 1], found[k])
  BY <1>4, <1>5
<1> HIDE DEF IsIter
<1>7. p[n] = FoldLeft(Add, base, found)
  <2>1. DOMAIN found = 1 .. n
    OBVIOUS
  <2> QED BY <1>3, <2>1
<1>8. 0 .. n \subseteq H
  <2>1. 0 \in H
    BY <1>6
  <2>2. ASSUME NEW k \in 1 .. n, k - 1 \in H PROVE k \in H
    <3>1. p[k - 1] \in Tables /\ found[k] \in Coords
      BY <2>2
    <3>2. p[k] \in Tables
      <4> HIDE DEF p
      <4> QED BY <1>6, <3>1, AddIn
    <3> QED BY <3>2
  <2> HIDE DEF H
  <2> QED BY <2>1, <2>2, Upwards
<1>9. p \in [0 .. n -> Tables]
  BY <1>8
<1> HIDE DEF p, H
<1> QED BY <1>6, <1>7, <1>9

-----------------------------------------------------------------------------
OneEach(t) == \A i, j \in 1 .. Len(t) : t[i].key = t[j].key => i = j

(* What additions make of a table.                                         *)
Extends(t, base) ==
    /\ t \in Tables /\ OneEach(t)
    /\ Len(base) <= Len(t)
    /\ \A i \in 1 .. Len(base) : t[i] = base[i]
    /\ \A i \in 1 .. Len(t) : i <= Len(base) \/ t[i].last = -1

(* Adding one more coordinate.                                             *)
LEMMA AddStep ==
  ASSUME NEW base \in Tables, NEW t, Extends(t, base), NEW k \in Coords
  PROVE  Extends(Add(t, k), base) /\ KeysOf(Add(t, k)) = KeysOf(t) \cup {k}
<1>1. CASE k \in KeysOf(t)
  BY <1>1 DEF Add
<1>2. CASE k \notin KeysOf(t)
  <2> PICK e : e = [key |-> k, last |-> -1]
    OBVIOUS
  <2>1. Add(t, k) = Append(t, e) /\ e.key = k /\ e.last = -1
    BY <1>2 DEF Add
  <2>2. t \in Seq(Entry) /\ base \in Seq(Entry) /\ e \in Entry
    BY RecallAssumption DEF Extends, Tables, Entry
  <2> PICK u : u = Append(t, e)
    OBVIOUS
  <2>3. /\ u \in Seq(Entry) /\ Len(u) = Len(t) + 1 /\ Len(t) \in Nat /\ u[Len(t) + 1] = e
        /\ \A i \in 1 .. Len(t) : u[i] = t[i]
    BY <2>2
  <2>4. \A i \in 1 .. Len(u) : i = Len(t) + 1 \/ i \in 1 .. Len(t)
    BY <2>3
  <2>5. \A i \in 1 .. Len(t) : t[i].key # k
    BY <1>2 DEF KeysOf
  <2>6. OneEach(u)
    BY <2>1, <2>3, <2>4, <2>5 DEF OneEach, Extends
  <2>7. Extends(u, base)
    <3>1. Len(base) \in Nat /\ Len(base) <= Len(t)
      BY <2>2 DEF Extends
    <3>2. \A i \in 1 .. Len(base) : i \in 1 .. Len(t)
      BY <2>3, <3>1
    <3>3. \A i \in 1 .. Len(base) : u[i] = base[i]
      BY <2>3, <3>2 DEF Extends
    <3>4. \A i \in 1 .. Len(u) : i <= Len(base) \/ u[i].last = -1
      BY <2>1, <2>3, <2>4 DEF Extends
    <3> QED BY <2>3, <2>6, <3>1, <3>3, <3>4 DEF Extends, Tables
  <2>8. KeysOf(u) = KeysOf(t) \cup {k}
    BY <2>1, <2>3, <2>4 DEF KeysOf
  <2> QED BY <2>1, <2>7, <2>8
<1> QED BY <1>1, <1>2

(* Adding coordinates keeps the entries that were there.                   *)
LEMMA Added ==
  ASSUME NEW base \in Tables, OneEach(base), NEW n \in Nat, NEW found \in [1 .. n -> Coords]
  PROVE  LET t == FoldLeft(Add, base, found)
         IN  Extends(t, base) /\ KeysOf(t) = KeysOf(base) \cup ToSet(found)
<1> PICK p \in [0 .. n -> Tables] :
           /\ p[0] = base /\ p[n] = FoldLeft(Add, base, found)
           /\ \A k \in 1 .. n : p[k] = Add(p[k - 1], found[k])
  BY FoldAdd
<1> DEFINE H == {k \in 0 .. n : /\ Extends(p[k], base)
                                /\ KeysOf(p[k]) = KeysOf(base) \cup {found[i] : i \in 1 .. k}}
<1>1. 0 \in H
  <2>1. Extends(base, base)
    <3>1. Len(base) \in Nat
      BY DEF Tables
    <3> QED BY <3>1 DEF Extends
  <2>2. {found[i] : i \in 1 .. 0} = {}
    OBVIOUS
  <2> QED BY <2>1, <2>2
<1>2. ASSUME NEW k \in 1 .. n, k - 1 \in H PROVE k \in H
  <2>1. PICK m \in 0 .. n : m = k - 1
    OBVIOUS
  <2>2. /\ Extends(p[m], base) /\ p[k] = Add(p[m], found[k]) /\ found[k] \in Coords
        /\ KeysOf(p[m]) = KeysOf(base) \cup {found[i] : i \in 1 .. m}
    BY <1>2, <2>1
  <2>3. Extends(p[k], base) /\ KeysOf(p[k]) = KeysOf(p[m]) \cup {found[k]}
    BY <2>2, AddStep
  <2>4. {found[i] : i \in 1 .. k} = {found[i] : i \in 1 .. m} \cup {found[k]}
    <3>1. \A i : i \in 1 .. k <=> i \in 1 .. m \/ i = k
      BY <2>1
    <3> QED BY <3>1
  <2>5. KeysOf(p[k]) = KeysOf(base) \cup {found[i] : i \in 1 .. k}
    BY <2>2, <2>3, <2>4
  <2> QED BY <2>3, <2>5
<1>3. n \in H
  <2>1. n \in 0 .. n
    OBVIOUS
  <2> HIDE DEF H
  <2> QED BY <1>1, <1>2, <2>1, Upwards
<1>4. ToSet(found) = {found[i] : i \in 1 .. n}
  BY DEF ToSet
<1> QED BY <1>3, <1>4

-----------------------------------------------------------------------------
(* Positions by falling height, equals in their order.                     *)
ByHeight(below, l, n) ==
    /\ l \in [1 .. n -> Int] /\ below \in [1 .. n -> SUBSET (1 .. n)]
    /\ \A i, j \in 1 .. n : j \in below[i] <=> l[j] > l[i] \/ (l[j] = l[i] /\ j < i)

(* Positions by falling height are totally ordered.                        *)
LEMMA ByHeightIsOrder ==
  ASSUME NEW n \in Nat, NEW l, NEW below, ByHeight(below, l, n)
  PROVE  IsOrder(below, n)
<1>0. /\ below \in [1 .. n -> SUBSET (1 .. n)]
      /\ \A i, j \in 1 .. n : j \in below[i] <=> l[j] > l[i] \/ (l[j] = l[i] /\ j < i)
      /\ \A i \in 1 .. n : l[i] \in Int
  BY DEF ByHeight
<1>1. \A i \in 1 .. n : i \notin below[i]
  BY <1>0
<1>2. \A i, j \in 1 .. n : i = j \/ i \in below[j] \/ j \in below[i]
  <2> SUFFICES ASSUME NEW i \in 1 .. n, NEW j \in 1 .. n
               PROVE  i = j \/ i \in below[j] \/ j \in below[i]
    OBVIOUS
  <2>1. l[i] \in Int /\ l[j] \in Int
    BY <1>0
  <2> QED BY <1>0, <2>1
<1>3. \A i, j \in 1 .. n : i \in below[j] => below[i] \subseteq below[j]
  <2> SUFFICES ASSUME NEW i \in 1 .. n, NEW j \in 1 .. n, i \in below[j],
                      NEW k \in below[i]
               PROVE  k \in below[j]
    OBVIOUS
  <2>1. k \in 1 .. n /\ l[i] \in Int /\ l[j] \in Int /\ l[k] \in Int
    BY <1>0
  <2>2. /\ l[i] > l[j] \/ (l[i] = l[j] /\ i < j)
        /\ l[k] > l[i] \/ (l[k] = l[i] /\ k < i)
    BY <1>0, <2>1
  <2>3. l[k] > l[j] \/ (l[k] = l[j] /\ k < j)
    BY <2>1, <2>2
  <2> QED BY <1>0, <2>1, <2>3
<1> QED BY <1>0, <1>1, <1>2, <1>3 DEF IsOrder

(* Ranking permutes a table and puts warmer entries first.                 *)
IsRanking(o, t) ==
    /\ o \in [1 .. Len(t) -> 1 .. Len(t)]
    /\ Ranked(t) = [k \in 1 .. Len(t) |-> t[o[k]]]
    /\ \A i, j \in 1 .. Len(t) : o[i] = o[j] => i = j
    /\ \A i \in 1 .. Len(t) : \E k \in 1 .. Len(t) : o[k] = i
    /\ \A i, j \in 1 .. Len(t) : i < j => t[o[i]].last >= t[o[j]].last

(* The model of the sort in SerializeState is a ranking.                   *)
LEMMA RankedIs ==
  ASSUME NEW t \in Tables
  PROVE  \E o : IsRanking(o, t)
<1> PICK n \in Nat : n = Len(t)
  BY DEF Tables
<1> PICK l : l = [i \in 1 .. n |-> t[i].last]
  OBVIOUS
<1>1. \A i \in 1 .. n : l[i] \in Int /\ l[i] = t[i].last
  <2>1. t \in Seq(Entry)
    BY DEF Tables
  <2>2. \A i \in 1 .. n : t[i] \in Entry
    BY <2>1
  <2> QED BY <2>2, RecallAssumption DEF Entry
<1> PICK below : below = [i \in 1 .. n |-> {j \in 1 .. n : Warmer(t, j, i)}]
  OBVIOUS
<1> DEFINE o == [k \in 1 .. n |-> CHOOSE i \in 1 .. n : Place(t, i) = k]
<1>2. /\ below \in [1 .. n -> SUBSET (1 .. n)]
      /\ \A i, j \in 1 .. n : j \in below[i] <=> Warmer(t, j, i)
  OBVIOUS
<1>3. \A i, j \in 1 .. n : j \in below[i] <=> l[j] > l[i] \/ (l[j] = l[i] /\ j < i)
  BY <1>1, <1>2 DEF Warmer
<1>4. \A i \in 1 .. n : Place(t, i) = 1 + Cardinality(below[i])
  BY DEF Place
<1>5. IsOrder(below, n)
  <2>1. l \in [1 .. n -> Int]
    BY <1>1
  <2>2. ByHeight(below, l, n)
    BY <1>2, <1>3, <2>1 DEF ByHeight
  <2> QED BY <2>2, ByHeightIsOrder
<1>6. Ranked(t) = [k \in 1 .. n |-> t[o[k]]]
  BY DEF Ranked
<1>7. ASSUME NEW k \in 1 .. n, NEW i \in 1 .. n, 1 + Cardinality(below[i]) = k
      PROVE  o[k] \in 1 .. n /\ 1 + Cardinality(below[o[k]]) = k
  <2>1. Place(t, i) = k
    BY <1>4, <1>7
  <2>2. PICK c : c = CHOOSE j \in 1 .. n : Place(t, j) = k
    OBVIOUS
  <2>3. c \in 1 .. n /\ Place(t, c) = k
    BY <2>1, <2>2
  <2>4. o[k] = c
    BY <2>2
  <2> QED BY <1>4, <2>3, <2>4
<1>8. o = [k \in 1 .. n |-> o[k]]
  OBVIOUS
<1> HIDE DEF o
<1>9. Arranges(o, below, n)
  BY <1>5, <1>7, <1>8, Arranged
<1>10. /\ o \in [1 .. n -> 1 .. n]
       /\ \A i, j \in 1 .. n : o[i] = o[j] => i = j
       /\ \A i \in 1 .. n : \E k \in 1 .. n : o[k] = i
       /\ \A i, j \in 1 .. n : i < j => o[i] \in below[o[j]]
  BY <1>9 DEF Arranges
<1>11. ASSUME NEW i \in 1 .. n, NEW j \in 1 .. n, i < j
       PROVE  t[o[i]].last >= t[o[j]].last
  <2> PICK a, b : a = o[i] /\ b = o[j]
    OBVIOUS
  <2>1. a \in 1 .. n /\ b \in 1 .. n /\ a \in below[b]
    BY <1>10, <1>11
  <2>2. l[a] > l[b] \/ (l[a] = l[b] /\ a < b)
    BY <1>3, <2>1
  <2>3. l[a] \in Int /\ l[b] \in Int /\ l[a] = t[a].last /\ l[b] = t[b].last
    BY <1>1, <2>1
  <2> QED BY <2>2, <2>3
<1> QED BY <1>6, <1>10, <1>11 DEF IsRanking

-----------------------------------------------------------------------------
(* What serialising keeps of a table.                                      *)
Remains(s, t) ==
    /\ s \in Tables /\ OneEach(s) /\ Len(s) <= MaxKeys
    /\ Len(s) = Len(t) \/ Len(s) = MaxKeys
    /\ \A i \in 1 .. Len(s) : \E j \in 1 .. Len(t) : s[i] = t[j]
    /\ \A j \in 1 .. Len(t) :
         \/ \E i \in 1 .. Len(s) : s[i] = t[j]
         \/ Len(s) = MaxKeys /\ \A i \in 1 .. Len(s) : s[i].last >= t[j].last

(* SerializeState keeps the warmest entries.                               *)
LEMMA Serialized ==
  ASSUME NEW t \in Tables, OneEach(t)
  PROVE  Remains(SerializeState(t), t)
<1> PICK n \in Nat : n = Len(t)
  BY DEF Tables
<1>0. PICK o : IsRanking(o, t)
  BY RankedIs
<1>1. /\ o \in [1 .. n -> 1 .. n]
      /\ Ranked(t) = [k \in 1 .. n |-> t[o[k]]]
      /\ \A i, j \in 1 .. n : o[i] = o[j] => i = j
      /\ \A i \in 1 .. n : \E k \in 1 .. n : o[k] = i
      /\ \A i, j \in 1 .. n : i < j => t[o[i]].last >= t[o[j]].last
  BY <1>0 DEF IsRanking
<1> PICK r : r = Ranked(t)
  OBVIOUS
<1>2. MaxKeys \in Nat
  BY RecallAssumption
<1> PICK m : m = IF n < MaxKeys THEN n ELSE MaxKeys
  OBVIOUS
<1>3. m \in 0 .. n /\ m <= MaxKeys /\ (m = n \/ m = MaxKeys)
  BY <1>2
<1>4. \A i \in 1 .. n : t[i] \in Entry
  BY DEF Tables
<1>5. r \in Seq(Entry) /\ Len(r) = n
  <2>1. r = [k \in 1 .. n |-> t[o[k]]]
    BY <1>1
  <2>2. \A k \in 1 .. n : t[o[k]] \in Entry
    BY <1>1, <1>4
  <2>3. r \in [1 .. n -> Entry]
    BY <2>1, <2>2
  <2> QED BY <2>3
<1> PICK s : s = SerializeState(t)
  OBVIOUS
<1>6. s = SubSeq(r, 1, m)
  BY <1>5 DEF SerializeState, Fit, FirstKeys
<1>7. s \in Seq(Entry) /\ Len(s) = m /\ \A i \in 1 .. m : s[i] = r[i]
  BY <1>3, <1>5, <1>6
<1>8. \A i \in 1 .. m : i \in 1 .. n /\ s[i] = t[o[i]] /\ o[i] \in 1 .. n
  <2>1. r = [k \in 1 .. n |-> t[o[k]]] /\ o \in [1 .. n -> 1 .. n]
    BY <1>1
  <2>2. \A i \in 1 .. m : i \in 1 .. n
    BY <1>3
  <2>3. \A i \in 1 .. n : r[i] = t[o[i]] /\ o[i] \in 1 .. n
    BY <2>1
  <2> QED BY <1>7, <2>2, <2>3
<1>9. OneEach(s)
  <2>1. \A i, j \in 1 .. n : t[i].key = t[j].key => i = j
    BY DEF OneEach
  <2> SUFFICES ASSUME NEW i \in 1 .. m, NEW j \in 1 .. m, s[i].key = s[j].key PROVE i = j
    BY <1>7 DEF OneEach
  <2>2. o[i] = o[j]
    BY <1>8, <2>1
  <2> QED BY <1>1, <1>8, <2>2
<1>10. \A i \in 1 .. m : \E j \in 1 .. n : s[i] = t[j]
  BY <1>8
<1>11. ASSUME NEW j \in 1 .. n
       PROVE  \/ \E i \in 1 .. m : s[i] = t[j]
              \/ m = MaxKeys /\ \A i \in 1 .. m : s[i].last >= t[j].last
  <2>1. PICK k \in 1 .. n : o[k] = j
    BY <1>1
  <2>2. CASE k \in 1 .. m
    BY <1>8, <2>1, <2>2
  <2>3. CASE k \notin 1 .. m
    <3>1. m # n /\ m < k
      BY <1>3, <2>3
    <3>2. \A i \in 1 .. m : i < k
      BY <1>3, <3>1
    <3>3. ASSUME NEW i \in 1 .. m PROVE s[i].last >= t[j].last
      <4>1. i \in 1 .. n /\ i < k /\ s[i] = t[o[i]]
        BY <1>8, <3>2
      <4>2. t[o[i]].last >= t[o[k]].last
        BY <1>1, <4>1
      <4> QED BY <2>1, <4>1, <4>2
    <3> QED BY <1>3, <3>1, <3>3
  <2> QED BY <2>2, <2>3
<1> QED BY <1>3, <1>7, <1>9, <1>10, <1>11 DEF Remains, Tables

(* A full row and one more key, all hinted at or after a turn, are more    *)
(* than MaxKeys.                                                           *)
LEMMA Crowd ==
  ASSUME NEW s \in Tables, OneEach(s), Len(s) = MaxKeys,
         NEW J \in SUBSET Coords, NEW k \in J, \A i \in 1 .. Len(s) : s[i].key \in J \ {k}
  PROVE  Cardinality(J) > MaxKeys
<1>1. IsFiniteSet(J) /\ MaxKeys \in Nat
  BY RecallAssumption, FS_Subset
<1>2. IsFiniteSet(J \ {k}) /\ Cardinality(J \ {k}) = Cardinality(J) - 1
  BY <1>1, FS_RemoveElement
<1>3. Cardinality(1 .. MaxKeys) = MaxKeys
  BY <1>1, IntervalCount
<1> PICK g : g = [i \in 1 .. MaxKeys |-> s[i].key]
  OBVIOUS
<1>4. g \in [1 .. MaxKeys -> J \ {k}]
  OBVIOUS
<1>5. \A i, j \in 1 .. MaxKeys : g[i] = g[j] => i = j
  BY DEF OneEach
<1>6. g \in Injection(1 .. MaxKeys, J \ {k})
  BY <1>4, <1>5 DEF Injection, IsInjective
<1>7. Cardinality(1 .. MaxKeys) <= Cardinality(J \ {k})
  BY <1>2, <1>6, FS_Injection
<1>8. Cardinality(J) \in Nat
  BY <1>1, FS_CardinalityType
<1> QED BY <1>1, <1>2, <1>3, <1>7, <1>8

-----------------------------------------------------------------------------
Crowded(at, k) == Cardinality({j \in Coords : at[j] >= at[k]}) > MaxKeys
Holds(table, k, last) ==
    \E i \in 1 .. Len(table) : table[i].key = k /\ table[i].last = last

RowTypes ==
    /\ stored \in [turn : -1 .. MaxTurns, table : Tables]
    /\ OneEach(stored.table) /\ Len(stored.table) <= MaxKeys
    /\ hints \in SUBSET Coords
    /\ evicted \in SUBSET Coords
    /\ hintedAt \in [Coords -> -1 .. MaxTurns]
    /\ \A k \in Coords : hintedAt[k] <= stored.turn

(* An entry that has a clock has the right one.                            *)
ClocksAreRight ==
    \A i \in 1 .. Len(stored.table) :
        stored.table[i].last \in {-1, hintedAt[stored.table[i].key]}

(* A hint is remembered, or crowded out by later ones.                     *)
HintsAreKept ==
    \A k \in Coords :
        hintedAt[k] = -1 \/ Holds(stored.table, k, hintedAt[k]) \/ Crowded(hintedAt, k)

RowInv == RowTypes /\ ClocksAreRight /\ HintsAreKept /\ ForgottenOnlyWhenFull

(* The table a request is about to save.                                   *)
Grown(t, surfaced, gone) ==
    /\ t \in Tables /\ OneEach(t) /\ Len(stored.table) <= Len(t)
    /\ surfaced \in SUBSET Coords /\ gone \in SUBSET Coords
    /\ NextTurn \in 0 .. MaxTurns
    /\ \A i \in 1 .. Len(t) :
         IF t[i].key \in surfaced THEN t[i].last = NextTurn
         ELSE t[i].last \in {-1, hintedAt[t[i].key]}
    /\ \A k \in surfaced : Holds(t, k, NextTurn)
    /\ \A k \in Coords \ surfaced :
         Holds(stored.table, k, hintedAt[k]) => Holds(t, k, hintedAt[k])
    /\ evicted \subseteq KeysOf(stored.table) => gone \subseteq KeysOf(t)

(* What saving that table makes of the row.                                *)
Saves(t, surfaced, gone) ==
    /\ hints' \in SUBSET Coords
    /\ stored' = [turn |-> NextTurn, table |-> SerializeState(t)]
    /\ hintedAt' = [k \in Coords |-> IF k \in surfaced THEN NextTurn ELSE hintedAt[k]]
    /\ evicted' = gone

(* A row that is saved satisfies the invariant.                            *)
LEMMA Saving ==
  ASSUME RowInv, NEW t, NEW surfaced, NEW gone,
         Grown(t, surfaced, gone), Saves(t, surfaced, gone)
  PROVE  RowInv'
<1> PICK s : s = SerializeState(t)
  OBVIOUS
<1> PICK at : at = hintedAt'
  OBVIOUS
<1>0. Remains(s, t) /\ t \in Tables /\ OneEach(t)
  BY Serialized DEF Grown
<1>1. /\ s \in Tables /\ OneEach(s) /\ Len(s) <= MaxKeys /\ Len(s) \in Nat /\ MaxKeys \in Nat
      /\ Len(s) = Len(t) \/ Len(s) = MaxKeys
      /\ \A i \in 1 .. Len(s) : s[i].key \in Coords /\ s[i].last \in Int
      /\ \A i \in 1 .. Len(s) : \E j \in 1 .. Len(t) : s[i] = t[j]
      /\ \A j \in 1 .. Len(t) :
           \/ \E i \in 1 .. Len(s) : s[i] = t[j]
           \/ Len(s) = MaxKeys /\ \A i \in 1 .. Len(s) : s[i].last >= t[j].last
  <2>1. s \in Tables
    BY <1>0 DEF Remains
  <2>2. Len(s) \in Nat /\ \A i \in 1 .. Len(s) : s[i] \in Entry
    BY <2>1 DEF Tables
  <2>3. \A i \in 1 .. Len(s) : s[i].key \in Coords /\ s[i].last \in Int
    BY <2>2, RecallAssumption DEF Entry
  <2> QED BY <1>0, <2>1, <2>2, <2>3, RecallAssumption DEF Remains
<1>2. /\ stored.turn \in Int /\ NextTurn = stored.turn + 1
      /\ \A k \in Coords : hintedAt[k] \in -1 .. MaxTurns /\ hintedAt[k] <= stored.turn
  BY RecallAssumption DEF RowInv, RowTypes, NextTurn
<1>3. /\ at \in [Coords -> -1 .. MaxTurns]
      /\ \A k \in Coords : at[k] >= hintedAt[k] /\ at[k] <= NextTurn
      /\ \A k \in surfaced : at[k] = NextTurn
      /\ \A k \in Coords \ surfaced : at[k] = hintedAt[k]
  <2>1. at = [k \in Coords |-> IF k \in surfaced THEN NextTurn ELSE hintedAt[k]]
    BY DEF Saves
  <2>2. NextTurn \in -1 .. MaxTurns /\ surfaced \in SUBSET Coords
    BY DEF Grown
  <2>3. at \in [Coords -> -1 .. MaxTurns]
    BY <1>2, <2>1, <2>2
  <2>4. \A k \in Coords : at[k] = IF k \in surfaced THEN NextTurn ELSE hintedAt[k]
    BY <2>1
  <2>5. \A k \in Coords : at[k] >= hintedAt[k] /\ at[k] <= NextTurn
    BY <1>2, <2>4
  <2> QED BY <2>2, <2>3, <2>4, <2>5
<1>4. RowTypes'
  <2>1. stored' \in [turn : -1 .. MaxTurns, table : Tables] /\ stored'.table = s /\ stored'.turn = NextTurn
    BY <1>1 DEF Saves, Grown
  <2>2. hints' \in SUBSET Coords /\ evicted' \in SUBSET Coords
    BY DEF Saves, Grown
  <2> QED BY <1>1, <1>3, <2>1, <2>2 DEF RowTypes
<1>5. stored'.table = s
  BY DEF Saves
<1>6. \A j \in 1 .. Len(t) : t[j].key \in Coords /\ t[j].last \in {-1, at[t[j].key]}
  <2> SUFFICES ASSUME NEW j \in 1 .. Len(t)
               PROVE  t[j].key \in Coords /\ t[j].last \in {-1, at[t[j].key]}
    OBVIOUS
  <2>1. t[j].key \in Coords
    <3>1. t \in Seq(Entry)
      BY <1>0 DEF Tables
    <3>2. t[j] \in Entry
      BY <3>1
    <3> QED BY <3>2, RecallAssumption DEF Entry
  <2>2. IF t[j].key \in surfaced THEN t[j].last = NextTurn
        ELSE t[j].last \in {-1, hintedAt[t[j].key]}
    BY DEF Grown
  <2> QED BY <1>3, <2>1, <2>2
<1>7. \A i \in 1 .. Len(s) : s[i].last \in {-1, at[s[i].key]}
  BY <1>1, <1>6
<1>8. ClocksAreRight'
  BY <1>5, <1>7 DEF ClocksAreRight
<1>9. ASSUME NEW k \in Coords, at[k] # -1, Holds(t, k, at[k])
      PROVE  Holds(s, k, at[k]) \/ Crowded(at, k)
  <2>1. PICK j \in 1 .. Len(t) : t[j].key = k /\ t[j].last = at[k]
    BY <1>9 DEF Holds
  <2>2. CASE \E i \in 1 .. Len(s) : s[i] = t[j]
    BY <2>1, <2>2 DEF Holds
  <2>3. CASE ~ \E i \in 1 .. Len(s) : s[i] = t[j]
    <3>1. Len(s) = MaxKeys /\ \A i \in 1 .. Len(s) : s[i].last >= at[k]
      BY <1>1, <2>1, <2>3
    <3> PICK J : J = {x \in Coords : at[x] >= at[k]}
      OBVIOUS
    <3>2. at[k] \in Int /\ at[k] > -1
      BY <1>3, <1>9
    <3>3. k \in J /\ J \in SUBSET Coords
      BY <3>2
    <3>4. ASSUME NEW i \in 1 .. Len(s) PROVE s[i].key \in J \ {k}
      <4>1. s[i].key \in Coords /\ s[i].last >= at[k] /\ s[i].last \in {-1, at[s[i].key]}
        BY <1>1, <1>7, <3>1
      <4>2. at[s[i].key] >= at[k]
        BY <3>2, <4>1
      <4>3. s[i].key # k
        <5>1. PICK a \in 1 .. Len(t) : s[i] = t[a]
          BY <1>1
        <5>2. t[a].key = k => a = j
          BY <1>0, <2>1 DEF OneEach
        <5> QED BY <2>3, <5>1, <5>2
      <4> QED BY <4>1, <4>2, <4>3
    <3>5. Cardinality(J) > MaxKeys
      BY <1>1, <3>1, <3>3, <3>4, Crowd
    <3> QED BY <3>5 DEF Crowded
  <2> QED BY <2>2, <2>3
<1>10. ASSUME NEW k \in Coords, at[k] # -1
       PROVE  Holds(s, k, at[k]) \/ Crowded(at, k)
  <2>1. CASE k \in surfaced
    <3>1. Holds(t, k, at[k])
      BY <1>3, <2>1 DEF Grown
    <3> QED BY <1>9, <1>10, <3>1
  <2>2. CASE k \notin surfaced
    <3>1. at[k] = hintedAt[k]
      BY <1>3, <2>2
    <3>2. Holds(stored.table, k, hintedAt[k]) \/ Crowded(hintedAt, k)
      BY <1>10, <3>1 DEF RowInv, HintsAreKept
    <3>3. CASE Holds(stored.table, k, hintedAt[k])
      <4>1. Holds(t, k, hintedAt[k])
        BY <2>2, <3>3 DEF Grown
      <4> QED BY <1>9, <1>10, <3>1, <4>1
    <3>4. CASE Crowded(hintedAt, k)
      <4> PICK I, J : /\ I = {x \in Coords : hintedAt[x] >= hintedAt[k]}
                      /\ J = {x \in Coords : at[x] >= at[k]}
        OBVIOUS
      <4>1. I \in SUBSET J
        <5>1. \A x \in Coords : hintedAt[x] >= hintedAt[k] => at[x] >= at[k]
          BY <1>2, <1>3, <3>1
        <5> QED BY <5>1
      <4>2. IsFiniteSet(J) /\ MaxKeys \in Nat
        BY RecallAssumption, FS_Subset
      <4>3. IsFiniteSet(I) /\ Cardinality(I) <= Cardinality(J)
        BY <4>1, <4>2, FS_Subset
      <4>4. Cardinality(I) \in Nat /\ Cardinality(J) \in Nat
        BY <4>2, <4>3, FS_CardinalityType
      <4>5. Cardinality(I) > MaxKeys
        BY <3>4 DEF Crowded
      <4>6. Cardinality(J) > MaxKeys
        BY <4>2, <4>3, <4>4, <4>5
      <4> QED BY <4>6 DEF Crowded
    <3> QED BY <3>2, <3>3, <3>4
  <2> QED BY <2>1, <2>2
<1>11. HintsAreKept'
  BY <1>5, <1>10 DEF HintsAreKept
<1>12. ForgottenOnlyWhenFull'
  <2> SUFFICES ASSUME Len(s) # MaxKeys PROVE gone \subseteq KeysOf(s)
    BY <1>5 DEF ForgottenOnlyWhenFull, Saves
  <2>1. Len(stored.table) # MaxKeys
    <3>1. Len(s) = Len(t) /\ Len(t) < MaxKeys
      BY <1>1
    <3>2. Len(stored.table) <= Len(t) /\ Len(stored.table) \in Nat
      BY DEF Grown, RowInv, RowTypes, Tables
    <3> QED BY <1>1, <3>1, <3>2
  <2>2. gone \subseteq KeysOf(t)
    BY <2>1 DEF RowInv, ForgottenOnlyWhenFull, Grown
  <2>3. KeysOf(t) \subseteq KeysOf(s)
    <3> SUFFICES ASSUME NEW j \in 1 .. Len(t) PROVE t[j].key \in KeysOf(s)
      BY DEF KeysOf
    <3>1. PICK i \in 1 .. Len(s) : s[i] = t[j]
      BY <1>1
    <3> QED BY <3>1 DEF KeysOf
  <2> QED BY <2>2, <2>3
<1> QED BY <1>4, <1>8, <1>11, <1>12 DEF RowInv

-----------------------------------------------------------------------------
(* An empty row satisfies the invariant.                                   *)
LEMMA RowInit ==
  RecallInit => RowInv
<1> SUFFICES ASSUME RecallInit PROVE RowInv
  OBVIOUS
<1>1. stored.table = <<>> /\ stored.turn = -1 /\ evicted = {}
      /\ hintedAt = [k \in Coords |-> -1] /\ hints = {}
  BY DEF RecallInit, Cold
<1>2. MaxTurns \in Nat /\ MaxKeys \in Nat /\ Len(<<>>) = 0
  BY RecallAssumption
<1>3. stored \in [turn : -1 .. MaxTurns, table : Tables]
  BY <1>2 DEF RecallInit, Cold, Tables
<1>4. RowTypes
  BY <1>1, <1>2, <1>3 DEF RowTypes, OneEach
<1> QED BY <1>1, <1>2, <1>4 DEF RowInv, ClocksAreRight, HintsAreKept, ForgottenOnlyWhenFull

(* A fold of a text that has found and touched these coordinates.          *)
LEMMA Folding ==
  ASSUME RowInv, NextTurn <= MaxTurns, NEW n \in Nat, NEW found \in [1 .. n -> Coords],
         NEW touched, NEW added, added = FoldLeft(Add, stored.table, found),
         NEW surfaced, surfaced = Surfaces(added, touched, NextTurn)
  PROVE  Grown(Marked(added, surfaced, NextTurn), surfaced, evicted \cup ToSet(found))
<1> PICK base : base = stored.table
  OBVIOUS
<1>1. base \in Tables /\ OneEach(base) /\ Len(base) \in Nat
  BY DEF RowInv, RowTypes, Tables
<1>2. Extends(added, base) /\ KeysOf(added) = KeysOf(base) \cup ToSet(found)
  BY <1>1, Added
<1>3. /\ added \in Seq(Entry) /\ OneEach(added) /\ Len(added) \in Nat /\ Len(base) <= Len(added)
      /\ \A i \in 1 .. Len(base) : i \in 1 .. Len(added) /\ added[i] = base[i]
      /\ \A i \in 1 .. Len(added) : i \in 1 .. Len(base) \/ added[i].last = -1
  <2>1. added \in Seq(Entry) /\ Len(added) \in Nat
    BY <1>2 DEF Extends, Tables
  <2> QED BY <1>1, <1>2, <2>1 DEF Extends
<1>4. NextTurn \in 0 .. MaxTurns
  BY RecallAssumption DEF RowInv, RowTypes, NextTurn
<1> PICK turn : turn = NextTurn
  OBVIOUS
<1> PICK t : t = Marked(added, surfaced, NextTurn)
  OBVIOUS
<1>5. \A i \in 1 .. Len(added) : added[i] \in Entry /\ added[i].key \in Coords
  <2>1. \A i \in 1 .. Len(added) : added[i] \in Entry
    BY <1>3
  <2> QED BY <2>1, RecallAssumption DEF Entry
<1>6. /\ t = [i \in 1 .. Len(added) |-> IF added[i].key \in surfaced
                                       THEN [added[i] EXCEPT !.last = turn] ELSE added[i]]
  BY DEF Marked
<1>7. t \in Seq(Entry) /\ Len(t) = Len(added)
  <2>1. turn \in -1 .. MaxTurns
    BY <1>4
  <2>2. \A e \in Entry : [e EXCEPT !.last = turn] \in Entry
    BY <2>1, RecallAssumption DEF Entry
  <2>3. t \in [1 .. Len(added) -> Entry]
    BY <1>5, <1>6, <2>2
  <2> QED BY <1>3, <2>3
<1>8. \A i \in 1 .. Len(added) :
         /\ t[i].key = added[i].key
         /\ added[i].key \in surfaced => t[i].last = turn
         /\ added[i].key \notin surfaced => t[i] = added[i]
  <2>1. \A e \in Entry : /\ [e EXCEPT !.last = turn].key = e.key
                         /\ [e EXCEPT !.last = turn].last = turn
    BY RecallAssumption DEF Entry
  <2>2. \A i \in 1 .. Len(added) :
          t[i] = IF added[i].key \in surfaced THEN [added[i] EXCEPT !.last = turn] ELSE added[i]
    BY <1>6
  <2> SUFFICES ASSUME NEW i \in 1 .. Len(added)
               PROVE  /\ t[i].key = added[i].key
                      /\ added[i].key \in surfaced => t[i].last = turn
                      /\ added[i].key \notin surfaced => t[i] = added[i]
    OBVIOUS
  <2> PICK e \in Entry : e = added[i]
    BY <1>5
  <2>3. t[i] = IF e.key \in surfaced THEN [e EXCEPT !.last = turn] ELSE e
    BY <2>2
  <2> QED BY <2>1, <2>3
<1>9. OneEach(t)
  BY <1>3, <1>7, <1>8 DEF OneEach
<1>10. surfaced \in SUBSET Coords /\ \A k \in surfaced : \E i \in 1 .. Len(added) : added[i].key = k
  BY <1>5 DEF Surfaces
<1>11. ASSUME NEW i \in 1 .. Len(t)
       PROVE  IF t[i].key \in surfaced THEN t[i].last = turn
              ELSE t[i].last \in {-1, hintedAt[t[i].key]}
  <2>1. i \in 1 .. Len(added) /\ t[i].key = added[i].key
    BY <1>7, <1>8
  <2>2. CASE t[i].key \in surfaced
    BY <1>8, <2>1, <2>2
  <2>3. CASE t[i].key \notin surfaced
    <3>1. t[i] = added[i]
      BY <1>8, <2>1, <2>3
    <3>2. added[i].last \in {-1, hintedAt[added[i].key]}
      BY <1>3, <2>1 DEF RowInv, ClocksAreRight
    <3> QED BY <2>3, <3>1, <3>2
  <2> QED BY <2>2, <2>3
<1>12. \A k \in surfaced : Holds(t, k, turn)
  BY <1>7, <1>8, <1>10 DEF Holds
<1>13. ASSUME NEW k \in Coords \ surfaced, Holds(base, k, hintedAt[k])
       PROVE  Holds(t, k, hintedAt[k])
  <2>1. PICK i \in 1 .. Len(base) : base[i].key = k /\ base[i].last = hintedAt[k]
    BY <1>13 DEF Holds
  <2>2. i \in 1 .. Len(added) /\ added[i] = base[i]
    BY <1>3
  <2>3. t[i] = base[i]
    BY <1>8, <2>1, <2>2
  <2> QED BY <1>7, <2>1, <2>2, <2>3 DEF Holds
<1>14. KeysOf(t) = KeysOf(base) \cup ToSet(found)
  <2>1. KeysOf(t) = KeysOf(added)
    BY <1>7, <1>8 DEF KeysOf
  <2> QED BY <1>2, <2>1
<1>15. evicted \cup ToSet(found) \in SUBSET Coords
  <2>1. ToSet(found) \subseteq Coords
    BY DEF ToSet
  <2> QED BY <2>1 DEF RowInv, RowTypes
<1> QED BY <1>3, <1>4, <1>7, <1>9, <1>10, <1>11, <1>12, <1>13, <1>14, <1>15 DEF Grown, Tables

(* A request that folds nothing saves the table it restored.               *)
LEMMA NoFold ==
  ASSUME RowInv, NextTurn <= MaxTurns
  PROVE  Grown(stored.table, {}, evicted)
<1>1. NextTurn \in 0 .. MaxTurns
  BY RecallAssumption DEF RowInv, RowTypes, NextTurn
<1>2. stored.table \in Tables /\ Len(stored.table) \in Nat
  BY DEF RowInv, RowTypes, Tables
<1> QED BY <1>1, <1>2 DEF RowInv, RowTypes, ClocksAreRight, Grown

(* What a request surfaces was not surfaced lately, as far as the row      *)
(* remembers.                                                              *)
Lapsed == \A k \in hints' :
            \/ hintedAt[k] = -1
            \/ NextTurn - hintedAt[k] >= TTL
            \/ Cardinality({j \in Coords : hintedAt[j] >= hintedAt[k]}) > MaxKeys

(* Detect surfaces only what has rested, as far as the row remembers.      *)
LEMMA SurfacesLapsed ==
  ASSUME RowInv, NEW n \in Nat, NEW found \in [1 .. n -> Coords], NEW touched,
         NEW added, added = FoldLeft(Add, stored.table, found),
         hints' = Surfaces(added, touched, NextTurn)
  PROVE  Lapsed
<1> PICK base : base = stored.table
  OBVIOUS
<1>1. base \in Tables /\ OneEach(base) /\ Len(base) \in Nat
  BY DEF RowInv, RowTypes, Tables
<1>2. Extends(added, base)
  BY <1>1, Added
<1> SUFFICES ASSUME NEW k \in hints', hintedAt[k] # -1, ~ Crowded(hintedAt, k)
             PROVE  NextTurn - hintedAt[k] >= TTL
  BY DEF Lapsed, Crowded
<1>3. PICK i \in 1 .. Len(added) : added[i].key = k /\ Rested(added[i], NextTurn)
  BY DEF Surfaces
<1>4. k \in Coords
  <2>1. added \in Seq(Entry)
    BY <1>2 DEF Extends, Tables
  <2>2. added[i] \in Entry
    BY <2>1
  <2> QED BY <1>3, <2>2, RecallAssumption DEF Entry
<1>5. hintedAt[k] \in -1 .. MaxTurns
  BY <1>4 DEF RowInv, RowTypes
<1>6. PICK j \in 1 .. Len(base) : base[j].key = k /\ base[j].last = hintedAt[k]
  BY <1>4 DEF RowInv, HintsAreKept, Holds
<1>7. j \in 1 .. Len(added) /\ added[j] = base[j] /\ OneEach(added)
  <2>1. Len(added) \in Nat
    BY <1>2 DEF Extends, Tables
  <2> QED BY <1>1, <1>2, <2>1 DEF Extends
<1>8. j = i
  BY <1>3, <1>6, <1>7 DEF OneEach
<1>9. Rested(added[i], NextTurn) /\ added[i].last = hintedAt[k]
  BY <1>3, <1>6, <1>7, <1>8
<1> QED BY <1>5, <1>9, RecallAssumption DEF Rested

(* A request preserves the invariant and repeats no recent hint.           *)
LEMMA RequestStep ==
  ASSUME RowInv, NextTurn <= MaxTurns, NEW saved \in BOOLEAN,
         NEW folds \in BOOLEAN, NEW found, NEW touched, Request(folds, found, touched, saved),
         (\E n \in Nat : found \in [1 .. n -> Coords]) \/ ~folds
  PROVE  RowInv' /\ Lapsed
<1> PICK added : added = FoldLeft(Add, stored.table, found)
  OBVIOUS
<1> PICK surfaced : surfaced = IF folds THEN Surfaces(added, touched, NextTurn) ELSE {}
  OBVIOUS
<1> PICK t : t = IF folds THEN Marked(added, surfaced, NextTurn) ELSE stored.table
  OBVIOUS
<1> PICK gone : gone = IF folds THEN evicted \cup ToSet(found) ELSE evicted
  OBVIOUS
<1>1. /\ hints' = surfaced
      /\ saved => /\ stored' = [turn |-> NextTurn, table |-> SerializeState(t)]
                  /\ hintedAt' = [k \in Coords |-> IF k \in surfaced THEN NextTurn
                                                   ELSE hintedAt[k]]
                  /\ evicted' = gone
      /\ ~saved => UNCHANGED <<stored, hintedAt, evicted>>
  BY DEF Request
<1>2. Grown(t, surfaced, gone)
  <2>1. CASE folds
    BY <2>1, Folding
  <2>2. CASE ~folds
    BY <2>2, NoFold
  <2> QED BY <2>1, <2>2
<1>3. surfaced \in SUBSET Coords
  BY <1>2 DEF Grown
<1>4. RowInv'
  <2>1. CASE saved
    <3>1. Saves(t, surfaced, gone)
      BY <1>1, <1>3, <2>1 DEF Saves
    <3> QED BY <1>2, <3>1, Saving
  <2>2. CASE ~saved
    <3>1. stored' = stored /\ hintedAt' = hintedAt /\ evicted' = evicted /\ hints' \in SUBSET Coords
      BY <1>1, <1>3, <2>2
    <3>2. RowTypes' /\ ClocksAreRight' /\ ForgottenOnlyWhenFull'
      BY <3>1 DEF RowInv, RowTypes, ClocksAreRight, ForgottenOnlyWhenFull
    <3>3. HintsAreKept'
      BY <3>1 DEF RowInv, HintsAreKept, Holds, Crowded
    <3> QED BY <3>2, <3>3 DEF RowInv
  <2> QED BY <2>1, <2>2
<1>5. Lapsed
  <2>1. CASE folds
    BY <1>1, <2>1, SurfacesLapsed
  <2>2. CASE ~folds
    BY <1>1, <2>2 DEF Lapsed
  <2> QED BY <2>1, <2>2
<1> QED BY <1>4, <1>5

(* So does every step.                                                     *)
LEMMA RowStep ==
  RowInv /\ [RecallNext]_recallVars => RowInv' /\ (Lapsed \/ UNCHANGED recallVars)
<1> SUFFICES ASSUME RowInv, [RecallNext]_recallVars
             PROVE  RowInv' /\ (Lapsed \/ UNCHANGED recallVars)
  OBVIOUS
<1>1. ASSUME NextTurn <= MaxTurns, NEW saved \in BOOLEAN, NEW found \in Texts,
             NEW touched \in Mentions, Request(TRUE, found, touched, saved)
      PROVE  RowInv' /\ Lapsed
  <2>1. PICK s \in SUBSET Coords : found \in SetToSeqs(s)
    BY DEF Texts
  <2>2. Cardinality(s) \in Nat
    <3>1. IsFiniteSet(s)
      BY RecallAssumption, FS_Subset
    <3> QED BY <3>1, FS_CardinalityType
  <2>3. found \in [1 .. Cardinality(s) -> Coords]
    BY <2>1 DEF SetToSeqs
  <2>4. \E n \in Nat : found \in [1 .. n -> Coords]
    BY <2>2, <2>3
  <2> QED BY <1>1, <2>4, RequestStep
<1>2. ASSUME NextTurn <= MaxTurns, NEW saved \in BOOLEAN, Request(FALSE, <<>>, {}, saved)
      PROVE  RowInv' /\ Lapsed
  BY <1>2, RequestStep
<1>3. CASE LoseState
  <2>1. stored' = Cold /\ hints' = {} /\ hintedAt' = [k \in Coords |-> -1] /\ evicted' = {}
    BY <1>3 DEF LoseState
  <2>2. RowInv'
    <3>1. /\ stored'.table = <<>> /\ stored'.turn = -1 /\ evicted' = {} /\ stored' = Cold
          /\ hintedAt' = [k \in Coords |-> -1] /\ hints' = {}
      BY <2>1 DEF Cold
    <3>2. MaxTurns \in Nat /\ MaxKeys \in Nat /\ Len(<<>>) = 0
      BY RecallAssumption
    <3>3. stored' \in [turn : -1 .. MaxTurns, table : Tables]
      BY <3>1, <3>2 DEF Cold, Tables
    <3>4. RowTypes'
      BY <3>1, <3>2, <3>3 DEF RowTypes, OneEach
    <3> QED BY <3>1, <3>2, <3>4 DEF RowInv, ClocksAreRight, HintsAreKept, ForgottenOnlyWhenFull
  <2>3. Lapsed
    BY <1>3 DEF LoseState, Lapsed
  <2> QED BY <2>2, <2>3
<1>4. CASE UNCHANGED recallVars
  <2>1. stored' = stored /\ hintedAt' = hintedAt /\ evicted' = evicted /\ hints' = hints
    BY <1>4 DEF recallVars
  <2>2. RowTypes' /\ ClocksAreRight' /\ ForgottenOnlyWhenFull'
    BY <2>1 DEF RowInv, RowTypes, ClocksAreRight, ForgottenOnlyWhenFull
  <2>3. HintsAreKept'
    BY <2>1 DEF RowInv, HintsAreKept, Holds, Crowded
  <2> QED BY <1>4, <2>2, <2>3 DEF RowInv
<1> QED BY <1>1, <1>2, <1>3, <1>4 DEF RecallNext

(* What the last TTL - 1 requests hinted: a hint on record has no earlier  *)
(* a clock than its request, which is no longer ago in turns than in       *)
(* requests.                                                               *)
Shown == [turn : 0 .. MaxTurns, hints : SUBSET Coords, kept : BOOLEAN]
RecentIs(r, at, next) ==
    /\ r \in Seq(Shown) /\ Len(r) < TTL
    /\ \A i \in 1 .. Len(r) : r[i].kept =>
         /\ next - r[i].turn <= Len(r) - i + 1
         /\ \A k \in r[i].hints : at[k] >= r[i].turn
RecentInv == RecentIs(recent, hintedAt, NextTurn)

(* One more request.                                                       *)
LEMMA Remembers ==
  ASSUME NEW r \in Seq(Shown), NEW x \in Shown, NEW at, NEW next \in Int, Len(r) < TTL,
         NEW u, u = Append(r, x),
         \A i \in 1 .. Len(u) : u[i].kept =>
           /\ next - u[i].turn <= Len(u) - i + 1
           /\ \A k \in u[i].hints : at[k] >= u[i].turn,
         NEW v, v = IF Len(r) < TTL - 1 THEN u ELSE Tail(u)
  PROVE  RecentIs(v, at, next)
<1>1. u \in Seq(Shown) /\ Len(u) = Len(r) + 1 /\ Len(r) \in Nat /\ TTL \in Nat \ {0}
  BY RecallAssumption
<1>2. CASE Len(r) < TTL - 1
  <2>1. v = u /\ Len(u) < TTL
    BY <1>1, <1>2
  <2> QED BY <1>1, <2>1 DEF RecentIs
<1>3. CASE ~(Len(r) < TTL - 1)
  <2>1. v = Tail(u)
    BY <1>3
  <2>2. /\ v \in Seq(Shown) /\ Len(v) = Len(u) - 1
        /\ \A i \in 1 .. Len(v) : v[i] = u[i + 1]
    BY <1>1, <2>1
  <2>3. Len(v) < TTL
    BY <1>1, <2>2
  <2>4. ASSUME NEW i \in 1 .. Len(v), v[i].kept
        PROVE  /\ next - v[i].turn <= Len(v) - i + 1
               /\ \A k \in v[i].hints : at[k] >= v[i].turn
    <3>1. PICK j \in 1 .. Len(u) : j = i + 1
      BY <1>1, <2>2
    <3>2. v[i] = u[j] /\ u[j].kept /\ Len(u) - j + 1 = Len(v) - i + 1
      BY <1>1, <2>2, <2>4, <3>1
    <3> QED BY <3>2
  <2> QED BY <2>2, <2>3, <2>4 DEF RecentIs
<1> QED BY <1>2, <1>3

(* A request is remembered with what it hinted at.                         *)
LEMMA RecentRequest ==
  ASSUME RowInv, RecentInv, NextTurn <= MaxTurns, NEW saved \in BOOLEAN, NEW folds \in BOOLEAN,
         NEW found, NEW touched, Request(folds, found, touched, saved), RowInv'
  PROVE  RecentInv'
<1> PICK h, n : h = hints' /\ n = NextTurn
  OBVIOUS
<1> PICK x : x = [turn |-> n, hints |-> h, kept |-> saved]
  OBVIOUS
<1> PICK u : u = Append(recent, x)
  OBVIOUS
<1>1. /\ recent' = IF Len(recent) < TTL - 1 THEN u ELSE Tail(u)
      /\ saved => /\ stored'.turn = n
                  /\ hintedAt' = [k \in Coords |-> IF k \in h THEN n ELSE hintedAt[k]]
      /\ ~saved => stored' = stored /\ hintedAt' = hintedAt
  BY DEF Request, Remembered
<1>2. /\ n \in 0 .. MaxTurns /\ h \in SUBSET Coords /\ stored.turn \in Int /\ n = stored.turn + 1
      /\ \A k \in Coords : hintedAt[k] \in Int /\ hintedAt[k] <= stored.turn
  BY RecallAssumption DEF RowInv, RowTypes, NextTurn
<1>3. x \in Shown
  BY <1>2 DEF Shown
<1>4. x.turn = n /\ x.hints = h /\ x.kept = saved
  OBVIOUS
<1>5. /\ recent \in Seq(Shown) /\ Len(recent) < TTL /\ Len(recent) \in Nat
      /\ Len(u) = Len(recent) + 1 /\ u[Len(recent) + 1] = x
      /\ \A i \in 1 .. Len(recent) : u[i] = recent[i] /\ recent[i] \in Shown
  BY <1>3 DEF RecentInv, RecentIs
<1> PICK m \in Int : m = NextTurn'
  BY <1>1, <1>2 DEF NextTurn
<1>6. m <= n + 1 /\ (saved => m = n + 1)
  BY <1>1, <1>2 DEF NextTurn
<1>7. \A k \in Coords : /\ hintedAt'[k] >= hintedAt[k]
                        /\ saved /\ k \in h => hintedAt'[k] = n
  BY <1>1, <1>2
<1>8. ASSUME NEW i \in 1 .. Len(u), u[i].kept
      PROVE  /\ m - u[i].turn <= Len(u) - i + 1
             /\ \A k \in u[i].hints : hintedAt'[k] >= u[i].turn
  <2>1. CASE i = Len(recent) + 1
    <3>1. u[i] = x /\ saved
      BY <1>4, <1>5, <1>8, <2>1
    <3>2. m - x.turn <= Len(u) - i + 1
      BY <1>2, <1>4, <1>5, <1>6, <2>1, <3>1
    <3>3. \A k \in x.hints : hintedAt'[k] >= x.turn
      BY <1>2, <1>4, <1>7, <3>1
    <3> QED BY <3>1, <3>2, <3>3
  <2>2. CASE i # Len(recent) + 1
    <3>1. i \in 1 .. Len(recent) /\ u[i] = recent[i] /\ recent[i].kept
      BY <1>5, <1>8, <2>2
    <3>2. /\ n - recent[i].turn <= Len(recent) - i + 1
          /\ \A k \in recent[i].hints : hintedAt[k] >= recent[i].turn
      BY <3>1 DEF RecentInv, RecentIs
    <3>3. recent[i].turn \in Int /\ recent[i].hints \subseteq Coords
      BY <1>5, <3>1 DEF Shown
    <3>4. m - recent[i].turn <= Len(u) - i + 1
      BY <1>2, <1>5, <1>6, <3>2, <3>3, SMTT(40)
    <3>5. \A k \in recent[i].hints : hintedAt'[k] >= recent[i].turn
      <4> SUFFICES ASSUME NEW k \in recent[i].hints PROVE hintedAt'[k] >= recent[i].turn
        OBVIOUS
      <4>1. k \in Coords /\ hintedAt[k] \in Int /\ hintedAt'[k] \in Int
        BY <1>2, <3>3 DEF RowInv, RowTypes
      <4> QED BY <1>7, <3>2, <3>3, <4>1
    <3> QED BY <3>1, <3>4, <3>5
  <2> QED BY <2>1, <2>2
<1>9. RecentIs(recent', hintedAt', m)
  BY <1>1, <1>3, <1>5, <1>8, Remembers
<1> QED BY <1>9 DEF RecentInv

(* So is every request, and a lost row takes the record with it.           *)
LEMMA RecentStep ==
  ASSUME RowInv, RecentInv, [RecallNext]_recallVars, RowInv'
  PROVE  RecentInv'
<1>1. ASSUME NextTurn <= MaxTurns, NEW saved \in BOOLEAN, NEW found \in Texts,
             NEW touched \in Mentions, Request(TRUE, found, touched, saved)
      PROVE  RecentInv'
  BY <1>1, RecentRequest
<1>2. ASSUME NextTurn <= MaxTurns, NEW saved \in BOOLEAN, Request(FALSE, <<>>, {}, saved)
      PROVE  RecentInv'
  BY <1>2, RecentRequest
<1>3. CASE LoseState
  <2>1. recent' = [i \in DOMAIN recent |-> [recent[i] EXCEPT !.kept = FALSE]]
    BY <1>3 DEF LoseState
  <2>2. recent \in Seq(Shown) /\ Len(recent) < TTL /\ Len(recent) \in Nat
        /\ DOMAIN recent = 1 .. Len(recent)
    BY DEF RecentInv, RecentIs
  <2>3. \A e \in Shown : [e EXCEPT !.kept = FALSE] \in Shown /\ ~[e EXCEPT !.kept = FALSE].kept
    BY DEF Shown
  <2>4. /\ recent' \in Seq(Shown) /\ Len(recent') = Len(recent)
        /\ \A i \in 1 .. Len(recent') : ~recent'[i].kept
    <3> PICK n \in Nat : n = Len(recent)
      BY <2>2
    <3>1. \A i \in 1 .. n : recent[i] \in Shown
      BY <2>2
    <3>2. recent' \in [1 .. n -> Shown] /\ \A i \in 1 .. n : ~recent'[i].kept
      BY <2>1, <2>2, <2>3, <3>1
    <3>3. recent' \in Seq(Shown) /\ Len(recent') = n
      BY <3>2, IsSeq
    <3> QED BY <3>2, <3>3
  <2> QED BY <2>2, <2>4 DEF RecentInv, RecentIs
<1>4. CASE UNCHANGED recallVars
  <2>1. recent' = recent /\ hintedAt' = hintedAt /\ NextTurn' = NextTurn
    BY <1>4 DEF recallVars, NextTurn
  <2> QED BY <2>1 DEF RecentInv, RecentIs
<1> QED BY <1>1, <1>2, <1>3, <1>4 DEF RecallNext

(* The inductive invariant of the page table, from request to request and  *)
(* when the row is lost.                                                   *)
THEOREM RowInvariant ==
  RecallSpec => [](RowInv /\ RecentInv)
<1>1. RecallInit => RowInv /\ RecentInv
  <2>1. RecallInit => RecentInv
    <3> SUFFICES ASSUME RecallInit PROVE RecentInv
      OBVIOUS
    <3>1. recent = <<>> /\ TTL \in Nat \ {0}
      BY RecallAssumption DEF RecallInit
    <3> QED BY <3>1 DEF RecentInv, RecentIs
  <2> QED BY <2>1, RowInit
<1>2. RowInv /\ RecentInv /\ [RecallNext]_recallVars => (RowInv /\ RecentInv)'
  BY RowStep, RecentStep
<1> QED BY <1>1, <1>2, PTL DEF RecallSpec

(* SerializeState cuts the table only at its size cap: what a fold evicted *)
(* in a saved request is in the row, or the row is full.                   *)
THEOREM ForgottenFull ==
  RecallSpec => []ForgottenOnlyWhenFull
<1>1. RowInv => ForgottenOnlyWhenFull
  BY DEF RowInv
<1> QED BY <1>1, RowInvariant, PTL

(* RecallTTLTurns: Detect repeats a hint of the last TTL - 1 requests only *)
(* if it is not on record, its request's state unsaved or the row lost     *)
(* since, or more than MaxKeys coordinates hinted no earlier pushed it out *)
(* of the row.                                                             *)
THEOREM NeverThrashes ==
  RecallSpec => AntiThrash
<1>1. ASSUME RowInv, RecentInv, Lapsed, NEW k \in hints', NEW i \in DOMAIN recent,
             k \in recent[i].hints, recent[i].kept
      PROVE  Cardinality({j \in Coords : hintedAt[j] >= recent[i].turn}) > MaxKeys
  <2>1. /\ i \in 1 .. Len(recent) /\ Len(recent) \in Nat /\ Len(recent) < TTL
        /\ recent[i] \in Shown
    BY <1>1 DEF RecentInv, RecentIs
  <2>2. /\ NextTurn - recent[i].turn <= Len(recent) - i + 1
        /\ hintedAt[k] >= recent[i].turn
    BY <1>1, <2>1 DEF RecentInv, RecentIs
  <2>3. k \in Coords /\ recent[i].turn \in Nat
    BY <1>1, <2>1 DEF Shown
  <2>4. NextTurn \in Int /\ TTL \in Nat /\ MaxKeys \in Nat /\ \A j \in Coords : hintedAt[j] \in Int
    BY <1>1, RecallAssumption DEF RowInv, RowTypes, NextTurn
  <2>5. hintedAt[k] # -1 /\ ~(NextTurn - hintedAt[k] >= TTL)
    BY <2>1, <2>2, <2>3, <2>4
  <2> PICK I, J : /\ I = {j \in Coords : hintedAt[j] >= hintedAt[k]}
                  /\ J = {j \in Coords : hintedAt[j] >= recent[i].turn}
    OBVIOUS
  <2>6. Cardinality(I) > MaxKeys
    BY <1>1, <2>5 DEF Lapsed
  <2>7. I \subseteq J /\ J \subseteq Coords
    BY <2>2, <2>3, <2>4
  <2>8. IsFiniteSet(J) /\ Cardinality(I) <= Cardinality(J) /\ Cardinality(I) \in Nat
        /\ Cardinality(J) \in Nat
    <3>1. IsFiniteSet(J)
      BY <2>7, RecallAssumption, FS_Subset
    <3>2. IsFiniteSet(I) /\ Cardinality(I) <= Cardinality(J)
      BY <2>7, <3>1, FS_Subset
    <3> QED BY <3>1, <3>2, FS_CardinalityType
  <2> QED BY <2>4, <2>6, <2>8
<1>2. RowInv /\ RecentInv /\ [RecallNext]_recallVars
      => [\A k \in hints', i \in DOMAIN recent :
            k \in recent[i].hints =>
              \/ ~recent[i].kept
              \/ Cardinality({j \in Coords : hintedAt[j] >= recent[i].turn}) > MaxKeys]_recallVars
  BY <1>1, RowStep
<1> QED BY <1>2, RowInvariant, PTL DEF RecallSpec, AntiThrash

(* The table stays well formed and within its cap, each key in it once.    *)
THEOREM RecallTypes ==
  RecallSpec => []TypeOK
<1>1. RowInv /\ RecentInv => TypeOK
  <2> SUFFICES ASSUME RowInv, RecentInv PROVE TypeOK
    OBVIOUS
  <2> PICK t : t = stored.table
    OBVIOUS
  <2>1. t \in Seq(Entry) /\ OneEach(t) /\ Len(t) <= MaxKeys /\ Len(t) \in Nat
    BY DEF RowInv, RowTypes, Tables
  <2>2. \A i \in 1 .. Len(t) : t[i] \in Entry
    BY <2>1
  <2>3. Cardinality(KeysOf(t)) = Len(t)
    <3> PICK g : g = [i \in 1 .. Len(t) |-> t[i].key]
      OBVIOUS
    <3>1. g \in Bijection(1 .. Len(t), KeysOf(t))
      BY <2>1 DEF Bijection, Injection, IsInjective, Surjection, KeysOf, OneEach
    <3>2. IsFiniteSet(1 .. Len(t)) /\ Cardinality(1 .. Len(t)) = Len(t)
      <4>1. Len(t) \in Nat
        BY <2>1
      <4> QED BY <4>1, IntervalCount
    <3>3. ExistsBijection(1 .. Len(t), KeysOf(t))
      BY <3>1 DEF ExistsBijection
    <3> QED BY <3>2, <3>3, FS_Bijection
  <2>4. Len(recent) < TTL /\ \A i \in 1 .. Len(recent) : recent[i] \in Shown
    BY DEF RecentInv, RecentIs
  <2> QED BY <2>1, <2>2, <2>3, <2>4 DEF RowInv, RowTypes, TypeOK, Shown
<1> QED BY <1>1, RowInvariant, PTL
=============================================================================
