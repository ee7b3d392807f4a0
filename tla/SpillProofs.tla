---------------------------- MODULE SpillProofs -----------------------------
(***************************************************************************)
(* Proofs about SpillStore, for any workers, refs, sizes and budgets, any  *)
(* number of calls and any number of power losses.                         *)
(*                                                                         *)
(* The workers are processes of their own: OwnProcesses.  (Two goroutines  *)
(* of one process share a temp name, and TLC shows what comes of it.)      *)
(* Then a temp name belongs to one worker, and the argument is ownership   *)
(* of inodes: no inode has two names, the inode a worker writes has the    *)
(* worker's temp name and no other, so neither a published file nor one    *)
(* that a reader has open is ever written again.                           *)
(*                                                                         *)
(* The second half is about the size of the directory: since the latest    *)
(* listing after which a worker finished its eviction, every worker has    *)
(* published at most one file.  It needs sums over finite sets, which are  *)
(* proved first.                                                           *)
(***************************************************************************)
EXTENDS SpillStore, FiniteSetTheorems, WellFoundedInduction, TLAPS

OwnProcesses == \A w, v \in Workers : Pid[w] = Pid[v] => w = v

Names == [ref : Refs, kind : {Pid[w] : w \in Workers} \cup {"out"}]
Listed == [name : [ref : Refs, kind : {"out"}], size : Nat]
Labels == {"idle", "list", "evict", "open", "write", "sync", "rename", "renamed", "read"}

(* The contents and the flag of an inode; its time plays no part here.     *)
IsFile(f) == f = [data |-> f.data, synced |-> f.synced, mtime |-> f.mtime]
Whole(i) == inodes[i].data = "full" /\ inodes[i].synced

Types ==
    /\ inodes \in Seq(Range(inodes))
    /\ \A i \in 1 .. Len(inodes) : IsFile(inodes[i])
    /\ DOMAIN dir \subseteq Names
    /\ \A n \in DOMAIN dir : dir[n] \in 1 .. Len(inodes)
    /\ pc \in [Workers -> Labels]
    /\ ref = [w \in Workers |-> ref[w]]
    /\ \A w \in Workers : pc[w] # "idle" => ref[w] \in Refs
    /\ fd \in [Workers -> Nat]
    /\ files \in [Workers -> Seq(Listed)]
    /\ recalled \in [Workers -> {"none", "expired", "full"}]

(* No inode has two names.                                                 *)
OneName == \A m, n \in DOMAIN dir : dir[m] = dir[n] => m = n

(* What a worker in the middle of tcSpillWrite owns.                       *)
Writing(w) ==
    LET tmp == Tmp(w, ref[w]) IN
    /\ pc[w] \in {"write", "sync"} => tmp \in DOMAIN dir /\ fd[w] = dir[tmp]
    /\ pc[w] = "sync" => inodes[fd[w]].data = "full"
    /\ pc[w] = "rename" => tmp \in DOMAIN dir /\ Whole(dir[tmp])

(* What a worker in the middle of TCRecall has open, evicted or not.       *)
Reading(w) ==
    pc[w] = "read" =>
        /\ fd[w] \in 1 .. Len(inodes) /\ Whole(fd[w])
        /\ \A n \in DOMAIN dir : dir[n] = fd[w] => n.kind = "out"

SInv ==
    /\ Types
    /\ OneName
    /\ \A w \in Workers : Writing(w) /\ Reading(w)
    /\ PromotedIsWhole

-----------------------------------------------------------------------------
(* A sequence of anything is one of its own elements.                      *)

LEMMA OwnRange ==
  ASSUME NEW S, NEW t \in Seq(S)
  PROVE  t \in Seq(Range(t)) /\ Len(t) \in Nat /\ DOMAIN t = 1 .. Len(t)
<1>1. Len(t) \in Nat /\ DOMAIN t = 1 .. Len(t)
  OBVIOUS
<1>2. \A i \in 1 .. Len(t) : t[i] \in Range(t)
  BY <1>1 DEF Range
<1>3. t = [i \in 1 .. Len(t) |-> t[i]]
  BY <1>1
<1> QED BY <1>1, <1>2, <1>3

(* Names: a temp name tells its worker and is never a published one.       *)
LEMMA TmpNames ==
  ASSUME OwnProcesses, NEW w \in Workers, NEW r \in Refs
  PROVE  /\ Tmp(w, r) \in Names /\ Tmp(w, r).kind = Pid[w] /\ Tmp(w, r).kind # "out"
         /\ Out(r) \in Names /\ Out(r).kind = "out"
         /\ \A v \in Workers : v # w => Pid[v] # Pid[w]
<1>1. Pid[w] # "out"
  BY SpillAssumption
<1> QED BY <1>1 DEF Tmp, Out, Names, OwnProcesses

LEMMA FileIs ==
  ASSUME NEW d, NEW b
  PROVE  IsFile(File(d, b)) /\ File(d, b).data = d /\ File(d, b).synced = b
<1> DEFINE m == Max({0} \cup {inodes[i].mtime : i \in 1 .. Len(inodes)}) + 1
<1>1. File(d, b) = [data |-> d, synced |-> b, mtime |-> m]
  BY DEF File
<1> HIDE DEF m
<1> QED BY <1>1 DEF IsFile

(* One inode is written, or a new one is added.                            *)
LEMMA Rewritten ==
  ASSUME Types, NEW k \in 1 .. Len(inodes), NEW val, IsFile(val),
         inodes' = [inodes EXCEPT ![k] = val]
  PROVE  /\ inodes' \in Seq(Range(inodes')) /\ Len(inodes) \in Nat /\ Len(inodes') = Len(inodes)
         /\ inodes'[k] = val /\ \A i \in 1 .. Len(inodes) : i # k => inodes'[i] = inodes[i]
         /\ \A i \in 1 .. Len(inodes') : IsFile(inodes'[i])
<1>1. inodes \in Seq(Range(inodes)) /\ \A i \in 1 .. Len(inodes) : IsFile(inodes[i])
  BY DEF Types
<1>2. inodes \in Seq(Range(inodes) \cup {val}) /\ Len(inodes) \in Nat
  BY <1>1
<1>3. /\ inodes' \in Seq(Range(inodes) \cup {val}) /\ Len(inodes') = Len(inodes)
      /\ inodes'[k] = val /\ \A i \in 1 .. Len(inodes) : i # k => inodes'[i] = inodes[i]
  BY <1>2
<1>4. inodes' \in Seq(Range(inodes'))
  BY <1>3, OwnRange
<1> QED BY <1>1, <1>2, <1>3, <1>4

LEMMA Created ==
  ASSUME Types, NEW val, IsFile(val), inodes' = Append(inodes, val)
  PROVE  /\ inodes' \in Seq(Range(inodes')) /\ Len(inodes) \in Nat /\ Len(inodes') = Len(inodes) + 1
         /\ inodes'[Len(inodes) + 1] = val /\ \A i \in 1 .. Len(inodes) : inodes'[i] = inodes[i]
         /\ \A i \in 1 .. Len(inodes') : IsFile(inodes'[i])
<1>1. inodes \in Seq(Range(inodes)) /\ \A i \in 1 .. Len(inodes) : IsFile(inodes[i])
  BY DEF Types
<1>2. inodes \in Seq(Range(inodes) \cup {val}) /\ Len(inodes) \in Nat
  BY <1>1
<1>3. /\ inodes' \in Seq(Range(inodes) \cup {val}) /\ Len(inodes') = Len(inodes) + 1
      /\ inodes'[Len(inodes) + 1] = val /\ \A i \in 1 .. Len(inodes) : inodes'[i] = inodes[i]
  BY <1>2
<1>4. inodes' \in Seq(Range(inodes'))
  BY <1>3, OwnRange
<1>5. \A i \in 1 .. Len(inodes') : i = Len(inodes) + 1 \/ i \in 1 .. Len(inodes)
  BY <1>2, <1>3
<1> QED BY <1>1, <1>2, <1>3, <1>4, <1>5

-----------------------------------------------------------------------------
(* A step of worker w keeps to inode k, which is new or has a temp name of *)
(* w and no other, and to the published names and its own temp names.      *)
KeepsTo(w, k) ==
    /\ Len(inodes') \in Nat /\ Len(inodes) <= Len(inodes')
    /\ \A i \in 1 .. Len(inodes) : i # k => inodes'[i] = inodes[i]
    /\ \A n \in DOMAIN dir : dir[n] = k => n.kind = Pid[w]
    /\ \A n \in DOMAIN dir : n.kind \notin {"out", Pid[w]} =>
          n \in DOMAIN dir' /\ dir'[n] = dir[n]
    /\ \A n \in DOMAIN dir' : n.kind # "out" =>
          (n \in DOMAIN dir /\ dir'[n] = dir[n]) \/ dir'[n] = k
    /\ \A u \in Workers : pc[u] = "read" => fd[u] # k
    /\ \A v \in Workers : v # w => pc'[v] = pc[v] /\ ref'[v] = ref[v] /\ fd'[v] = fd[v]

(* Such a step does not disturb another worker.                            *)
LEMMA Others ==
  ASSUME OwnProcesses, SInv, NEW w \in Workers, NEW k, KeepsTo(w, k),
         NEW v \in Workers, v # w
  PROVE  Writing(v)' /\ Reading(v)'
<1> USE DEF KeepsTo
<1>0. Types /\ Writing(v) /\ Reading(v)
  BY DEF SInv
<1>1. Writing(v)'
  <2> DEFINE tmp == Tmp(v, ref[v])
  <2>1. pc[v] = "idle" \/ ref[v] \in Refs
    BY <1>0 DEF Types
  <2>2. CASE pc[v] \in {"write", "sync", "rename"}
    <3>1. ref[v] \in Refs
      BY <2>1, <2>2
    <3>2. /\ tmp \in Names /\ tmp.kind \notin {"out", Pid[w]}
      BY <3>1, TmpNames
    <3>3. tmp \in DOMAIN dir
      BY <1>0, <2>2 DEF Writing
    <3>4. tmp \in DOMAIN dir' /\ dir'[tmp] = dir[tmp] /\ dir[tmp] # k
      BY <3>2, <3>3
    <3>5. dir[tmp] \in 1 .. Len(inodes)
      BY <1>0, <3>3 DEF Types
    <3>6. inodes'[dir[tmp]] = inodes[dir[tmp]]
      BY <3>4, <3>5
    <3>7. Tmp(v, ref'[v]) = tmp
      OBVIOUS
    <3> QED BY <1>0, <3>4, <3>6, <3>7 DEF Writing, Whole
  <2>3. CASE pc[v] \notin {"write", "sync", "rename"}
    BY <2>3 DEF Writing
  <2> QED BY <2>2, <2>3
<1>2. Reading(v)'
  <2> SUFFICES ASSUME pc[v] = "read"
               PROVE  /\ fd[v] \in 1 .. Len(inodes') /\ inodes'[fd[v]].data = "full"
                      /\ inodes'[fd[v]].synced
                      /\ \A n \in DOMAIN dir' : dir'[n] = fd[v] => n.kind = "out"
    BY DEF Reading, Whole
  <2>1. /\ fd[v] \in 1 .. Len(inodes) /\ Whole(fd[v]) /\ fd[v] # k
        /\ \A n \in DOMAIN dir : dir[n] = fd[v] => n.kind = "out"
    BY <1>0 DEF Reading
  <2>2. inodes'[fd[v]] = inodes[fd[v]]
    BY <2>1
  <2>3. Len(inodes) \in Nat
    BY <1>0, OwnRange DEF Types
  <2>4. fd[v] \in 1 .. Len(inodes')
    BY <2>1, <2>3
  <2>5. ASSUME NEW n \in DOMAIN dir', dir'[n] = fd[v] PROVE n.kind = "out"
    BY <2>1, <2>5
  <2> QED BY <2>1, <2>2, <2>4, <2>5 DEF Whole
<1> QED BY <1>1, <1>2

(* Steps that leave the file system alone.                                 *)
LEMMA SameFiles ==
  ASSUME OwnProcesses, SInv, NEW w \in Workers, UNCHANGED fs, Types',
         \A v \in Workers : v # w => pc'[v] = pc[v] /\ ref'[v] = ref[v] /\ fd'[v] = fd[v],
         Writing(w)', Reading(w)'
  PROVE  SInv'
<1>1. inodes' = inodes /\ dir' = dir
  BY DEF fs
<1>2. ASSUME NEW v \in Workers PROVE Writing(v)' /\ Reading(v)'
  <2>1. CASE v = w
    BY <2>1
  <2>2. CASE v # w
    <3>1. pc'[v] = pc[v] /\ ref'[v] = ref[v] /\ fd'[v] = fd[v]
      BY <2>2
    <3>2. Writing(v) /\ Reading(v)
      BY DEF SInv
    <3> QED BY <1>1, <3>1, <3>2 DEF Writing, Reading, Whole, Tmp
  <2> QED BY <2>1, <2>2
<1>3. OneName' /\ PromotedIsWhole'
  BY <1>1 DEF SInv, OneName, PromotedIsWhole, OutNames
<1> QED BY <1>2, <1>3 DEF SInv

(* Names are as few as inodes.                                             *)
LEMMA FiniteDir ==
  ASSUME SInv
  PROVE  IsFiniteSet(DOMAIN dir)
<1> DEFINE f == [n \in DOMAIN dir |-> dir[n]]
           T == 1 .. Len(inodes)
<1>1. f \in Injection(DOMAIN dir, T)
  <2>1. f \in [DOMAIN dir -> T]
    BY DEF SInv, Types
  <2>2. \A a, b \in DOMAIN dir : f[a] = f[b] => a = b
    BY DEF SInv, OneName
  <2> HIDE DEF f
  <2> QED BY <2>1, <2>2 DEF Injection, IsInjective
<1>2. Len(inodes) \in Nat
  BY OwnRange DEF SInv, Types
<1>3. IsFiniteSet(T)
  BY <1>2, FS_Interval
<1> HIDE DEF f, T
<1> QED BY <1>1, <1>3, FS_Injection

(* TCApply up to the write, its return, and TCRecall.                      *)
LEMMA QuietStep ==
  ASSUME OwnProcesses, SInv, NEW w \in Workers,
         \/ \E r \in Refs : TCApply(w, r) \/ RecallOpen(w, r) \/ RecallExpired(w, r)
         \/ EvictBlind(w) \/ EvictList(w) \/ EvictFails(w) \/ EvictDone(w)
         \/ Ship(w) \/ RecallRead(w)
  PROVE  SInv'
<1> USE DEF Goto, Begin, fs
<1>0. Types /\ Writing(w) /\ Reading(w)
  BY DEF SInv
<1>1. ASSUME NEW r \in Refs, TCApply(w, r) PROVE SInv'
  <2>1. Types'
    BY <1>0, <1>1 DEF TCApply, Types, Labels, IsFile
  <2>2. Writing(w)' /\ Reading(w)'
    BY <1>0, <1>1 DEF TCApply, Types, Writing, Reading
  <2> QED BY <1>0, <1>1, <2>1, <2>2, SameFiles DEF TCApply, Types
<1>2. ASSUME NEW r \in Refs, RecallOpen(w, r) PROVE SInv'
  <2>1. dir[Out(r)] \in 1 .. Len(inodes) /\ Len(inodes) \in Nat
    BY <1>0, <1>2, OwnRange DEF RecallOpen, Types
  <2>2. Types'
    <3>1. dir[Out(r)] \in Nat
      BY <2>1
    <3>2. fd' \in [Workers -> Nat] /\ pc' \in [Workers -> Labels]
      BY <1>0, <1>2, <3>1 DEF RecallOpen, Types, Labels
    <3>3. /\ ref' = [v \in Workers |-> ref'[v]]
          /\ \A v \in Workers : pc'[v] # "idle" => ref'[v] \in Refs
      BY <1>0, <1>2 DEF RecallOpen, Types
    <3> QED BY <1>0, <1>2, <3>2, <3>3 DEF RecallOpen, Types, IsFile
  <2>3. /\ pc'[w] = "read" /\ fd'[w] = dir[Out(r)] /\ UNCHANGED <<inodes, dir>>
        /\ Out(r) \in DOMAIN dir
    BY <1>0, <1>2 DEF RecallOpen, Types
  <2>4. Writing(w)'
    BY <2>3 DEF Writing
  <2>5. Out(r).kind = "out"
    BY DEF Out
  <2>6. Whole(dir[Out(r)]) /\ \A n \in DOMAIN dir : dir[n] = dir[Out(r)] => n = Out(r)
    BY <2>3, <2>5 DEF SInv, PromotedIsWhole, OutNames, OneName, Whole
  <2>7. Reading(w)'
    BY <2>1, <2>3, <2>5, <2>6 DEF Reading, Whole
  <2> QED BY <1>0, <1>2, <2>2, <2>4, <2>7, SameFiles DEF RecallOpen, Types
<1>3. ASSUME NEW r \in Refs, RecallExpired(w, r) PROVE SInv'
  <2>1. Types'
    BY <1>0, <1>3 DEF RecallExpired, Types, IsFile
  <2>2. Writing(w)' /\ Reading(w)'
    BY <1>0, <1>3 DEF RecallExpired, Writing, Reading
  <2> QED BY <1>0, <1>3, <2>1, <2>2, SameFiles DEF RecallExpired, Types
<1>4. CASE EvictList(w)
  <2>1. PICK missed \in SUBSET OutNames(dir) : \E order \in Orders(OutNames(dir) \ missed) :
          files' = [files EXCEPT ![w] = Listing(order)]
    BY <1>4 DEF EvictList
  <2> DEFINE seen == OutNames(dir) \ missed
  <2>2. PICK order \in Orders(seen) : files' = [files EXCEPT ![w] = Listing(order)]
    BY <2>1
  <2>3. Listing(order) \in Seq(Listed)
    <3> DEFINE c == Cardinality(seen)
    <3>0. order \in [1 .. c -> seen]
      BY DEF Orders, Bijection, Injection
    <3>1. DOMAIN order = 1 .. c /\ \A i \in 1 .. c : order[i] \in OutNames(dir)
      BY <3>0
    <3>2. \A n \in OutNames(dir) : n \in [ref : Refs, kind : {"out"}]
      BY <1>0 DEF OutNames, Types, Names
    <3>3. \A n \in OutNames(dir) : SizeOf(n) \in Nat
      <4>1. \A r \in Refs : Bytes[r] \in Nat
        BY SpillAssumption
      <4> QED BY <3>2, <4>1 DEF SizeOf
    <3>4. Listing(order) = [i \in 1 .. c |-> [name |-> order[i], size |-> SizeOf(order[i])]]
      BY <3>1 DEF Listing
    <3>5. \A i \in 1 .. c : [name |-> order[i], size |-> SizeOf(order[i])] \in Listed
      BY <3>1, <3>2, <3>3 DEF Listed
    <3>6. c \in Nat
      <4>1. IsFiniteSet(DOMAIN dir)
        BY FiniteDir
      <4>2. seen \in SUBSET DOMAIN dir
        BY DEF OutNames
      <4>3. IsFiniteSet(seen)
        BY <4>1, <4>2, FS_Subset
      <4> QED BY <4>3, FS_CardinalityType
    <3> HIDE DEF c
    <3>7. [i \in 1 .. c |-> [name |-> order[i], size |-> SizeOf(order[i])]] \in [1 .. c -> Listed]
      BY <3>5
    <3> QED BY <3>4, <3>6, <3>7
  <2>4. Types'
    BY <1>0, <1>4, <2>2, <2>3 DEF EvictList, Types, Labels, IsFile
  <2>5. Writing(w)' /\ Reading(w)'
    BY <1>0, <1>4 DEF EvictList, Types, Writing, Reading
  <2> QED BY <1>0, <1>4, <2>4, <2>5, SameFiles DEF EvictList, Types
<1>5. CASE EvictDone(w)
  <2>1. Types'
    BY <1>0, <1>5 DEF EvictDone, Types, Labels, IsFile
  <2>2. Writing(w)' /\ Reading(w)'
    BY <1>0, <1>5 DEF EvictDone, Types, Writing, Reading
  <2> QED BY <1>0, <1>5, <2>1, <2>2, SameFiles DEF EvictDone, Types
<1>6. CASE Ship(w)
  <2>1. Types'
    BY <1>0, <1>6 DEF Ship, Types, Labels, IsFile
  <2>2. Writing(w)' /\ Reading(w)'
    BY <1>0, <1>6 DEF Ship, Types, Writing, Reading
  <2> QED BY <1>0, <1>6, <2>1, <2>2, SameFiles DEF Ship, Types
<1>7. CASE RecallRead(w)
  <2>1. inodes[fd[w]].data = "full"
    BY <1>0, <1>7 DEF RecallRead, Reading, Whole
  <2>2. Types'
    BY <1>0, <1>7, <2>1 DEF RecallRead, Types, Labels, IsFile
  <2>3. Writing(w)' /\ Reading(w)'
    BY <1>0, <1>7 DEF RecallRead, Types, Writing, Reading
  <2> QED BY <1>0, <1>7, <2>2, <2>3, SameFiles DEF RecallRead, Types
<1>8. CASE EvictBlind(w)
  <2>1. Types'
    BY <1>0, <1>8 DEF EvictBlind, Types, Labels, IsFile
  <2>2. Writing(w)' /\ Reading(w)'
    BY <1>0, <1>8 DEF EvictBlind, Types, Writing, Reading
  <2> QED BY <1>0, <1>8, <2>1, <2>2, SameFiles DEF EvictBlind, Types
<1>9. CASE EvictFails(w)
  <2>1. files[w] \in Seq(Listed) /\ files[w] # <<>>
    BY <1>0, <1>9 DEF EvictFails, Visits, Types
  <2>2. Tail(files[w]) \in Seq(Listed)
    BY <2>1
  <2>3. files' = [files EXCEPT ![w] = Tail(files[w])]
        /\ UNCHANGED <<inodes, dir, pc, ref, fd, recalled>>
    BY <1>9 DEF EvictFails, Visits
  <2>4. Types'
    BY <1>0, <2>2, <2>3 DEF Types, IsFile
  <2>5. Writing(w)' /\ Reading(w)'
    BY <1>0, <2>3 DEF Writing, Reading, Whole, Tmp
  <2> QED BY <1>0, <2>3, <2>4, <2>5, SameFiles DEF Types
<1> QED BY <1>1, <1>2, <1>3, <1>4, <1>5, <1>6, <1>7, <1>8, <1>9

(* Eviction removes a published name; who has the file open keeps it.      *)
LEMMA EvictStep ==
  ASSUME OwnProcesses, SInv, NEW w \in Workers, EvictOldest(w)
  PROVE  SInv'
<1> DEFINE f == Head(files[w])
<1>0. Types /\ OneName /\ PromotedIsWhole /\ \A v \in Workers : Writing(v) /\ Reading(v)
  BY DEF SInv
<1>1. /\ dir' = Unlink(f.name) /\ files[w] # <<>> /\ pc[w] = "evict"
      /\ files' = [files EXCEPT ![w] = Tail(files[w])]
      /\ UNCHANGED <<inodes, pc, ref, fd, recalled>>
  BY DEF EvictOldest, Visits
<1>2. files[w] \in Seq(Listed)
  BY <1>0 DEF Types
<1>3. f \in Listed /\ Tail(files[w]) \in Seq(Listed)
  BY <1>1, <1>2
<1>4. f.name.kind = "out"
  BY <1>3 DEF Listed
<1> HIDE DEF f
<1>5. /\ DOMAIN dir' = DOMAIN dir \ {f.name}
      /\ \A n \in DOMAIN dir' : n \in DOMAIN dir /\ dir'[n] = dir[n]
      /\ \A n \in DOMAIN dir : n.kind # "out" => n \in DOMAIN dir' /\ dir'[n] = dir[n]
  BY <1>1, <1>4 DEF Unlink
<1>6. Types'
  BY <1>0, <1>1, <1>3, <1>5 DEF Types, IsFile
<1>7. OneName' /\ PromotedIsWhole'
  BY <1>0, <1>1, <1>5 DEF OneName, PromotedIsWhole, OutNames
<1>8. ASSUME NEW v \in Workers PROVE Writing(v)' /\ Reading(v)'
  <2>1. pc[v] \in {"write", "sync", "rename"} => Tmp(v, ref[v]).kind # "out"
    BY <1>0, TmpNames DEF Types
  <2>2. Writing(v)'
    BY <1>0, <1>1, <1>5, <2>1 DEF Writing, Whole, Tmp
  <2>3. Reading(v)'
    BY <1>0, <1>1, <1>5 DEF Reading, Whole
  <2> QED BY <2>2, <2>3
<1> QED BY <1>6, <1>7, <1>8 DEF SInv

(* Steps that change one inode, its worker's, and no name.                 *)
LEMMA WriteStep ==
  ASSUME OwnProcesses, SInv, NEW w \in Workers, pc[w] \in {"write", "sync"},
         NEW val, IsFile(val), inodes' = [inodes EXCEPT ![fd[w]] = val],
         dir' = dir, pc' \in [Workers -> Labels], fd' \in [Workers -> Nat],
         UNCHANGED <<ref, files, recalled>>,
         \A v \in Workers : v # w => pc'[v] = pc[v] /\ fd'[v] = fd[v],
         \/ pc'[w] = "sync" /\ fd'[w] = fd[w] /\ val.data = "full"
         \/ pc'[w] = "rename" /\ val.data = "full" /\ val.synced
  PROVE  SInv'
<1> SUFFICES ASSUME NEW k, k = fd[w] PROVE SInv'
  OBVIOUS
<1> DEFINE tmp == Tmp(w, ref[w])
<1>0. Types /\ OneName /\ PromotedIsWhole /\ Writing(w) /\ \A v \in Workers : Reading(v)
  BY DEF SInv
<1>1. ref[w] \in Refs /\ tmp.kind = Pid[w] /\ tmp.kind # "out"
  BY <1>0, TmpNames DEF Types
<1>2. tmp \in DOMAIN dir /\ k = dir[tmp] /\ k \in 1 .. Len(inodes)
  BY <1>0 DEF Writing, Types
<1>3. \A n \in DOMAIN dir : dir[n] = k => n = tmp
  BY <1>0, <1>2 DEF OneName
<1>4. /\ inodes' \in Seq(Range(inodes')) /\ Len(inodes) \in Nat /\ Len(inodes') = Len(inodes)
      /\ inodes'[k] = val /\ \A i \in 1 .. Len(inodes) : i # k => inodes'[i] = inodes[i]
      /\ \A i \in 1 .. Len(inodes') : IsFile(inodes'[i])
  BY <1>0, <1>2, Rewritten
<1> HIDE DEF tmp
<1>7. Types'
  <2>1. \A v \in Workers : pc'[v] # "idle" => ref'[v] \in Refs
    BY <1>0, <1>1 DEF Types
  <2>2. \A n \in DOMAIN dir' : dir'[n] \in 1 .. Len(inodes')
    BY <1>0, <1>4 DEF Types
  <2>3. ref' = [v \in Workers |-> ref'[v]] /\ DOMAIN dir' \subseteq Names
    BY <1>0 DEF Types
  <2>4. files' \in [Workers -> Seq(Listed)] /\ recalled' \in [Workers -> {"none", "expired", "full"}]
    BY <1>0 DEF Types
  <2> QED BY <1>4, <2>1, <2>2, <2>3, <2>4 DEF Types, IsFile
<1>8. OneName'
  BY <1>0 DEF OneName
<1>9. PromotedIsWhole'
  <2> SUFFICES ASSUME NEW n \in DOMAIN dir, n.kind = "out"
               PROVE  inodes'[dir[n]].data = "full" /\ inodes'[dir[n]].synced
    BY DEF PromotedIsWhole, OutNames
  <2>1. dir[n] # k /\ dir[n] \in 1 .. Len(inodes)
    BY <1>0, <1>1, <1>3 DEF Types
  <2> QED BY <1>0, <1>4, <2>1 DEF PromotedIsWhole, OutNames
<1>10. \A u \in Workers : pc[u] = "read" => fd[u] # k
  BY <1>0, <1>1, <1>2 DEF Reading
<1>11. KeepsTo(w, k)
  <2>2. Len(inodes') \in Nat /\ Len(inodes) <= Len(inodes')
    BY <1>4
  <2>3. \A n \in DOMAIN dir : dir[n] = k => n.kind = Pid[w]
    BY <1>1, <1>3
  <2> QED BY <1>4, <1>10, <2>2, <2>3 DEF KeepsTo
<1>12. Writing(w)' /\ Reading(w)'
  <2>1. Tmp(w, ref'[w]) = tmp
    BY DEF tmp
  <2>2. Writing(w)'
    BY <1>2, <1>4, <2>1 DEF Writing, Whole
  <2>3. Reading(w)'
    BY DEF Reading
  <2> QED BY <2>2, <2>3
<1> QED BY <1>7, <1>8, <1>9, <1>11, <1>12, Others DEF SInv

(* Opening the temp file, new or left behind, publishes nothing.           *)
LEMMA OpenStep ==
  ASSUME OwnProcesses, SInv, NEW w \in Workers, SpillOpen(w)
  PROVE  SInv'
<1> DEFINE tmp == Tmp(w, ref[w])
           val == File("empty", FALSE)
<1> SUFFICES ASSUME NEW k, k = Opened(tmp) PROVE SInv'
  OBVIOUS
<1>0. Types /\ OneName /\ PromotedIsWhole /\ \A v \in Workers : Reading(v)
  BY DEF SInv
<1>1. /\ pc[w] = "open" /\ pc' = [pc EXCEPT ![w] = "write"] /\ fd' = [fd EXCEPT ![w] = k]
      /\ dir' = Link(dir, tmp, k) /\ UNCHANGED <<ref, files, recalled>>
      /\ inodes' = IF tmp \in DOMAIN dir THEN [inodes EXCEPT ![k] = val] ELSE Append(inodes, val)
  BY DEF SpillOpen, Goto
<1>2. ref[w] \in Refs /\ tmp \in Names /\ tmp.kind = Pid[w] /\ tmp.kind # "out"
  BY <1>0, <1>1, TmpNames DEF Types
<1>3. IsFile(val)
  BY FileIs
<1> HIDE DEF tmp, val
<1>4. /\ DOMAIN dir' = DOMAIN dir \cup {tmp} /\ dir'[tmp] = k
      /\ \A n \in DOMAIN dir : n # tmp => dir'[n] = dir[n]
  BY <1>1 DEF Link
<1>5. /\ inodes' \in Seq(Range(inodes')) /\ Len(inodes') \in Nat /\ Len(inodes) \in Nat
      /\ Len(inodes) <= Len(inodes') /\ k \in 1 .. Len(inodes')
      /\ \A i \in 1 .. Len(inodes) : i # k => inodes'[i] = inodes[i]
      /\ \A i \in 1 .. Len(inodes') : IsFile(inodes'[i])
      /\ \A n \in DOMAIN dir : dir[n] = k => n = tmp
      /\ \A u \in Workers : pc[u] = "read" => fd[u] # k
  <2>1. CASE tmp \in DOMAIN dir
    <3>1. k = dir[tmp] /\ k \in 1 .. Len(inodes) /\ inodes' = [inodes EXCEPT ![k] = val]
      BY <1>0, <1>1, <2>1 DEF Opened, Types
    <3>2. /\ inodes' \in Seq(Range(inodes')) /\ Len(inodes) \in Nat /\ Len(inodes') = Len(inodes)
          /\ \A i \in 1 .. Len(inodes) : i # k => inodes'[i] = inodes[i]
          /\ \A i \in 1 .. Len(inodes') : IsFile(inodes'[i])
      BY <1>0, <1>3, <3>1, Rewritten
    <3>3. \A n \in DOMAIN dir : dir[n] = k => n = tmp
      BY <1>0, <2>1, <3>1 DEF OneName
    <3>4. \A u \in Workers : pc[u] = "read" => fd[u] # k
      BY <1>0, <1>2, <2>1, <3>1 DEF Reading
    <3> QED BY <3>1, <3>2, <3>3, <3>4
  <2>2. CASE tmp \notin DOMAIN dir
    <3>1. k = Len(inodes) + 1 /\ inodes' = Append(inodes, val)
      BY <1>1, <2>2 DEF Opened
    <3>2. /\ inodes' \in Seq(Range(inodes')) /\ Len(inodes) \in Nat /\ Len(inodes') = Len(inodes) + 1
          /\ \A i \in 1 .. Len(inodes) : inodes'[i] = inodes[i]
          /\ \A i \in 1 .. Len(inodes') : IsFile(inodes'[i])
      BY <1>0, <1>3, <3>1, Created
    <3>3. k \notin 1 .. Len(inodes)
      BY <3>1, <3>2
    <3>4. \A n \in DOMAIN dir : dir[n] # k
      BY <1>0, <3>3 DEF Types
    <3>5. \A u \in Workers : pc[u] = "read" => fd[u] # k
      BY <1>0, <3>3 DEF Reading
    <3> QED BY <3>1, <3>2, <3>4, <3>5
  <2> QED BY <2>1, <2>2
<1>6. Types'
  <2>1. pc' \in [Workers -> Labels]
    BY <1>0, <1>1 DEF Types, Labels
  <2>2. fd' \in [Workers -> Nat]
    BY <1>0, <1>1, <1>5 DEF Types
  <2>3. \A v \in Workers : pc'[v] # "idle" => ref'[v] \in Refs
    BY <1>0, <1>1, <1>2 DEF Types
  <2>4. \A n \in DOMAIN dir' : dir'[n] \in 1 .. Len(inodes')
    BY <1>0, <1>4, <1>5 DEF Types
  <2>5. ref' = [v \in Workers |-> ref'[v]] /\ DOMAIN dir' \subseteq Names
    BY <1>0, <1>1, <1>2, <1>4 DEF Types
  <2>6. files' \in [Workers -> Seq(Listed)] /\ recalled' \in [Workers -> {"none", "expired", "full"}]
    BY <1>0, <1>1 DEF Types
  <2> QED BY <1>5, <2>1, <2>2, <2>3, <2>4, <2>5, <2>6 DEF Types, IsFile
<1>7. OneName'
  BY <1>0, <1>4, <1>5 DEF OneName
<1>8. PromotedIsWhole'
  <2> SUFFICES ASSUME NEW n \in DOMAIN dir', n.kind = "out"
               PROVE  inodes'[dir'[n]].data = "full" /\ inodes'[dir'[n]].synced
    BY DEF PromotedIsWhole, OutNames
  <2>1. n \in DOMAIN dir /\ n # tmp /\ dir'[n] = dir[n] /\ dir[n] # k
    BY <1>2, <1>4, <1>5
  <2>2. dir[n] \in 1 .. Len(inodes)
    BY <1>0, <2>1 DEF Types
  <2>3. inodes'[dir[n]] = inodes[dir[n]]
    BY <1>5, <2>1, <2>2
  <2> QED BY <1>0, <2>1, <2>3 DEF PromotedIsWhole, OutNames
<1>9. KeepsTo(w, k)
  <2>1. \A v \in Workers : v # w => pc'[v] = pc[v] /\ ref'[v] = ref[v] /\ fd'[v] = fd[v]
    BY <1>0, <1>1 DEF Types
  <2> QED BY <1>2, <1>4, <1>5, <2>1 DEF KeepsTo
<1>10. Writing(w)' /\ Reading(w)'
  <2>1. pc'[w] = "write" /\ fd'[w] = k /\ Tmp(w, ref'[w]) = tmp
    BY <1>0, <1>1 DEF Types, tmp
  <2> QED BY <1>4, <2>1 DEF Writing, Reading
<1> QED BY <1>6, <1>7, <1>8, <1>9, <1>10, Others DEF SInv

LEMMA SyncedStep ==
  ASSUME OwnProcesses, SInv, NEW w \in Workers, SpillWriteString(w) \/ SpillSync(w)
  PROVE  SInv'
<1>0. Types /\ Writing(w)
  BY DEF SInv
<1>1. CASE SpillWriteString(w)
  <2>1. /\ pc[w] = "write" /\ inodes' = [inodes EXCEPT ![fd[w]] = File("full", FALSE)]
        /\ pc' = [pc EXCEPT ![w] = "sync"] /\ UNCHANGED <<dir, ref, fd, files, recalled>>
    BY <1>1 DEF SpillWriteString, Goto
  <2>2. IsFile(File("full", FALSE)) /\ File("full", FALSE).data = "full"
    BY FileIs
  <2>3. /\ pc' \in [Workers -> Labels] /\ fd' \in [Workers -> Nat]
        /\ pc'[w] = "sync" /\ fd'[w] = fd[w]
        /\ \A v \in Workers : v # w => pc'[v] = pc[v] /\ fd'[v] = fd[v]
    BY <1>0, <2>1 DEF Types, Labels
  <2>4. PICK val : val = File("full", FALSE)
    OBVIOUS
  <2> QED BY <2>1, <2>2, <2>3, <2>4, WriteStep
<1>2. CASE SpillSync(w)
  <2>1. /\ pc[w] = "sync" /\ inodes' = [inodes EXCEPT ![fd[w]] = [inodes[fd[w]] EXCEPT !.synced = TRUE]]
        /\ pc' = [pc EXCEPT ![w] = "rename"] /\ fd' = [fd EXCEPT ![w] = 0]
        /\ UNCHANGED <<dir, ref, files, recalled>>
    BY <1>2 DEF SpillSync, Goto
  <2>2. fd[w] \in 1 .. Len(inodes) /\ inodes[fd[w]].data = "full" /\ IsFile(inodes[fd[w]])
    BY <1>0, <2>1 DEF Writing, Types
  <2>3. PICK val : val = [inodes[fd[w]] EXCEPT !.synced = TRUE]
    OBVIOUS
  <2>4. IsFile(val) /\ val.data = "full" /\ val.synced
    BY <2>2, <2>3 DEF IsFile
  <2>5. /\ pc' \in [Workers -> Labels] /\ fd' \in [Workers -> Nat] /\ pc'[w] = "rename"
        /\ \A v \in Workers : v # w => pc'[v] = pc[v] /\ fd'[v] = fd[v]
    BY <1>0, <2>1 DEF Types, Labels
  <2> QED BY <2>1, <2>3, <2>4, <2>5, WriteStep
<1> QED BY <1>1, <1>2

(* The rename publishes a file that is whole and on disk, and takes its    *)
(* only other name from it.                                                *)
LEMMA RenameStep ==
  ASSUME OwnProcesses, SInv, NEW w \in Workers, SpillRename(w)
  PROVE  SInv'
<1> DEFINE tmp == Tmp(w, ref[w])
           out == Out(ref[w])
<1> SUFFICES ASSUME NEW k, k = dir[tmp] PROVE SInv'
  OBVIOUS
<1>0. Types /\ OneName /\ PromotedIsWhole /\ Writing(w) /\ \A v \in Workers : Reading(v)
  BY DEF SInv
<1>1. /\ pc[w] = "rename" /\ pc' = [pc EXCEPT ![w] = "renamed"] /\ tmp \in DOMAIN dir
      /\ dir' = Link(Unlink(tmp), out, k) /\ UNCHANGED <<inodes, ref, fd, files, recalled>>
  BY DEF SpillRename, Goto
<1>2. /\ ref[w] \in Refs /\ tmp.kind = Pid[w] /\ tmp.kind # "out"
      /\ out \in Names /\ out.kind = "out"
  BY <1>0, <1>1, TmpNames DEF Types
<1>3. Whole(k) /\ k \in 1 .. Len(inodes) /\ Len(inodes) \in Nat
  BY <1>0, <1>1, OwnRange DEF Writing, Types
<1> HIDE DEF tmp, out
<1>4. /\ DOMAIN dir' = (DOMAIN dir \ {tmp}) \cup {out} /\ dir'[out] = k
      /\ \A n \in DOMAIN dir : n # tmp /\ n # out => dir'[n] = dir[n]
  BY <1>1 DEF Link, Unlink
<1>5. \A n \in DOMAIN dir : dir[n] = k => n = tmp
  BY <1>0, <1>1 DEF OneName
<1>6. Types'
  <2>1. pc' \in [Workers -> Labels]
    BY <1>0, <1>1 DEF Types, Labels
  <2>2. \A v \in Workers : pc'[v] # "idle" => ref'[v] \in Refs
    BY <1>0, <1>1, <1>2 DEF Types
  <2>3. DOMAIN dir' \subseteq Names /\ \A n \in DOMAIN dir' : dir'[n] \in 1 .. Len(inodes)
    BY <1>0, <1>2, <1>3, <1>4 DEF Types
  <2> QED BY <1>0, <1>1, <2>1, <2>2, <2>3 DEF Types, IsFile
<1>7. OneName'
  BY <1>0, <1>4, <1>5 DEF OneName
<1>8. PromotedIsWhole'
  BY <1>0, <1>1, <1>3, <1>4 DEF PromotedIsWhole, OutNames, Whole
<1>9. KeepsTo(w, k)
  <2>1. \A v \in Workers : v # w => pc'[v] = pc[v] /\ ref'[v] = ref[v] /\ fd'[v] = fd[v]
    BY <1>0, <1>1 DEF Types
  <2>2. \A u \in Workers : pc[u] = "read" => fd[u] # k
    BY <1>0, <1>1, <1>2 DEF Reading
  <2> QED BY <1>1, <1>2, <1>3, <1>4, <1>5, <2>1, <2>2 DEF KeepsTo
<1>10. Writing(w)' /\ Reading(w)'
  <2>1. pc'[w] = "renamed"
    BY <1>0, <1>1 DEF Types
  <2> QED BY <2>1 DEF Writing, Reading
<1> QED BY <1>6, <1>7, <1>8, <1>9, <1>10, Others DEF SInv

(* A failed write spoils and removes the worker's temp file only.          *)
LEMMA FailStep ==
  ASSUME OwnProcesses, SInv, NEW w \in Workers, SpillFails(w)
  PROVE  SInv'
<1> DEFINE tmp == Tmp(w, ref[w])
           val == File("part", FALSE)
<1>0. Types /\ OneName /\ PromotedIsWhole /\ Writing(w) /\ \A v \in Workers : Reading(v)
  BY DEF SInv
<1>1. /\ pc[w] \in {"open", "write", "sync", "rename"} /\ pc' = [pc EXCEPT ![w] = "idle"]
      /\ fd' = [fd EXCEPT ![w] = 0] /\ UNCHANGED <<ref, files, recalled>>
  BY DEF SpillFails, Goto
<1>2. /\ pc' \in [Workers -> Labels] /\ fd' \in [Workers -> Nat] /\ pc'[w] = "idle"
      /\ \A v \in Workers : v # w => pc'[v] = pc[v] /\ ref'[v] = ref[v] /\ fd'[v] = fd[v]
      /\ \A v \in Workers : pc'[v] # "idle" => ref'[v] \in Refs
      /\ ref' = [v \in Workers |-> ref'[v]]
      /\ files' \in [Workers -> Seq(Listed)] /\ recalled' \in [Workers -> {"none", "expired", "full"}]
  BY <1>0, <1>1 DEF Types, Labels
<1>3. Writing(w)' /\ Reading(w)'
  BY <1>2 DEF Writing, Reading
<1>4. CASE pc[w] = "open"
  <2>1. inodes' = inodes /\ dir' = dir
    BY <1>4 DEF SpillFails
  <2>2. Types'
    BY <1>0, <1>2, <2>1 DEF Types, IsFile
  <2> QED BY <1>2, <1>3, <2>1, <2>2, SameFiles DEF fs
<1>5. CASE pc[w] # "open"
  <2> SUFFICES ASSUME NEW k, k = dir[tmp] PROVE SInv'
    OBVIOUS
  <2>1. /\ dir' = Unlink(tmp)
        /\ inodes' = IF pc[w] = "write" THEN [inodes EXCEPT ![fd[w]] = val] ELSE inodes
    BY <1>5 DEF SpillFails
  <2>2. ref[w] \in Refs /\ tmp.kind = Pid[w] /\ tmp.kind # "out"
    BY <1>0, <1>1, TmpNames DEF Types
  <2>3. tmp \in DOMAIN dir /\ k \in 1 .. Len(inodes) /\ (pc[w] = "write" => fd[w] = k)
    BY <1>0, <1>1, <1>5 DEF Writing, Types
  <2>4. IsFile(val)
    BY FileIs
  <2> HIDE DEF tmp, val
  <2>5. /\ inodes' \in Seq(Range(inodes')) /\ Len(inodes) \in Nat /\ Len(inodes') = Len(inodes)
        /\ \A i \in 1 .. Len(inodes) : i # k => inodes'[i] = inodes[i]
        /\ \A i \in 1 .. Len(inodes') : IsFile(inodes'[i])
    <3>1. CASE pc[w] = "write"
      <4>1. inodes' = [inodes EXCEPT ![k] = val]
        BY <2>1, <2>3, <3>1
      <4> QED BY <1>0, <2>3, <2>4, <4>1, Rewritten
    <3>2. CASE pc[w] # "write"
      <4>1. inodes' = inodes
        BY <2>1, <3>2
      <4> QED BY <1>0, <4>1, OwnRange DEF Types
    <3> QED BY <3>1, <3>2
  <2>6. DOMAIN dir' = DOMAIN dir \ {tmp} /\ \A n \in DOMAIN dir' : dir'[n] = dir[n]
    BY <2>1 DEF Unlink
  <2>7. \A n \in DOMAIN dir : dir[n] = k => n = tmp
    BY <1>0, <2>3 DEF OneName
  <2>8. Types'
    <3>1. DOMAIN dir' \subseteq Names /\ \A n \in DOMAIN dir' : dir'[n] \in 1 .. Len(inodes')
      BY <1>0, <2>5, <2>6 DEF Types
    <3> QED BY <1>2, <2>5, <3>1 DEF Types, IsFile
  <2>9. OneName'
    BY <1>0, <2>6 DEF OneName
  <2>10. PromotedIsWhole'
    <3> SUFFICES ASSUME NEW n \in DOMAIN dir', n.kind = "out"
                 PROVE  inodes'[dir'[n]].data = "full" /\ inodes'[dir'[n]].synced
      BY DEF PromotedIsWhole, OutNames
    <3>1. n \in DOMAIN dir /\ dir'[n] = dir[n] /\ dir[n] # k /\ dir[n] \in 1 .. Len(inodes)
      BY <1>0, <2>2, <2>6, <2>7 DEF Types
    <3>2. inodes'[dir[n]] = inodes[dir[n]]
      BY <2>5, <3>1
    <3> QED BY <1>0, <3>1, <3>2 DEF PromotedIsWhole, OutNames
  <2>11. KeepsTo(w, k)
    <3>1. \A u \in Workers : pc[u] = "read" => fd[u] # k
      BY <1>0, <2>2, <2>3 DEF Reading
    <3>2. Len(inodes') \in Nat /\ Len(inodes) <= Len(inodes')
      BY <2>5
    <3> QED BY <1>2, <2>2, <2>5, <2>6, <2>7, <3>1, <3>2 DEF KeepsTo
  <2> QED BY <1>3, <2>8, <2>9, <2>10, <2>11, Others DEF SInv
<1> QED BY <1>4, <1>5

(* A power loss empties unsynced files only, and nobody has one open.      *)
LEMMA PowerLossStep ==
  ASSUME SInv, PowerLoss
  PROVE  SInv'
<1>0. Types /\ OneName /\ PromotedIsWhole
  BY DEF SInv
<1>1. PICK lost \in SUBSET {i \in 1 .. Len(inodes) : ~inodes[i].synced} :
         inodes' = [i \in 1 .. Len(inodes) |->
                      IF i \in lost THEN [inodes[i] EXCEPT !.data = "empty"] ELSE inodes[i]]
  BY DEF PowerLoss
<1>2. Len(inodes) \in Nat
  BY <1>0, OwnRange DEF Types
<1>3. /\ pc' = [w \in Workers |-> "idle"] /\ fd' = [w \in Workers |-> 0]
      /\ files' = [w \in Workers |-> <<>>] /\ recalled' = [w \in Workers |-> "none"]
      /\ UNCHANGED <<dir, ref>>
  BY DEF PowerLoss
<1> DEFINE fate(i) == IF i \in lost THEN [inodes[i] EXCEPT !.data = "empty"] ELSE inodes[i]
           S == {fate(i) : i \in 1 .. Len(inodes)}
<1>4. inodes' \in Seq(S) /\ Len(inodes') = Len(inodes)
  <2>1. inodes' = [i \in 1 .. Len(inodes) |-> fate(i)]
    BY <1>1
  <2>2. \A i \in 1 .. Len(inodes) : fate(i) \in S
    OBVIOUS
  <2> HIDE DEF fate, S
  <2>3. inodes' \in [1 .. Len(inodes) -> S]
    BY <2>1, <2>2
  <2> QED BY <1>2, <2>3
<1>5. inodes' \in Seq(Range(inodes'))
  BY <1>4, OwnRange
<1>6. \A i \in 1 .. Len(inodes) : inodes[i].synced => inodes'[i] = inodes[i]
  BY <1>1
<1>7. \A i \in 1 .. Len(inodes) : IsFile(inodes'[i])
  <2> SUFFICES ASSUME NEW i \in 1 .. Len(inodes) PROVE IsFile(inodes'[i])
    OBVIOUS
  <2>1. IsFile(inodes[i]) /\ inodes'[i] \in {inodes[i], [inodes[i] EXCEPT !.data = "empty"]}
    BY <1>0, <1>1 DEF Types
  <2> QED BY <2>1 DEF IsFile
<1>8. Types'
  <2>1. pc' \in [Workers -> Labels] /\ fd' \in [Workers -> Nat]
    BY <1>3 DEF Labels
  <2>2. files' \in [Workers -> Seq(Listed)] /\ recalled' \in [Workers -> {"none", "expired", "full"}]
    BY <1>3
  <2>3. \A n \in DOMAIN dir' : dir'[n] \in 1 .. Len(inodes')
    BY <1>0, <1>3, <1>4 DEF Types
  <2>4. DOMAIN dir' \subseteq Names /\ ref' = [w \in Workers |-> ref'[w]]
    BY <1>0, <1>3 DEF Types
  <2>5. \A w \in Workers : pc'[w] = "idle"
    BY <1>3
  <2> QED BY <1>4, <1>5, <1>7, <2>1, <2>2, <2>3, <2>4, <2>5 DEF Types, IsFile
<1>9. OneName'
  BY <1>0, <1>3 DEF OneName
<1>10. PromotedIsWhole'
  BY <1>0, <1>3, <1>6 DEF PromotedIsWhole, OutNames, Types
<1>11. \A w \in Workers : Writing(w)' /\ Reading(w)'
  BY <1>3 DEF Writing, Reading
<1> QED BY <1>8, <1>9, <1>10, <1>11 DEF SInv

-----------------------------------------------------------------------------
LEMMA StoreInit ==
  ASSUME Init
  PROVE  SInv
<1> USE DEF Init
<1>1. Len(inodes) = 0 /\ DOMAIN dir = {} /\ inodes \in Seq(Range(inodes))
  OBVIOUS
<1>2. \A w \in Workers : pc[w] = "idle"
  OBVIOUS
<1>3. pc \in [Workers -> Labels] /\ fd \in [Workers -> Nat] /\ files \in [Workers -> Seq(Listed)]
      /\ recalled \in [Workers -> {"none", "expired", "full"}] /\ ref = [w \in Workers |-> ref[w]]
  BY DEF Labels
<1>4. Types
  BY <1>1, <1>2, <1>3 DEF Types
<1> QED BY <1>1, <1>2, <1>4 DEF SInv, OneName, Writing, Reading, PromotedIsWhole, OutNames

LEMMA StoreStep ==
  ASSUME OwnProcesses, SInv, [Next]_vars
  PROVE  SInv'
<1>1. ASSUME NEW w \in Workers, Step(w) PROVE SInv'
  BY <1>1, QuietStep, EvictStep, OpenStep, SyncedStep, RenameStep, FailStep DEF Step
<1>2. CASE PowerLoss
  BY <1>2, PowerLossStep
<1>3. CASE UNCHANGED vars
  <2>1. UNCHANGED <<inodes, dir, pc, ref, fd, files, total, recalled>>
    BY <1>3 DEF vars, fs, worker
  <2> QED BY <2>1 DEF SInv, Types, IsFile, OneName, Writing, Reading, Whole, PromotedIsWhole, OutNames, Tmp
<1> QED BY <1>1, <1>2, <1>3 DEF Next

(* Ownership of inodes holds in every state: what a worker writes has its  *)
(* temp name and no other, what it reads is whole and never written again. *)
THEOREM StoreInvariant ==
  ASSUME OwnProcesses
  PROVE  Spec => []SInv
<1>1. Init => SInv
  BY StoreInit
<1>2. SInv /\ [Next]_vars => SInv'
  BY StoreStep
<1> QED BY <1>1, <1>2, PTL DEF Spec

(* No ref that TCRecall can open names a partial, an unsynced or a lost    *)
(* file, whatever fails and wherever the power is lost.                    *)
THEOREM PromotedWhole ==
  ASSUME OwnProcesses
  PROVE  Spec => []PromotedIsWhole
<1>1. SInv => PromotedIsWhole
  BY DEF SInv
<1> QED BY <1>1, StoreInvariant, PTL

(* TCRecall returns the whole raw output or says that it has expired, also *)
(* when the file is evicted or published anew between its open and read.   *)
THEOREM RecallExact ==
  ASSUME OwnProcesses
  PROVE  Spec => []RecallIsExact
<1>1. SInv => RecallIsExact
  BY DEF SInv, Types, RecallIsExact
<1> QED BY <1>1, StoreInvariant, PTL

-----------------------------------------------------------------------------
(* Sums over finite sets.  The library's sum is a function on the subsets  *)
(* of a set, defined by recursion on one element after the other.          *)
AnyOf(s) == CHOOSE x \in s : TRUE
IsSum(f, S, g) ==
    f = [s \in SUBSET S |-> IF s = {} THEN 0 ELSE g[AnyOf(s)] + f[s \ {AnyOf(s)}]]

LEMMA AnyIs == \A s : s # {} => AnyOf(s) \in s
BY DEF AnyOf

(* A set of subsets of a finite set has a least one.                       *)
LEMMA Least ==
  ASSUME NEW S, IsFiniteSet(S), NEW T, T \subseteq SUBSET S, T # {}
  PROVE  \E t \in T : \A y \in T : y \subseteq t => y = t
<1>1. IsWellFoundedOn(StrictSubsetOrdering(S), SUBSET S)
  BY FS_StrictSubsetOrderingWellFounded, FS_FiniteSubsetsOfFinite
<1>2. PICK t \in T : \A y \in T : ~ (<<y, t>> \in StrictSubsetOrdering(S))
  BY <1>1, WFMin
<1>3. \A y \in T : y \subseteq t => y = t
  BY <1>2 DEF StrictSubsetOrdering
<1> QED BY <1>3

LEMMA SumOfNone ==
  ASSUME NEW S, NEW g, NEW f, IsSum(f, S, g)
  PROVE  f[{}] = 0
<1> {} \in SUBSET S
  OBVIOUS
<1> QED BY DEF IsSum

LEMMA SumOfSome ==
  ASSUME NEW S, NEW g, NEW f, IsSum(f, S, g), NEW s \in SUBSET S, s # {},
         NEW x, x = AnyOf(s), NEW r, r = s \ {x}
  PROVE  f[s] = g[x] + f[r]
<1>1. f[s] = IF s = {} THEN 0 ELSE g[AnyOf(s)] + f[s \ {AnyOf(s)}]
  BY DEF IsSum
<1>2. f[s] = g[AnyOf(s)] + f[s \ {AnyOf(s)}]
  BY <1>1
<1> QED BY <1>2

LEMMA SumInNat ==
  ASSUME NEW S, IsFiniteSet(S), NEW g \in [S -> Nat], NEW f, IsSum(f, S, g)
  PROVE  \A s \in SUBSET S : f[s] \in Nat
<1> DEFINE T == {s \in SUBSET S : f[s] \notin Nat}
<1> SUFFICES ASSUME T # {} PROVE FALSE
  OBVIOUS
<1>1. PICK s \in T : \A y \in T : y \subseteq s => y = s
  <2>1. T \subseteq SUBSET S
    OBVIOUS
  <2> HIDE DEF T
  <2> QED BY <2>1, Least
<1>2. s \in SUBSET S /\ f[s] \notin Nat
  BY <1>1
<1>3. s # {}
  BY <1>2, SumOfNone
<1>4. PICK x : x = AnyOf(s)
  OBVIOUS
<1>5. x \in s
  BY <1>3, <1>4, AnyIs
<1>6. f[s] = g[x] + f[s \ {x}]
  BY <1>2, <1>3, <1>4, SumOfSome
<1>7. f[s \ {x}] \in Nat
  BY <1>1, <1>2, <1>5
<1> QED BY <1>2, <1>5, <1>6, <1>7

(* The sum does not depend on the order in which elements are taken.       *)
LEMMA SumTakes ==
  ASSUME NEW S, IsFiniteSet(S), NEW g \in [S -> Nat], NEW f, IsSum(f, S, g),
         NEW z \in SUBSET S, NEW e \in z
  PROVE  f[z] = g[e] + f[z \ {e}]
<1> DEFINE Takes(s) == \A x \in s : f[s] = g[x] + f[s \ {x}]
           T == {s \in SUBSET S : ~Takes(s)}
<1> SUFFICES ASSUME T # {} PROVE FALSE
  OBVIOUS
<1>0. \A s \in SUBSET S : f[s] \in Nat
  BY SumInNat
<1>1. PICK s \in T : \A y \in T : y \subseteq s => y = s
  <2>1. T \subseteq SUBSET S
    OBVIOUS
  <2> HIDE DEF T
  <2> QED BY <2>1, Least
<1>2. PICK x \in s : f[s] # g[x] + f[s \ {x}]
  BY <1>1
<1>3. PICK c : c = AnyOf(s)
  OBVIOUS
<1>4. s \in SUBSET S /\ c \in s
  BY <1>1, <1>2, <1>3, AnyIs
<1>5. f[s] = g[c] + f[s \ {c}]
  <2>1. s # {}
    BY <1>4
  <2> QED BY <1>3, <1>4, <2>1, SumOfSome
<1>6. x # c
  BY <1>2, <1>5
<1>7. Takes(s \ {c}) /\ Takes(s \ {x})
  <2>1. \A y \in SUBSET S : y \subseteq s /\ y # s => Takes(y)
    BY <1>1
  <2>2. s \ {c} # s /\ s \ {x} # s /\ s \ {c} \in SUBSET S /\ s \ {x} \in SUBSET S
    BY <1>2, <1>4
  <2> HIDE DEF Takes
  <2> QED BY <2>1, <2>2
<1>8. f[s \ {c}] = g[x] + f[(s \ {c}) \ {x}] /\ f[s \ {x}] = g[c] + f[(s \ {x}) \ {c}]
  BY <1>2, <1>4, <1>6, <1>7
<1>9. (s \ {c}) \ {x} = (s \ {x}) \ {c} /\ (s \ {c}) \ {x} \in SUBSET S
  BY <1>4
<1>10. f[(s \ {c}) \ {x}] \in Nat /\ g[x] \in Nat /\ g[c] \in Nat
  BY <1>0, <1>2, <1>4, <1>9
<1>11. PICK r : r = (s \ {c}) \ {x}
  OBVIOUS
<1>12. f[s] = g[c] + (g[x] + f[r]) /\ f[s \ {x}] = g[c] + f[r]
  BY <1>5, <1>8, <1>9, <1>11
<1> QED BY <1>2, <1>10, <1>11, <1>12

(* More elements have a sum that is no smaller.                            *)
LEMMA SumGrows ==
  ASSUME NEW S, IsFiniteSet(S), NEW g \in [S -> Nat], NEW f, IsSum(f, S, g),
         NEW z \in SUBSET S, NEW y \in SUBSET z
  PROVE  f[y] <= f[z]
<1> DEFINE T == {s \in SUBSET S : y \subseteq s /\ ~(f[y] <= f[s])}
<1> SUFFICES ASSUME T # {} PROVE FALSE
  OBVIOUS
<1>0. \A s \in SUBSET S : f[s] \in Nat
  BY SumInNat
<1>1. PICK s \in T : \A t \in T : t \subseteq s => t = s
  <2>1. T \subseteq SUBSET S
    OBVIOUS
  <2> HIDE DEF T
  <2> QED BY <2>1, Least
<1>2. s \in SUBSET S /\ y \subseteq s /\ ~(f[y] <= f[s]) /\ f[y] \in Nat /\ f[s] \in Nat
  BY <1>0, <1>1
<1>3. s # y
  BY <1>2
<1>4. PICK x \in s : x \notin y
  BY <1>2, <1>3
<1>5. PICK r : r = s \ {x} /\ f[s] = g[x] + f[s \ {x}]
  <2>1. s \in SUBSET S /\ x \in s
    BY <1>2, <1>4
  <2> HIDE DEF T
  <2>2. f[s] = g[x] + f[s \ {x}]
    BY <2>1, SumTakes
  <2> QED BY <2>2
<1>6. r \in SUBSET S /\ y \subseteq r /\ r \subseteq s /\ r # s
  BY <1>2, <1>4, <1>5
<1>7. f[y] <= f[r] /\ f[r] \in Nat
  BY <1>0, <1>1, <1>6
<1>8. f[s] = g[x] + f[r]
  BY <1>5
<1>9. g[x] \in Nat
  BY <1>2, <1>4
<1> QED BY <1>2, <1>7, <1>8, <1>9

(* The sum over a set depends on its elements only.                        *)
LEMMA SumAgrees ==
  ASSUME NEW S, IsFiniteSet(S), NEW U, S \subseteq U, NEW g, NEW h, \A x \in S : g[x] = h[x],
         NEW f, IsSum(f, S, g), NEW k, IsSum(k, U, h), NEW z \in SUBSET S
  PROVE  f[z] = k[z]
<1> DEFINE T == {s \in SUBSET S : f[s] # k[s]}
<1> SUFFICES ASSUME T # {} PROVE FALSE
  OBVIOUS
<1>1. PICK s \in T : \A y \in T : y \subseteq s => y = s
  <2>1. T \subseteq SUBSET S
    OBVIOUS
  <2> HIDE DEF T
  <2> QED BY <2>1, Least
<1>2. s \in SUBSET S /\ s \in SUBSET U /\ f[s] # k[s]
  BY <1>1
<1>3. s # {}
  <2> SUFFICES ASSUME s = {} PROVE FALSE
    OBVIOUS
  <2>1. f[s] = 0 /\ k[s] = 0
    BY SumOfNone
  <2> QED BY <1>2, <2>1
<1>4. PICK x : x = AnyOf(s)
  OBVIOUS
<1>5. PICK r : r = s \ {x}
  OBVIOUS
<1>6. x \in s
  BY <1>3, <1>4, AnyIs
<1>7. f[s] = g[x] + f[r] /\ k[s] = h[x] + k[r]
  <2>1. f[s] = g[x] + f[r]
    BY <1>2, <1>3, <1>4, <1>5, SumOfSome
  <2>2. k[s] = h[x] + k[r]
    BY <1>2, <1>3, <1>4, <1>5, SumOfSome
  <2> QED BY <2>1, <2>2
<1>8. f[r] = k[r]
  BY <1>1, <1>2, <1>5, <1>6
<1> QED BY <1>2, <1>6, <1>7, <1>8

(* The recursion defines a function.                                       *)
LEMMA SumExists ==
  ASSUME NEW S, IsFiniteSet(S), NEW g
  PROVE  \E f : IsSum(f, S, g)
<1> DEFINE T == {s \in SUBSET S : ~ \E f : IsSum(f, s, g)}
<1> SUFFICES ASSUME T # {} PROVE FALSE
  OBVIOUS
<1>1. PICK s \in T : \A y \in T : y \subseteq s => y = s
  <2>1. T \subseteq SUBSET S
    OBVIOUS
  <2> HIDE DEF T
  <2> QED BY <2>1, Least
<1>2. s \in SUBSET S /\ IsFiniteSet(s) /\ \A y \in SUBSET s : IsFiniteSet(y)
  BY <1>1, FS_Subset
<1>3. \A y \in SUBSET s : y # s => \E f : IsSum(f, y, g)
  BY <1>1
<1> HIDE DEF T
<1> DEFINE part(y) == CHOOSE f : IsSum(f, y, g)
           rest(y) == y \ {AnyOf(y)}
           h == [y \in SUBSET s |-> IF y = {} THEN 0 ELSE g[AnyOf(y)] + part(rest(y))[rest(y)]]
<1>4. \A y \in SUBSET s : y # s => IsSum(part(y), y, g)
  BY <1>3
<1> HIDE DEF part
<1>5. ASSUME NEW y \in SUBSET s, y # {} PROVE h[rest(y)] = part(rest(y))[rest(y)]
  <2>1. PICK r : r = rest(y)
    OBVIOUS
  <2>2. r \in SUBSET s /\ r # s /\ IsFiniteSet(r)
    BY <1>2, <1>5, <2>1, AnyIs
  <2>3. IsSum(part(r), r, g)
    BY <1>4, <2>2
  <2>4. part(r)[r] = IF r = {} THEN 0 ELSE g[AnyOf(r)] + part(r)[rest(r)]
    <3>1. PICK k : k = part(r)
      OBVIOUS
    <3>2. IsSum(k, r, g) /\ r \in SUBSET r
      BY <2>3, <3>1
    <3> QED BY <3>1, <3>2 DEF IsSum
  <2>5. h[r] = IF r = {} THEN 0 ELSE g[AnyOf(r)] + part(rest(r))[rest(r)]
    BY <2>2
  <2>6. CASE r = {}
    BY <2>1, <2>4, <2>5, <2>6
  <2>7. CASE r # {}
    <3>1. PICK q : q = rest(r)
      OBVIOUS
    <3>2. q \subseteq r /\ q \in SUBSET s /\ q # s /\ IsFiniteSet(q)
      BY <1>2, <2>2, <2>7, <3>1, AnyIs
    <3>3. IsSum(part(q), q, g)
      BY <1>4, <3>2
    <3>4. part(q)[q] = part(r)[q]
      BY <2>3, <3>2, <3>3, SumAgrees
    <3> QED BY <2>1, <2>4, <2>5, <2>7, <3>1, <3>4
  <2> QED BY <2>6, <2>7
<1>6. \A y \in SUBSET s : (IF y = {} THEN 0 ELSE g[AnyOf(y)] + part(rest(y))[rest(y)])
                        = (IF y = {} THEN 0 ELSE g[AnyOf(y)] + h[y \ {AnyOf(y)}])
  BY <1>5
<1>7. h = [y \in SUBSET s |-> IF y = {} THEN 0 ELSE g[AnyOf(y)] + h[y \ {AnyOf(y)}]]
  <2>1. PICK k : k = h
    OBVIOUS
  <2>2. \A y \in SUBSET s : (IF y = {} THEN 0 ELSE g[AnyOf(y)] + part(rest(y))[rest(y)])
                        = (IF y = {} THEN 0 ELSE g[AnyOf(y)] + k[y \ {AnyOf(y)}])
    BY <1>6, <2>1
  <2>3. k = [y \in SUBSET s |-> IF y = {} THEN 0 ELSE g[AnyOf(y)] + part(rest(y))[rest(y)]]
    BY <2>1
  <2> HIDE DEF h, rest
  <2>4. k = [y \in SUBSET s |-> IF y = {} THEN 0 ELSE g[AnyOf(y)] + k[y \ {AnyOf(y)}]]
    BY <2>2, <2>3
  <2> QED BY <2>1, <2>4
<1>8. IsSum(h, s, g)
  BY <1>7 DEF IsSum
<1> QED BY <1>1, <1>8 DEF T

-----------------------------------------------------------------------------
(* The bytes of a set of published names.                                  *)
Published == {Out(r) : r \in Refs}
Weight == [n \in Published |-> Bytes[n.ref]]
Weigh == CHOOSE f : IsSum(f, Published, Weight)
Longest == Max({Bytes[r] : r \in Refs})

LEMMA PublishedFinite == IsFiniteSet(Published) /\ \A n \in Published : n.ref \in Refs /\ n = Out(n.ref)
<1> DEFINE f == [n \in Published |-> n.ref]
<1>1. \A n \in Published : n.ref \in Refs /\ n = Out(n.ref)
  BY DEF Published, Out
<1>2. f \in [Published -> Refs] /\ \A a, b \in Published : f[a] = f[b] => a = b
  BY <1>1
<1> HIDE DEF f
<1>3. f \in Injection(Published, Refs)
  BY <1>2 DEF Injection, IsInjective
<1>4. IsFiniteSet(Refs)
  BY SpillAssumption
<1> QED BY <1>1, <1>3, <1>4, FS_Injection

LEMMA LongestIs == Longest \in Nat /\ \A r \in Refs : Bytes[r] \in Nat /\ Bytes[r] <= Longest
<1> DEFINE S == {Bytes[r] : r \in Refs}
           T == {k \in Nat : Budget - k \in S}
           R == OpToRel(<, Nat)
<1>1. Budget \in Nat /\ \A r \in Refs : Bytes[r] \in Nat /\ Bytes[r] <= Budget
  BY SpillAssumption
<1>2. T \subseteq Nat /\ T # {}
  <2> PICK r \in Refs : TRUE
    BY SpillAssumption
  <2>1. PICK b \in Nat : b = Bytes[r] /\ b <= Budget
    BY <1>1
  <2>2. Budget - b \in Nat /\ Budget - (Budget - b) = b
    BY <1>1, <2>1
  <2> QED BY <2>1, <2>2
<1>3. PICK t \in T : \A y \in T : ~ (<<y, t>> \in R)
  <2> HIDE DEF T
  <2> QED BY <1>2, NatLessThanWellFounded, WFMin, Zenon
<1>4. t \in Nat /\ Budget - t \in S
  BY <1>3
<1>5. \A x \in S : Budget - t >= x
  <2> SUFFICES ASSUME NEW r \in Refs, ~(Budget - t >= Bytes[r]) PROVE FALSE
    OBVIOUS
  <2>1. PICK y : y = Budget - Bytes[r]
    OBVIOUS
  <2>2. y \in Nat /\ Budget - y = Bytes[r] /\ y < t
    BY <1>1, <1>4, <2>1
  <2>3. y \in T /\ <<y, t>> \in R
    BY <1>4, <2>2 DEF OpToRel
  <2> QED BY <1>3, <2>3
<1> HIDE DEF S
<1>6. Max(S) \in S /\ \A x \in S : Max(S) >= x
  BY <1>4, <1>5 DEF Max
<1>7. Longest = Max(S)
  BY DEF Longest, S
<1> QED BY <1>1, <1>6, <1>7 DEF S

LEMMA WeightIs ==
  /\ Weight \in [Published -> Nat]
  /\ \A n \in Published : Weight[n] = Bytes[n.ref] /\ Weight[n] <= Longest
BY PublishedFinite, LongestIs DEF Weight

LEMMA WeighIs ==
  /\ IsSum(Weigh, Published, Weight)
  /\ Weigh[{}] = 0
  /\ \A s \in SUBSET Published :
       /\ Weigh[s] \in Nat
       /\ \A y \in SUBSET s : Weigh[y] <= Weigh[s]
       /\ \A x \in s : Weigh[s] = Weight[x] + Weigh[s \ {x}]
<1>1. IsSum(Weigh, Published, Weight)
  BY PublishedFinite, SumExists DEF Weigh
<1>2. Weight \in [Published -> Nat]
  BY WeightIs
<1>3. IsFiniteSet(Published)
  BY PublishedFinite
<1>4. \A s \in SUBSET Published : Weigh[s] \in Nat
  BY <1>1, <1>2, <1>3, SumInNat
<1>5. \A s \in SUBSET Published : \A y \in SUBSET s : Weigh[y] <= Weigh[s]
  <2> SUFFICES ASSUME NEW s \in SUBSET Published, NEW y \in SUBSET s
               PROVE  Weigh[y] <= Weigh[s]
    OBVIOUS
  <2> QED BY <1>1, <1>2, <1>3, SumGrows
<1>6. \A s \in SUBSET Published : \A x \in s : Weigh[s] = Weight[x] + Weigh[s \ {x}]
  <2> SUFFICES ASSUME NEW s \in SUBSET Published, NEW x \in s
               PROVE  Weigh[s] = Weight[x] + Weigh[s \ {x}]
    OBVIOUS
  <2> QED BY <1>1, <1>2, <1>3, SumTakes
<1>7. Weigh[{}] = 0
  BY <1>1, SumOfNone
<1> QED BY <1>1, <1>4, <1>5, <1>6, <1>7

(* Every published file is whole, so the size of some files of the         *)
(* directory is the sum of what their names stand for.                     *)
LEMMA BytesAre ==
  ASSUME SInv, NEW names \in SUBSET OutNames(dir)
  PROVE  names \in SUBSET Published /\ BytesIn(names) = Weigh[names]
         /\ \A n \in names : SizeOf(n) = Bytes[n.ref]
<1> DEFINE g == [n \in names |-> SizeOf(n)]
           it == CHOOSE iter : iter = [s \in SUBSET names |->
                   IF s = {} THEN 0 ELSE SizeOf(AnyOf(s)) + iter[s \ {AnyOf(s)}]]
<1>1. \A n \in names : n \in Published
  BY DEF SInv, Types, Names, OutNames, Published, Out
<1>2. \A n \in names : SizeOf(n) = Bytes[n.ref]
  BY DEF SInv, PromotedIsWhole, SizeOf
<1>3. \A n \in names : g[n] = Weight[n]
  BY <1>1, <1>2, WeightIs
<1>4. IsFiniteSet(names)
  BY <1>1, PublishedFinite, FS_Subset
<1>5. PICK f : IsSum(f, names, g)
  BY <1>4, SumExists
<1>6. BytesIn(names) = it[names]
  BY Zenon DEF BytesIn, MapThenSumSet, MapThenFoldSet, AnyOf
<1>7. \A h : h = [s \in SUBSET names |-> IF s = {} THEN 0 ELSE SizeOf(AnyOf(s)) + h[s \ {AnyOf(s)}]]
             <=> IsSum(h, names, g)
  <2> SUFFICES ASSUME NEW h
               PROVE  h = [s \in SUBSET names |-> IF s = {} THEN 0 ELSE SizeOf(AnyOf(s)) + h[s \ {AnyOf(s)}]]
                      <=> IsSum(h, names, g)
    OBVIOUS
  <2>1. \A s \in SUBSET names : s # {} => g[AnyOf(s)] = SizeOf(AnyOf(s))
    BY AnyIs
  <2>2. \A s \in SUBSET names : (IF s = {} THEN 0 ELSE SizeOf(AnyOf(s)) + h[s \ {AnyOf(s)}])
                              = (IF s = {} THEN 0 ELSE g[AnyOf(s)] + h[s \ {AnyOf(s)}])
    BY <2>1
  <2> HIDE DEF g
  <2> QED BY <2>2 DEF IsSum
<1>8. IsSum(it, names, g)
  <2> HIDE DEF g
  <2> QED BY <1>5, <1>7
<1>9. it[names] = Weigh[names]
  <2> HIDE DEF g, it
  <2>1. names \subseteq Published /\ names \in SUBSET names
    BY <1>1
  <2>2. IsSum(Weigh, Published, Weight)
    BY WeighIs
  <2> QED BY <1>3, <1>4, <1>8, <2>1, <2>2, SumAgrees
<1> QED BY <1>1, <1>2, <1>6, <1>9

-----------------------------------------------------------------------------
(* How far the directory can outgrow its budget.  Take the latest listing  *)
(* after which a worker has finished its eviction, at the time base.  But  *)
(* for what that eviction did not see or could not remove (saved), the     *)
(* directory then fitted its budget.  Since then every worker has          *)
(* published at most one file, since it would have listed again before a   *)
(* second, and those of which it could not list the directory.  listed and *)
(* renamed are the times of a worker's last listing, also a failed one,    *)
(* and of its last publication; blind that of its last failed listing      *)
(* before it wrote a name.                                                 *)

Since(renamed, t) == {x \in Workers : renamed[x] > t}
Owed(renamed, t) == Longest * Cardinality(Since(renamed, t))
Blindly(blind, t) == {n \in Published : \E x \in Workers : blind[x][n] > t}
NamesOf(list) == {list[i].name : i \in 1 .. Len(list)}

Armed == {"open", "write", "sync", "rename"}

(* What the total of a worker in tcSpillEvict stands for, and what will be *)
(* there when it has visited all it has listed.                            *)
Believed(w, excused) == NamesOf(files[w]) \cup (OutNames(dir) \ (unseen[w] \cup excused))
Remaining(w, excused) == OutNames(dir) \ (unseen[w] \cup stuck[w] \cup excused \cup NamesOf(files[w]))

(* What that worker knows, unless a later listing has led to an eviction:  *)
(* all but what was published since then.                                  *)
Evicting(w, t, renamed, blind) ==
    /\ Weigh[Believed(w, Blindly(blind, t))] <= total[w] + Owed(renamed, t)
    /\ Weigh[Remaining(w, Blindly(blind, t))] <= Owed(renamed, t)
    /\ \A i \in 1 .. Len(files[w]) : files[w][i].size = Bytes[files[w][i].name.ref]
    /\ \A i, j \in 1 .. Len(files[w]) : files[w][i].name = files[w][j].name => i = j

Times(listed, renamed, blind, base, now) ==
    /\ listed \in [Workers -> Nat] /\ renamed \in [Workers -> Nat]
    /\ blind \in [Workers -> [Published -> Nat]]
    /\ base \in Nat /\ now \in Nat /\ base <= now
    /\ \A x \in Workers : listed[x] <= now /\ renamed[x] <= now
    /\ \A x \in Workers : \A n \in Published : blind[x][n] <= now

Histories ==
    /\ total \in [Workers -> Int]
    /\ unseen = [x \in Workers |-> unseen[x]]
    /\ stuck = [x \in Workers |-> stuck[x]]
    /\ spared = [x \in Workers |-> spared[x]]

(* Who has listed when, and whose eviction has left what is saved.         *)
Order(listed, renamed, blind, saved, base) ==
    /\ \A w \in Workers : pc[w] \in Armed \cup {"evict"} => renamed[w] < listed[w]
    /\ \A w \in Workers : pc[w] \in Armed =>
         listed[w] <= base \/ blind[w][Out(ref[w])] >= listed[w]
    /\ \A w \in Workers : pc[w] = "evict" => \A n \in Published : blind[w][n] <= listed[w]
    /\ \A w \in Workers : \A n \in Published : blind[w][n] > base => n \in spared[w]
    /\ saved = {} \/ \E o \in Workers : /\ saved \subseteq spared[o]
                                        /\ pc[o] = "evict" => listed[o] > base

Exceeding(saved, excused) == OutNames(dir) \ (saved \cup excused)

Debt(listed, renamed, blind, saved, base, now) ==
    /\ Times(listed, renamed, blind, base, now)
    /\ Order(listed, renamed, blind, saved, base)
    /\ Weigh[Exceeding(saved, Blindly(blind, base))] <= Budget + Owed(renamed, base)
    /\ \A w \in Workers :
         pc[w] = "evict" /\ listed[w] > base => Evicting(w, listed[w], renamed, blind)

DebtInv ==
    /\ Histories
    /\ \E listed, renamed, blind, saved, base, now : Debt(listed, renamed, blind, saved, base, now)

LEMMA OwedIs ==
  ASSUME NEW renamed, NEW t
  PROVE  /\ IsFiniteSet(Since(renamed, t)) /\ Cardinality(Since(renamed, t)) \in Nat
         /\ Owed(renamed, t) \in Nat
         /\ Owed(renamed, t) <= Cardinality(Workers) * Longest
<1>1. IsFiniteSet(Workers) /\ Since(renamed, t) \in SUBSET Workers
  BY SpillAssumption DEF Since
<1>2. /\ IsFiniteSet(Since(renamed, t)) /\ Cardinality(Since(renamed, t)) \in Nat
      /\ Cardinality(Since(renamed, t)) <= Cardinality(Workers) /\ Cardinality(Workers) \in Nat
  BY <1>1, FS_Subset, FS_CardinalityType
<1>3. Longest \in Nat
  BY LongestIs
<1>4. PICK j \in Nat, k \in Nat : j = Cardinality(Since(renamed, t)) /\ k = Cardinality(Workers)
  BY <1>2
<1>5. PICK d \in Nat : k = j + d
  <2>1. k - j \in Nat /\ k = j + (k - j)
    BY <1>2, <1>4
  <2> QED BY <2>1
<1>6. Longest * j \in Nat /\ Longest * d \in Nat /\ k * Longest = Longest * j + Longest * d
  BY <1>3, <1>5
<1>7. Longest * j <= k * Longest
  BY <1>6
<1> QED BY <1>2, <1>4, <1>6, <1>7 DEF Owed

(* A worker that has not published since then publishes.                   *)
LEMMA OwesMore ==
  ASSUME NEW renamed \in [Workers -> Nat], NEW w \in Workers, NEW t \in Nat, renamed[w] <= t,
         NEW n \in Nat, n > t
  PROVE  Owed([renamed EXCEPT ![w] = n], t) = Owed(renamed, t) + Longest
<1>1. Since([renamed EXCEPT ![w] = n], t) = Since(renamed, t) \cup {w}
  BY DEF Since
<1>2. w \notin Since(renamed, t)
  BY DEF Since
<1>3. IsFiniteSet(Since(renamed, t)) /\ Cardinality(Since(renamed, t)) \in Nat
  BY OwedIs
<1>4. PICK k \in Nat : k = Cardinality(Since(renamed, t))
  BY <1>3
<1>5. Cardinality(Since(renamed, t) \cup {w}) = k + 1
  BY <1>2, <1>3, <1>4, FS_AddElement
<1>6. Longest * (k + 1) = Longest * k + Longest
  BY LongestIs
<1> QED BY <1>1, <1>4, <1>5, <1>6 DEF Owed

(* Whoever publishes, no less is owed.                                     *)
LEMMA OwesNotLess ==
  ASSUME NEW renamed \in [Workers -> Nat], NEW w \in Workers, NEW t \in Nat, NEW n \in Nat, n > t
  PROVE  Owed([renamed EXCEPT ![w] = n], t) >= Owed(renamed, t)
<1>1. CASE renamed[w] <= t
  <2>1. Owed([renamed EXCEPT ![w] = n], t) = Owed(renamed, t) + Longest
    BY <1>1, OwesMore
  <2> QED BY <2>1, OwedIs, LongestIs
<1>2. CASE ~(renamed[w] <= t)
  <2>1. Since([renamed EXCEPT ![w] = n], t) = Since(renamed, t)
    BY <1>2 DEF Since
  <2>2. Owed([renamed EXCEPT ![w] = n], t) = Owed(renamed, t)
    BY <2>1 DEF Owed
  <2> QED BY <2>2, OwedIs
<1> QED BY <1>1, <1>2

(* Nobody has published since now.                                         *)
LEMMA OwesNothing ==
  ASSUME NEW renamed \in [Workers -> Nat], NEW t \in Nat, \A x \in Workers : renamed[x] <= t
  PROVE  Owed(renamed, t) = 0
<1>1. Since(renamed, t) = {}
  BY DEF Since
<1>2. Cardinality({}) = 0
  BY FS_EmptySet
<1> QED BY <1>1, <1>2, LongestIs DEF Owed

(* Fewer published names weigh less.                                       *)
LEMMA WeighLess ==
  ASSUME NEW s \in SUBSET Published, NEW t \in SUBSET s
  PROVE  t \in SUBSET Published /\ Weigh[t] \in Nat /\ Weigh[s] \in Nat /\ Weigh[t] <= Weigh[s]
BY WeighIs

LEMMA WeighWithout ==
  ASSUME NEW s \in SUBSET Published, NEW x \in s
  PROVE  Weigh[s] = Weigh[s \ {x}] + Bytes[x.ref] /\ Weigh[s \ {x}] \in Nat
<1>1. Weigh[s] = Weight[x] + Weigh[s \ {x}]
  BY WeighIs
<1>2. s \ {x} \in SUBSET Published /\ x \in Published
  OBVIOUS
<1>3. Weigh[s \ {x}] \in Nat /\ Weight[x] \in Nat /\ Weight[x] = Bytes[x.ref]
  BY <1>2, WeighIs, WeightIs
<1> QED BY <1>1, <1>3

LEMMA WeighMore ==
  ASSUME NEW s \in SUBSET Published, NEW x \in Published, NEW t \in SUBSET (s \cup {x})
  PROVE  Weigh[t] <= Weigh[s] + Longest /\ Weigh[t] \in Nat /\ Weigh[s] \in Nat
<1>1. s \cup {x} \in SUBSET Published
  OBVIOUS
<1>2. Weigh[t] <= Weigh[s \cup {x}] /\ Weigh[t] \in Nat /\ Weigh[s \cup {x}] \in Nat
  BY <1>1, WeighLess
<1>3. /\ Weigh[s] \in Nat /\ Weight[x] \in Nat /\ Weight[x] <= Longest /\ Longest \in Nat
  BY WeighIs, WeightIs, LongestIs
<1>4. Weigh[s \cup {x}] <= Weigh[s] + Longest
  <2>1. CASE x \in s
    <3>1. s \cup {x} = s
      BY <2>1
    <3>2. Weigh[s \cup {x}] = Weigh[s]
      BY <3>1, Zenon
    <3> QED BY <1>3, <3>2
  <2>2. CASE x \notin s
    <3>1. Weigh[s \cup {x}] = Weight[x] + Weigh[(s \cup {x}) \ {x}]
      BY <1>1, WeighIs
    <3>2. (s \cup {x}) \ {x} = s
      BY <2>2
    <3>3. Weigh[s \cup {x}] = Weight[x] + Weigh[s]
      BY <3>1, <3>2
    <3> QED BY <1>3, <3>3
  <2> QED BY <2>1, <2>2
<1> QED BY <1>2, <1>3, <1>4

(* What the invariants weigh are published names.                          *)
LEMMA AllPublished ==
  ASSUME SInv
  PROVE  /\ OutNames(dir) \in SUBSET Published
         /\ \A w \in Workers : \A excused : Believed(w, excused) \in SUBSET Published
         /\ \A w \in Workers : \A excused : Remaining(w, excused) \in SUBSET Published
         /\ \A saved, excused : Exceeding(saved, excused) \in SUBSET Published
<1>1. OutNames(dir) \in SUBSET Published
  BY BytesAre
<1>2. \A w \in Workers : NamesOf(files[w]) \subseteq Published
  <2> SUFFICES ASSUME NEW w \in Workers, NEW i \in 1 .. Len(files[w])
               PROVE  files[w][i].name \in Published
    BY DEF NamesOf
  <2>1. files[w] \in Seq(Listed)
    BY DEF SInv, Types
  <2>2. files[w][i] \in Listed
    BY <2>1
  <2> QED BY <2>2 DEF Listed, Published, Out
<1> QED BY <1>1, <1>2 DEF Believed, Remaining, Exceeding

(* An eviction goes on knowing what it knew while what it weighs does not  *)
(* grow.                                                                   *)
LEMMA EvictingStays ==
  ASSUME SInv, NEW w \in Workers, NEW t \in Nat, NEW renamed, NEW blind, NEW later, NEW more,
         total \in [Workers -> Int], Evicting(w, t, renamed, blind),
         files'[w] = files[w], total'[w] = total[w],
         Believed(w, Blindly(more, t))' \subseteq Believed(w, Blindly(blind, t)),
         Remaining(w, Blindly(more, t))' \subseteq Remaining(w, Blindly(blind, t)),
         Owed(later, t) >= Owed(renamed, t)
  PROVE  Evicting(w, t, later, more)'
<1> DEFINE b == Believed(w, Blindly(blind, t))
           r == Remaining(w, Blindly(blind, t))
<1>1. PICK c : c = Believed(w, Blindly(more, t))'
  OBVIOUS
<1>2. PICK s : s = Remaining(w, Blindly(more, t))'
  OBVIOUS
<1>3. b \in SUBSET Published /\ r \in SUBSET Published /\ c \in SUBSET b /\ s \in SUBSET r
  BY <1>1, <1>2, AllPublished
<1>4. Weigh[b] <= total[w] + Owed(renamed, t) /\ Weigh[r] <= Owed(renamed, t)
  BY DEF Evicting
<1> HIDE DEF b, r
<1>5. /\ Weigh[c] \in Nat /\ Weigh[b] \in Nat /\ Weigh[c] <= Weigh[b]
      /\ Weigh[s] \in Nat /\ Weigh[r] \in Nat /\ Weigh[s] <= Weigh[r]
  BY <1>3, WeighLess
<1>6. Owed(renamed, t) \in Nat /\ Owed(later, t) \in Nat /\ total[w] \in Int
  BY OwedIs
<1>7. Weigh[c] <= total'[w] + Owed(later, t) /\ Weigh[s] <= Owed(later, t)
  BY <1>4, <1>5, <1>6
<1> QED BY <1>1, <1>2, <1>7 DEF Evicting, Owed

(* Nothing it weighs has changed.                                          *)
LEMMA EvictingSame ==
  ASSUME NEW w \in Workers, NEW t, NEW renamed, NEW blind, Evicting(w, t, renamed, blind),
         OutNames(dir') = OutNames(dir), files'[w] = files[w], total'[w] = total[w],
         unseen'[w] = unseen[w], stuck'[w] = stuck[w]
  PROVE  Evicting(w, t, renamed, blind)'
BY DEF Evicting, Believed, Remaining, NamesOf, Owed

(* An assignment to one worker's entry leaves a function of the workers.   *)
LEMMA Reassigned ==
  ASSUME NEW f, f = [x \in Workers |-> f[x]], NEW w \in Workers, NEW e,
         NEW g, g = [f EXCEPT ![w] = e]
  PROVE  /\ g = [x \in Workers |-> g[x]] /\ g[w] = e
         /\ \A v \in Workers : v # w => g[v] = f[v]
OBVIOUS

-----------------------------------------------------------------------------
(* Steps that publish nothing, remove nothing and go on with no eviction.  *)
LEMMA DebtStays ==
  ASSUME SInv, DebtInv, OutNames(dir') = OutNames(dir), Histories', spared' = spared,
         \A w \in Workers : pc'[w] \in Armed => pc[w] \in Armed /\ ref'[w] = ref[w],
         \A w \in Workers : pc'[w] = "evict" =>
             /\ pc[w] = "evict" /\ total'[w] = total[w] /\ files'[w] = files[w]
             /\ unseen'[w] = unseen[w] /\ stuck'[w] = stuck[w]
  PROVE  DebtInv'
<1>1. PICK listed, renamed, blind, saved, base, now : Debt(listed, renamed, blind, saved, base, now)
  BY DEF DebtInv
<1>2. Order(listed, renamed, blind, saved, base) /\ Times(listed, renamed, blind, base, now)
  BY <1>1 DEF Debt
<1>3. ASSUME NEW w \in Workers, pc'[w] = "evict", listed[w] > base
      PROVE  Evicting(w, listed[w], renamed, blind)'
  <2>1. Evicting(w, listed[w], renamed, blind) /\ total'[w] = total[w] /\ files'[w] = files[w]
        /\ unseen'[w] = unseen[w] /\ stuck'[w] = stuck[w]
    BY <1>1, <1>3 DEF Debt
  <2> QED BY <2>1, EvictingSame
<1>4. Order(listed, renamed, blind, saved, base)'
  <2>1. \A w \in Workers : pc'[w] \in Armed \cup {"evict"} => pc[w] \in Armed \cup {"evict"}
    OBVIOUS
  <2> QED BY <1>2, <2>1 DEF Order
<1>5. Times(listed, renamed, blind, base, now)'
  BY <1>2 DEF Times
<1>6. (Weigh[Exceeding(saved, Blindly(blind, base))] <= Budget + Owed(renamed, base))'
  BY <1>1 DEF Debt, Exceeding
<1>7. Debt(listed, renamed, blind, saved, base, now)'
  BY <1>3, <1>4, <1>5, <1>6 DEF Debt
<1> QED BY <1>7 DEF DebtInv

(* A listing counts everything it sees.                                    *)
LEMMA DebtListed ==
  ASSUME SInv, DebtInv, NEW w \in Workers, EvictList(w)
  PROVE  DebtInv'
<1>1. PICK listed, renamed, blind, saved, base, now : Debt(listed, renamed, blind, saved, base, now)
  BY DEF DebtInv
<1>2. PICK missed \in SUBSET OutNames(dir) :
        /\ \E order \in Orders(OutNames(dir) \ missed) : files' = [files EXCEPT ![w] = Listing(order)]
        /\ total' = [total EXCEPT ![w] = BytesIn(OutNames(dir) \ missed)]
        /\ unseen' = [unseen EXCEPT ![w] = missed]
  BY DEF EvictList
<1>3. PICK seen \in SUBSET OutNames(dir) : seen = OutNames(dir) \ missed
  OBVIOUS
<1>4. PICK order \in Orders(seen) : files' = [files EXCEPT ![w] = Listing(order)]
  BY <1>2, <1>3
<1>5. /\ pc[w] = "list" /\ pc' = [pc EXCEPT ![w] = "evict"] /\ dir' = dir /\ inodes' = inodes
      /\ stuck' = stuck /\ spared' = spared /\ ref' = ref
      /\ pc \in [Workers -> Labels] /\ files \in [Workers -> Seq(Listed)]
  BY DEF EvictList, Goto, fs, SInv, Types
<1>6. /\ seen \in SUBSET Published /\ BytesIn(seen) = Weigh[seen]
      /\ \A n \in seen : SizeOf(n) = Bytes[n.ref]
  BY <1>3, BytesAre
<1>7. Weigh[seen] \in Nat
  BY <1>6, WeighIs
<1>8. Histories /\ Order(listed, renamed, blind, saved, base)
      /\ Times(listed, renamed, blind, base, now)
  BY <1>1 DEF Debt, DebtInv
<1>9. /\ listed \in [Workers -> Nat] /\ renamed \in [Workers -> Nat]
      /\ base \in Nat /\ now \in Nat /\ base <= now /\ now + 1 \in Nat
      /\ \A x \in Workers : listed[x] <= now /\ renamed[x] <= now
      /\ \A x \in Workers : \A n \in Published : blind[x][n] \in Nat /\ blind[x][n] <= now
  BY <1>8 DEF Times
<1>10. Histories'
  <2>1. total' = [total EXCEPT ![w] = Weigh[seen]] /\ total' \in [Workers -> Int]
    <3>1. BytesIn(OutNames(dir) \ missed) = Weigh[seen]
      BY <1>3, <1>6
    <3>2. total' = [total EXCEPT ![w] = Weigh[seen]]
      BY <1>2, <3>1
    <3>3. total \in [Workers -> Int] /\ Weigh[seen] \in Int
      BY <1>7, <1>8 DEF Histories
    <3> QED BY <3>2, <3>3
  <2>2. unseen' = [x \in Workers |-> unseen'[x]]
    BY <1>2, <1>8, Reassigned DEF Histories
  <2> QED BY <1>5, <1>8, <2>1, <2>2 DEF Histories
<1>11. PICK late : late = [listed EXCEPT ![w] = now + 1]
  OBVIOUS
<1>12. late \in [Workers -> Nat] /\ late[w] = now + 1 /\ \A v \in Workers : v # w => late[v] = listed[v]
  BY <1>9, <1>11
<1>13. Times(late, renamed, blind, base, now + 1)
  BY <1>8, <1>9, <1>12 DEF Times
<1>14. Evicting(w, now + 1, renamed, blind)'
  <2>1. Owed(renamed, now + 1) = 0
    <3>1. \A x \in Workers : renamed[x] <= now + 1
      BY <1>9
    <3> QED BY <1>9, <3>1, OwesNothing
  <2>2. Blindly(blind, now + 1) = {}
    BY <1>9 DEF Blindly
  <2>3. total'[w] = Weigh[seen] /\ files'[w] = Listing(order) /\ unseen'[w] = missed
    BY <1>2, <1>3, <1>4, <1>5, <1>6, <1>8 DEF Histories
  <2>4. PICK c : c = Cardinality(seen)
    OBVIOUS
  <2>5. /\ order \in [1 .. c -> seen] /\ \A n \in seen : \E i \in 1 .. c : order[i] = n
        /\ \A i, j \in 1 .. c : order[i] = order[j] => i = j
    BY <2>4 DEF Orders, Bijection, Injection, Surjection, IsInjective
  <2>6. c \in Nat
    BY <1>6, <2>4, PublishedFinite, FS_Subset, FS_CardinalityType
  <2>7. PICK list : list = Listing(order)
    OBVIOUS
  <2>8. list = [i \in 1 .. c |-> [name |-> order[i], size |-> SizeOf(order[i])]]
    BY <2>5, <2>7 DEF Listing
  <2>9. /\ Len(list) = c
        /\ \A i \in 1 .. c : list[i].name = order[i] /\ list[i].size = SizeOf(order[i])
    BY <2>6, <2>8
  <2>10. NamesOf(list) = seen
    BY <2>5, <2>9 DEF NamesOf
  <2>11. \A i \in 1 .. Len(list) : list[i].size = Bytes[list[i].name.ref]
    BY <1>6, <2>5, <2>9
  <2>12. \A i, j \in 1 .. Len(list) : list[i].name = list[j].name => i = j
    BY <2>5, <2>9
  <2>13. Believed(w, Blindly(blind, now + 1))' = seen
    BY <1>3, <1>5, <2>2, <2>3, <2>7, <2>10 DEF Believed, NamesOf, Blindly
  <2>14. Remaining(w, Blindly(blind, now + 1))' = {}
    BY <1>3, <1>5, <2>2, <2>3, <2>7, <2>10 DEF Remaining, NamesOf, Blindly
  <2>15. Weigh[seen] <= total'[w] + 0 /\ Weigh[{}] <= 0
    BY <1>7, <2>3, WeighIs
  <2> QED BY <2>1, <2>3, <2>7, <2>11, <2>12, <2>13, <2>14, <2>15 DEF Evicting, Owed
<1>15. ASSUME NEW v \in Workers, v # w, pc'[v] = "evict", late[v] > base
       PROVE  Evicting(v, late[v], renamed, blind)'
  <2>1. /\ pc[v] = "evict" /\ total'[v] = total[v] /\ files'[v] = files[v] /\ late[v] = listed[v]
        /\ unseen'[v] = unseen[v] /\ stuck'[v] = stuck[v]
    BY <1>2, <1>4, <1>5, <1>8, <1>12, <1>15 DEF Histories
  <2>2. Evicting(v, listed[v], renamed, blind)
    BY <1>1, <1>15, <2>1 DEF Debt
  <2>3. Evicting(v, listed[v], renamed, blind)'
    BY <1>5, <2>1, <2>2, EvictingSame
  <2> QED BY <2>1, <2>3
<1>16. Order(late, renamed, blind, saved, base)'
  <2>1. \A v \in Workers : pc'[v] \in Armed \cup {"evict"} => renamed[v] < late[v]
    <3> SUFFICES ASSUME NEW v \in Workers, pc'[v] \in Armed \cup {"evict"}
                 PROVE  renamed[v] < late[v]
      OBVIOUS
    <3>1. CASE v = w
      BY <1>9, <1>12, <3>1
    <3>2. CASE v # w
      BY <1>5, <1>8, <1>12, <3>2 DEF Order
    <3> QED BY <3>1, <3>2
  <2>2. \A v \in Workers : pc'[v] \in Armed => late[v] <= base \/ blind[v][Out(ref[v])] >= late[v]
    <3> SUFFICES ASSUME NEW v \in Workers, pc'[v] \in Armed
                 PROVE  late[v] <= base \/ blind[v][Out(ref[v])] >= late[v]
      OBVIOUS
    <3>1. v # w /\ pc[v] \in Armed
      BY <1>5 DEF Armed
    <3> QED BY <1>8, <1>12, <3>1 DEF Order
  <2>3. \A v \in Workers : pc'[v] = "evict" => \A n \in Published : blind[v][n] <= late[v]
    BY <1>5, <1>8, <1>9, <1>12 DEF Order
  <2>4. saved = {} \/ \E o \in Workers : saved \subseteq spared[o] /\ (pc'[o] = "evict" => late[o] > base)
    <3>1. CASE saved = {}
      BY <3>1
    <3>2. CASE saved # {}
      <4>1. PICK o \in Workers : saved \subseteq spared[o] /\ (pc[o] = "evict" => listed[o] > base)
        BY <1>8, <3>2 DEF Order
      <4>2. pc'[o] = "evict" => late[o] > base
        BY <1>5, <1>9, <1>12, <4>1
      <4> QED BY <4>1, <4>2
    <3> QED BY <3>1, <3>2
  <2> QED BY <1>5, <1>8, <2>1, <2>2, <2>3, <2>4 DEF Order
<1>17. (Weigh[Exceeding(saved, Blindly(blind, base))] <= Budget + Owed(renamed, base))'
  BY <1>1, <1>5 DEF Debt, Exceeding
<1>18. \A v \in Workers : pc'[v] = "evict" /\ late[v] > base => Evicting(v, late[v], renamed, blind)'
  BY <1>12, <1>14, <1>15
<1>19. Debt(late, renamed, blind, saved, base, now + 1)'
  BY <1>13, <1>16, <1>17, <1>18 DEF Debt, Times
<1> QED BY <1>10, <1>19 DEF DebtInv

(* A worker that cannot list the directory will publish one file the others *)
(* have not counted.                                                        *)
LEMMA DebtBlind ==
  ASSUME SInv, DebtInv, NEW w \in Workers, EvictBlind(w)
  PROVE  DebtInv'
<1>1. PICK listed, renamed, blind, saved, base, now : Debt(listed, renamed, blind, saved, base, now)
  BY DEF DebtInv
<1>2. PICK out : out = Out(ref[w])
  OBVIOUS
<1>3. /\ pc[w] = "list" /\ pc' = [pc EXCEPT ![w] = "open"] /\ dir' = dir /\ inodes' = inodes
      /\ spared' = [spared EXCEPT ![w] = spared[w] \cup {out}]
      /\ UNCHANGED <<ref, total, files, unseen, stuck>>
      /\ pc \in [Workers -> Labels] /\ out \in Published
  BY <1>2 DEF EvictBlind, Goto, fs, SInv, Types, Published
<1>4. Histories /\ Order(listed, renamed, blind, saved, base)
      /\ Times(listed, renamed, blind, base, now)
  BY <1>1 DEF Debt, DebtInv
<1>5. /\ listed \in [Workers -> Nat] /\ renamed \in [Workers -> Nat]
      /\ base \in Nat /\ now \in Nat /\ base <= now /\ now + 1 \in Nat
      /\ \A x \in Workers : listed[x] <= now /\ renamed[x] <= now
      /\ blind \in [Workers -> [Published -> Nat]]
      /\ \A x \in Workers : \A n \in Published : blind[x][n] <= now
  BY <1>4 DEF Times
<1>6. Histories' /\ \A v \in Workers : spared[v] \subseteq spared'[v]
  BY <1>3, <1>4 DEF Histories
<1>7. PICK late : late = [listed EXCEPT ![w] = now + 1]
  OBVIOUS
<1>8. late \in [Workers -> Nat] /\ late[w] = now + 1 /\ \A v \in Workers : v # w => late[v] = listed[v]
  BY <1>5, <1>7
<1>9. PICK more : more = [blind EXCEPT ![w] = [blind[w] EXCEPT ![out] = now + 1]]
  OBVIOUS
<1>10. /\ more \in [Workers -> [Published -> Nat]]
       /\ more[w][out] = now + 1
       /\ \A v \in Workers : v # w => more[v] = blind[v]
       /\ \A n \in Published : n # out => more[w][n] = blind[w][n]
  BY <1>3, <1>5, <1>9
<1>11. \A v \in Workers : \A n \in Published : blind[v][n] <= more[v][n] /\ more[v][n] <= now + 1
  BY <1>5, <1>10
<1>12. Times(late, renamed, more, base, now + 1)
  BY <1>4, <1>5, <1>8, <1>10, <1>11 DEF Times
<1>13. \A t \in Nat : Blindly(blind, t) \subseteq Blindly(more, t)
  <2> SUFFICES ASSUME NEW t \in Nat, NEW n \in Published, NEW x \in Workers, blind[x][n] > t
               PROVE  more[x][n] > t
    BY DEF Blindly
  <2>1. blind[x][n] \in Nat /\ more[x][n] \in Nat /\ blind[x][n] <= more[x][n]
    BY <1>5, <1>10, <1>11
  <2> QED BY <2>1
<1>14. ASSUME NEW v \in Workers, pc'[v] = "evict", late[v] > base
       PROVE  Evicting(v, late[v], renamed, more)'
  <2>1. v # w /\ pc[v] = "evict" /\ late[v] = listed[v]
    BY <1>3, <1>8, <1>14
  <2>2. Evicting(v, listed[v], renamed, blind)
    BY <1>1, <1>14, <2>1 DEF Debt
  <2>3. PICK t \in Nat : t = listed[v]
    BY <1>5
  <2>4. Believed(v, Blindly(more, t))' \subseteq Believed(v, Blindly(blind, t))
    BY <1>3, <1>13 DEF Believed, NamesOf, Blindly
  <2>5. Remaining(v, Blindly(more, t))' \subseteq Remaining(v, Blindly(blind, t))
    BY <1>3, <1>13 DEF Remaining, NamesOf, Blindly
  <2>6. Owed(renamed, t) >= Owed(renamed, t) /\ total \in [Workers -> Int]
    BY <1>4, OwedIs DEF Histories
  <2>7. Evicting(v, t, renamed, more)'
    BY <1>3, <2>2, <2>3, <2>4, <2>5, <2>6, EvictingStays
  <2> QED BY <2>1, <2>3, <2>7
<1>15. (Weigh[Exceeding(saved, Blindly(more, base))] <= Budget + Owed(renamed, base))'
  <2>1. Weigh[Exceeding(saved, Blindly(blind, base))] <= Budget + Owed(renamed, base)
    BY <1>1 DEF Debt
  <2>2. PICK s, t : s = Exceeding(saved, Blindly(blind, base)) /\ t = Exceeding(saved, Blindly(more, base))
    OBVIOUS
  <2>3. s \in SUBSET Published /\ t \in SUBSET s
    BY <1>5, <1>13, <2>2, AllPublished DEF Exceeding
  <2>4. Weigh[t] <= Budget + Owed(renamed, base)
    BY <2>1, <2>2, <2>3, WeighLess, OwedIs, SpillAssumption
  <2> QED BY <1>3, <2>2, <2>4 DEF Exceeding
<1>16. Order(late, renamed, more, saved, base)'
  <2>1. \A v \in Workers : pc'[v] \in Armed \cup {"evict"} => renamed[v] < late[v]
    <3> SUFFICES ASSUME NEW v \in Workers, pc'[v] \in Armed \cup {"evict"}
                 PROVE  renamed[v] < late[v]
      OBVIOUS
    <3>1. CASE v = w
      BY <1>5, <1>8, <3>1
    <3>2. CASE v # w
      BY <1>3, <1>4, <1>8, <3>2 DEF Order
    <3> QED BY <3>1, <3>2
  <2>2. \A v \in Workers : pc'[v] \in Armed => late[v] <= base \/ more[v][Out(ref[v])] >= late[v]
    <3> SUFFICES ASSUME NEW v \in Workers, pc'[v] \in Armed
                 PROVE  late[v] <= base \/ more[v][Out(ref[v])] >= late[v]
      OBVIOUS
    <3>1. CASE v = w
      BY <1>2, <1>5, <1>8, <1>10, <3>1
    <3>2. CASE v # w
      BY <1>3, <1>4, <1>8, <1>10, <3>2 DEF Order
    <3> QED BY <3>1, <3>2
  <2>3. \A v \in Workers : pc'[v] = "evict" => \A n \in Published : more[v][n] <= late[v]
    BY <1>3, <1>4, <1>8, <1>10 DEF Order
  <2>4. \A v \in Workers : \A n \in Published : more[v][n] > base => n \in spared'[v]
    <3> SUFFICES ASSUME NEW v \in Workers, NEW n \in Published, more[v][n] > base
                 PROVE  n \in spared'[v]
      OBVIOUS
    <3>1. CASE v = w /\ n = out
      BY <1>3, <1>4, <3>1 DEF Histories
    <3>2. CASE ~(v = w /\ n = out)
      <4>1. blind[v][n] > base
        BY <1>10, <3>2
      <4> QED BY <1>4, <1>6, <4>1 DEF Order
    <3> QED BY <3>1, <3>2
  <2>5. saved = {} \/ \E o \in Workers : saved \subseteq spared'[o] /\ (pc'[o] = "evict" => late[o] > base)
    <3>1. CASE saved = {}
      BY <3>1
    <3>2. CASE \E o \in Workers : saved \subseteq spared[o] /\ (pc[o] = "evict" => listed[o] > base)
      <4>1. PICK o \in Workers : saved \subseteq spared[o] /\ (pc[o] = "evict" => listed[o] > base)
        BY <3>2
      <4>2. saved \subseteq spared'[o] /\ (pc'[o] = "evict" => late[o] > base)
        BY <1>3, <1>6, <1>8, <4>1
      <4> QED BY <4>2
    <3> QED BY <1>4, <3>1, <3>2 DEF Order
  <2> QED BY <1>3, <2>1, <2>2, <2>3, <2>4, <2>5 DEF Order
<1>17. Debt(late, renamed, more, saved, base, now + 1)'
  BY <1>12, <1>14, <1>15, <1>16 DEF Debt, Times
<1> QED BY <1>6, <1>17 DEF DebtInv

(* The file a worker visits is in its list once.                           *)
LEMMA Visited ==
  ASSUME SInv, NEW w \in Workers, Visits(w), NEW f, f = Head(files[w]),
         \A i, j \in 1 .. Len(files[w]) : files[w][i].name = files[w][j].name => i = j
  PROVE  /\ f \in Listed /\ f.name \in Published /\ f.size \in Nat
         /\ files'[w] = Tail(files[w]) /\ Len(files[w]) >= 1
         /\ NamesOf(Tail(files[w])) = NamesOf(files[w]) \ {f.name}
         /\ f.name \in NamesOf(files[w])
         /\ f = files[w][1]
         /\ Len(Tail(files[w])) = Len(files[w]) - 1
         /\ \A i \in 1 .. Len(files[w]) - 1 : Tail(files[w])[i] = files[w][i + 1]
<1>1. PICK list \in Seq(Listed) : list = files[w]
  BY DEF SInv, Types
<1>2. list # <<>> /\ files' = [files EXCEPT ![w] = Tail(list)] /\ files \in [Workers -> Seq(Listed)]
  BY <1>1 DEF Visits, SInv, Types
<1>3. /\ files'[w] = Tail(list) /\ f = list[1] /\ Len(list) \in Nat /\ Len(list) >= 1
      /\ Len(Tail(list)) = Len(list) - 1 /\ \A i \in 1 .. Len(list) - 1 : Tail(list)[i] = list[i + 1]
  BY <1>1, <1>2
<1>4. f \in Listed
  BY <1>3
<1>5. f.name \in Published /\ f.size \in Nat
  BY <1>4 DEF Listed, Published, Out
<1>6. f.name \in NamesOf(list)
  BY <1>3 DEF NamesOf
<1>7. NamesOf(list) \ {f.name} \subseteq NamesOf(Tail(list))
  <2> SUFFICES ASSUME NEW i \in 1 .. Len(list), i # 1
               PROVE  list[i].name \in NamesOf(Tail(list))
    BY <1>3 DEF NamesOf
  <2>1. PICK j : j = i - 1
    OBVIOUS
  <2>2. j \in 1 .. Len(Tail(list)) /\ Tail(list)[j] = list[i]
    BY <1>3, <2>1
  <2> QED BY <2>2 DEF NamesOf
<1>8. NamesOf(Tail(list)) \subseteq NamesOf(list) \ {f.name}
  <2> SUFFICES ASSUME NEW i \in 1 .. Len(Tail(list))
               PROVE  Tail(list)[i].name \in NamesOf(list) \ {f.name}
    BY DEF NamesOf
  <2>1. i + 1 \in 1 .. Len(list) /\ i + 1 # 1 /\ 1 \in 1 .. Len(list) /\ Tail(list)[i] = list[i + 1]
    BY <1>3
  <2>2. list[i + 1].name # list[1].name
    BY <1>1, <2>1
  <2> QED BY <1>3, <2>1, <2>2 DEF NamesOf
<1> QED BY <1>1, <1>3, <1>4, <1>5, <1>6, <1>7, <1>8

(* Its sizes and the distinctness of its names outlive the visit.          *)
LEMMA ListStays ==
  ASSUME SInv, NEW w \in Workers, Visits(w),
         \A i \in 1 .. Len(files[w]) : files[w][i].size = Bytes[files[w][i].name.ref],
         \A i, j \in 1 .. Len(files[w]) : files[w][i].name = files[w][j].name => i = j
  PROVE  /\ \A i \in 1 .. Len(files'[w]) : files'[w][i].size = Bytes[files'[w][i].name.ref]
         /\ \A i, j \in 1 .. Len(files'[w]) : files'[w][i].name = files'[w][j].name => i = j
<1>1. PICK list : list = files[w]
  OBVIOUS
<1>2. PICK rest : rest = Tail(list)
  OBVIOUS
<1>3. /\ files'[w] = rest /\ Len(rest) = Len(list) - 1 /\ Len(list) \in Nat
      /\ \A i \in 1 .. Len(list) - 1 : rest[i] = list[i + 1]
  <2>1. files[w] \in Seq(Listed)
    BY DEF SInv, Types
  <2> QED BY <1>1, <1>2, <2>1, Visited
<1>4. \A i \in 1 .. Len(rest) : i + 1 \in 1 .. Len(list) /\ rest[i] = list[i + 1]
  BY <1>3
<1>5. \A i \in 1 .. Len(rest) : rest[i].size = Bytes[rest[i].name.ref]
  BY <1>1, <1>4
<1>6. ASSUME NEW i \in 1 .. Len(rest), NEW j \in 1 .. Len(rest), rest[i].name = rest[j].name
      PROVE  i = j
  <2>1. i + 1 = j + 1
    BY <1>1, <1>4, <1>6
  <2> QED BY <2>1
<1> QED BY <1>3, <1>5, <1>6

(* Every file that goes is taken off what the worker believes is there.    *)
LEMMA DebtEvicts ==
  ASSUME SInv, DebtInv, NEW w \in Workers, EvictOldest(w)
  PROVE  DebtInv'
<1>1. PICK listed, renamed, blind, saved, base, now : Debt(listed, renamed, blind, saved, base, now)
  BY DEF DebtInv
<1>2. PICK f : f = Head(files[w])
  OBVIOUS
<1>3. /\ Visits(w) /\ pc[w] = "evict" /\ dir' = Unlink(f.name)
      /\ total' = [total EXCEPT ![w] = IF f.name \in DOMAIN dir THEN total[w] - f.size ELSE total[w]]
      /\ files' = [files EXCEPT ![w] = Tail(files[w])]
      /\ UNCHANGED <<pc, ref, unseen, stuck, spared>>
      /\ files \in [Workers -> Seq(Listed)] /\ files[w] # <<>>
  BY <1>2 DEF EvictOldest, Visits, bounds, evictions, SInv, Types
<1>4. Histories /\ Order(listed, renamed, blind, saved, base)
      /\ Times(listed, renamed, blind, base, now)
  BY <1>1 DEF Debt, DebtInv
<1>5. total \in [Workers -> Int] /\ listed \in [Workers -> Nat] /\ base \in Nat
  BY <1>4 DEF Histories, Times
<1>6. f \in Listed /\ f.size \in Nat /\ f.name.kind = "out"
  <2>1. files[w] \in Seq(Listed)
    BY <1>3
  <2>2. f \in Listed
    BY <1>2, <1>3, <2>1
  <2> QED BY <2>2 DEF Listed
<1>7. OutNames(dir') = OutNames(dir) \ {f.name}
  BY <1>3, <1>6 DEF OutNames, Unlink
<1>8. f.name \in DOMAIN dir <=> f.name \in OutNames(dir)
  BY <1>6 DEF OutNames
<1>9. Histories'
  <2>1. total' \in [Workers -> Int]
    BY <1>3, <1>5, <1>6
  <2> QED BY <1>3, <1>4, <2>1 DEF Histories
<1>10. ASSUME NEW v \in Workers, pc'[v] = "evict", listed[v] > base
       PROVE  Evicting(v, listed[v], renamed, blind)'
  <2>1. Evicting(v, listed[v], renamed, blind)
    BY <1>1, <1>3, <1>10 DEF Debt
  <2>2. PICK t \in Nat : t = listed[v]
    BY <1>5
  <2>3. Owed(renamed, t) \in Nat /\ Owed(renamed, t) >= Owed(renamed, t)
    BY OwedIs
  <2>4. CASE v # w
    <3>1. total'[v] = total[v] /\ files'[v] = files[v]
      BY <1>3, <1>5, <2>4
    <3>2. Believed(v, Blindly(blind, t))' \subseteq Believed(v, Blindly(blind, t))
      BY <1>3, <1>7, <3>1 DEF Believed, NamesOf, Blindly
    <3>3. Remaining(v, Blindly(blind, t))' \subseteq Remaining(v, Blindly(blind, t))
      BY <1>3, <1>7, <3>1 DEF Remaining, NamesOf, Blindly
    <3>4. Evicting(v, t, renamed, blind)'
      BY <1>5, <2>1, <2>2, <2>3, <3>1, <3>2, <3>3, EvictingStays
    <3> QED BY <2>2, <3>4
  <2>5. CASE v = w
    <3>1. /\ Weigh[Believed(w, Blindly(blind, t))] <= total[w] + Owed(renamed, t)
          /\ Weigh[Remaining(w, Blindly(blind, t))] <= Owed(renamed, t)
          /\ \A i \in 1 .. Len(files[w]) : files[w][i].size = Bytes[files[w][i].name.ref]
          /\ \A i, j \in 1 .. Len(files[w]) : files[w][i].name = files[w][j].name => i = j
      BY <2>1, <2>2, <2>5 DEF Evicting
    <3>2. /\ files'[w] = Tail(files[w]) /\ NamesOf(files'[w]) = NamesOf(files[w]) \ {f.name}
          /\ f.name \in NamesOf(files[w]) /\ f = files[w][1] /\ 1 \in 1 .. Len(files[w])
      <4>1. Len(files[w]) \in Nat
        BY <1>3
      <4>2. /\ files'[w] = Tail(files[w]) /\ NamesOf(Tail(files[w])) = NamesOf(files[w]) \ {f.name}
            /\ f.name \in NamesOf(files[w]) /\ f = files[w][1] /\ Len(files[w]) >= 1
        BY <1>2, <1>3, <3>1, Visited
      <4>3. NamesOf(files'[w]) = NamesOf(Tail(files[w]))
        BY <4>2
      <4> QED BY <4>1, <4>2, <4>3
    <3>3. f.size = Bytes[f.name.ref]
      BY <3>1, <3>2
    <3>4. PICK b, r : b = Believed(w, Blindly(blind, t)) /\ r = Remaining(w, Blindly(blind, t))
      OBVIOUS
    <3>5. PICK c, s : c = Believed(w, Blindly(blind, t))' /\ s = Remaining(w, Blindly(blind, t))'
      OBVIOUS
    <3>6. c \subseteq b \ {f.name} /\ f.name \in b
      BY <1>3, <1>7, <3>2, <3>4, <3>5 DEF Believed, NamesOf, Blindly
    <3>7. s \subseteq r
      BY <1>3, <1>7, <3>2, <3>4, <3>5 DEF Remaining, NamesOf, Blindly
    <3>8. b \in SUBSET Published /\ r \in SUBSET Published
      BY <3>4, AllPublished
    <3>9. /\ Weigh[b] = Weigh[b \ {f.name}] + f.size /\ Weigh[b \ {f.name}] \in Nat
          /\ Weigh[c] \in Nat /\ Weigh[c] <= Weigh[b \ {f.name}]
      <4>1. b \ {f.name} \in SUBSET Published
        BY <3>8
      <4> QED BY <3>3, <3>6, <3>8, <4>1, WeighWithout, WeighLess
    <3>10. Weigh[s] <= Owed(renamed, t)
      <4>1. Weigh[s] <= Weigh[r] /\ Weigh[s] \in Nat /\ Weigh[r] \in Nat
        BY <3>7, <3>8, WeighLess
      <4>2. Weigh[r] <= Owed(renamed, t)
        BY <3>1, <3>4
      <4> QED BY <2>3, <4>1, <4>2
    <3>11. Weigh[c] <= total'[w] + Owed(renamed, t)
      <4>1. Weigh[b] <= total[w] + Owed(renamed, t) /\ total[w] \in Int
        BY <1>5, <3>1, <3>4
      <4>2. total'[w] = total[w] - f.size \/ total'[w] = total[w]
        BY <1>3, <1>5
      <4> QED BY <1>6, <2>3, <3>9, <4>1, <4>2, SMTT(40)
    <3>12. /\ \A i \in 1 .. Len(files'[w]) : files'[w][i].size = Bytes[files'[w][i].name.ref]
           /\ \A i, j \in 1 .. Len(files'[w]) : files'[w][i].name = files'[w][j].name => i = j
      BY <1>3, <3>1, ListStays
    <3> QED BY <2>2, <2>5, <3>5, <3>10, <3>11, <3>12 DEF Evicting, Owed
  <2> QED BY <2>4, <2>5
<1>11. (Weigh[Exceeding(saved, Blindly(blind, base))] <= Budget + Owed(renamed, base))'
  <2>1. PICK s, t : s = Exceeding(saved, Blindly(blind, base)) /\ t = Exceeding(saved, Blindly(blind, base))'
    OBVIOUS
  <2>2. s \in SUBSET Published /\ t \in SUBSET s
    BY <1>7, <2>1, AllPublished DEF Exceeding, Blindly
  <2>3. Weigh[s] <= Budget + Owed(renamed, base)
    BY <1>1, <2>1 DEF Debt
  <2>4. Weigh[t] <= Budget + Owed(renamed, base)
    BY <2>2, <2>3, WeighLess, OwedIs, SpillAssumption
  <2> QED BY <2>1, <2>4 DEF Owed
<1>12. Order(listed, renamed, blind, saved, base)'
  BY <1>3, <1>4 DEF Order
<1>13. Debt(listed, renamed, blind, saved, base, now)'
  BY <1>4, <1>10, <1>11, <1>12 DEF Debt, Times
<1> QED BY <1>9, <1>13 DEF DebtInv

(* A file that cannot be removed stays in what the worker believes.        *)
LEMMA DebtFails ==
  ASSUME SInv, DebtInv, NEW w \in Workers, EvictFails(w)
  PROVE  DebtInv'
<1>1. PICK listed, renamed, blind, saved, base, now : Debt(listed, renamed, blind, saved, base, now)
  BY DEF DebtInv
<1>2. PICK f : f = Head(files[w])
  OBVIOUS
<1>3. /\ Visits(w) /\ pc[w] = "evict" /\ dir' = dir
      /\ files' = [files EXCEPT ![w] = Tail(files[w])]
      /\ stuck' = [stuck EXCEPT ![w] = stuck[w] \cup {f.name}]
      /\ UNCHANGED <<pc, ref, total, unseen, spared>>
      /\ files \in [Workers -> Seq(Listed)] /\ files[w] # <<>>
  BY <1>2 DEF EvictFails, Visits, fs, SInv, Types
<1>4. Histories /\ Order(listed, renamed, blind, saved, base)
      /\ Times(listed, renamed, blind, base, now)
  BY <1>1 DEF Debt, DebtInv
<1>5. total \in [Workers -> Int] /\ listed \in [Workers -> Nat] /\ base \in Nat
  BY <1>4 DEF Histories, Times
<1>6. Histories'
  BY <1>3, <1>4 DEF Histories
<1>7. ASSUME NEW v \in Workers, pc'[v] = "evict", listed[v] > base
      PROVE  Evicting(v, listed[v], renamed, blind)'
  <2>1. Evicting(v, listed[v], renamed, blind)
    BY <1>1, <1>3, <1>7 DEF Debt
  <2>2. PICK t \in Nat : t = listed[v]
    BY <1>5
  <2>3. Owed(renamed, t) \in Nat /\ total[v] \in Int
    BY <1>5, OwedIs
  <2>4. CASE v # w
    <3>1. files'[v] = files[v] /\ stuck'[v] = stuck[v]
      BY <1>3, <1>4, <2>4 DEF Histories
    <3> QED BY <1>3, <2>1, <3>1, EvictingSame
  <2>5. CASE v = w
    <3>1. /\ Weigh[Believed(w, Blindly(blind, t))] <= total[w] + Owed(renamed, t)
          /\ Weigh[Remaining(w, Blindly(blind, t))] <= Owed(renamed, t)
          /\ \A i \in 1 .. Len(files[w]) : files[w][i].size = Bytes[files[w][i].name.ref]
          /\ \A i, j \in 1 .. Len(files[w]) : files[w][i].name = files[w][j].name => i = j
      BY <2>1, <2>2, <2>5 DEF Evicting
    <3>2. /\ files'[w] = Tail(files[w]) /\ NamesOf(files'[w]) = NamesOf(files[w]) \ {f.name}
      BY <1>2, <1>3, <3>1, Visited
    <3>3. stuck'[w] = stuck[w] \cup {f.name}
      BY <1>3, <1>4 DEF Histories
    <3>4. PICK b, r : b = Believed(w, Blindly(blind, t)) /\ r = Remaining(w, Blindly(blind, t))
      OBVIOUS
    <3>5. PICK c, s : c = Believed(w, Blindly(blind, t))' /\ s = Remaining(w, Blindly(blind, t))'
      OBVIOUS
    <3>6. c \subseteq b
      BY <1>3, <3>2, <3>4, <3>5 DEF Believed, NamesOf, Blindly
    <3>7. s \subseteq r
      BY <1>3, <3>2, <3>3, <3>4, <3>5 DEF Remaining, NamesOf, Blindly
    <3>8. b \in SUBSET Published /\ r \in SUBSET Published
      BY <3>4, AllPublished
    <3>9. /\ Weigh[c] <= Weigh[b] /\ Weigh[c] \in Nat /\ Weigh[b] \in Nat
          /\ Weigh[s] <= Weigh[r] /\ Weigh[s] \in Nat /\ Weigh[r] \in Nat
      BY <3>6, <3>7, <3>8, WeighLess
    <3>10. Weigh[c] <= total'[w] + Owed(renamed, t) /\ Weigh[s] <= Owed(renamed, t)
      BY <1>3, <2>3, <2>5, <3>1, <3>4, <3>9
    <3>11. /\ \A i \in 1 .. Len(files'[w]) : files'[w][i].size = Bytes[files'[w][i].name.ref]
           /\ \A i, j \in 1 .. Len(files'[w]) : files'[w][i].name = files'[w][j].name => i = j
      BY <1>3, <3>1, ListStays
    <3> QED BY <2>2, <2>5, <3>5, <3>10, <3>11 DEF Evicting, Owed
  <2> QED BY <2>4, <2>5
<1>8. (Weigh[Exceeding(saved, Blindly(blind, base))] <= Budget + Owed(renamed, base))'
  BY <1>1, <1>3 DEF Debt, Exceeding
<1>9. Order(listed, renamed, blind, saved, base)'
  BY <1>3, <1>4 DEF Order
<1>10. Debt(listed, renamed, blind, saved, base, now)'
  BY <1>4, <1>7, <1>8, <1>9 DEF Debt, Times
<1> QED BY <1>6, <1>10 DEF DebtInv

(* A worker that goes on to the write saw the directory fit its budget, or *)
(* has visited all it had listed.                                          *)
LEMMA DebtDone ==
  ASSUME SInv, DebtInv, NEW w \in Workers, EvictDone(w)
  PROVE  DebtInv'
<1>1. PICK listed, renamed, blind, saved, base, now : Debt(listed, renamed, blind, saved, base, now)
  BY DEF DebtInv
<1>2. PICK rest : rest = IF total[w] <= Budget THEN unseen[w] ELSE unseen[w] \cup stuck[w]
  OBVIOUS
<1>3. /\ pc[w] = "evict" /\ pc' = [pc EXCEPT ![w] = "open"] /\ dir' = dir /\ ref' = ref
      /\ total[w] <= Budget \/ files[w] = <<>>
      /\ total' = [total EXCEPT ![w] = 0] /\ files' = [files EXCEPT ![w] = <<>>]
      /\ spared' = [spared EXCEPT ![w] = rest]
      /\ unseen' = [unseen EXCEPT ![w] = {}] /\ stuck' = [stuck EXCEPT ![w] = {}]
      /\ pc \in [Workers -> Labels] /\ files \in [Workers -> Seq(Listed)]
  BY <1>2 DEF EvictDone, Goto, WithinBudget, fs, SInv, Types
<1>4. Histories /\ Order(listed, renamed, blind, saved, base)
      /\ Times(listed, renamed, blind, base, now)
  BY <1>1 DEF Debt, DebtInv
<1>5. /\ listed \in [Workers -> Nat] /\ base \in Nat /\ now \in Nat /\ base <= now
      /\ \A x \in Workers : listed[x] <= now
      /\ blind \in [Workers -> [Published -> Nat]]
      /\ total \in [Workers -> Int]
  BY <1>4 DEF Times, Histories
<1>6. Histories' /\ spared'[w] = rest /\ \A v \in Workers : v # w => spared'[v] = spared[v]
  <2>1. total' \in [Workers -> Int]
    BY <1>3, <1>5
  <2>2. /\ spared' = [x \in Workers |-> spared'[x]] /\ spared'[w] = rest
        /\ \A v \in Workers : v # w => spared'[v] = spared[v]
    BY <1>3, <1>4, Reassigned DEF Histories
  <2>3. unseen' = [x \in Workers |-> unseen'[x]] /\ stuck' = [x \in Workers |-> stuck'[x]]
    BY <1>3, <1>4, Reassigned DEF Histories
  <2> QED BY <2>1, <2>2, <2>3 DEF Histories
<1>7. PICK start : start = IF listed[w] > base THEN listed[w] ELSE base
  OBVIOUS
<1>8. start \in Nat /\ start <= now /\ base <= start /\ listed[w] <= start
  BY <1>5, <1>7
<1>9. PICK left : left = IF listed[w] > base THEN rest ELSE saved
  OBVIOUS
<1>10. Weigh[Exceeding(left, Blindly(blind, start))] <= Budget + Owed(renamed, start)
  <2>1. CASE listed[w] > base
    <3>1. Evicting(w, listed[w], renamed, blind) /\ start = listed[w] /\ left = rest
      BY <1>1, <1>3, <1>7, <1>9, <2>1 DEF Debt
    <3>2. Owed(renamed, start) \in Nat /\ Budget \in Nat /\ total[w] \in Int
      BY <1>5, OwedIs, SpillAssumption
    <3>3. PICK b, r, e : /\ b = Believed(w, Blindly(blind, start))
                         /\ r = Remaining(w, Blindly(blind, start))
                         /\ e = Exceeding(left, Blindly(blind, start))
      OBVIOUS
    <3>4. b \in SUBSET Published /\ r \in SUBSET Published
      BY <3>3, AllPublished
    <3>5. Weigh[b] <= total[w] + Owed(renamed, start) /\ Weigh[r] <= Owed(renamed, start)
      BY <3>1, <3>3 DEF Evicting
    <3>6. CASE total[w] <= Budget
      <4>1. e \subseteq b
        BY <1>2, <3>1, <3>3, <3>6 DEF Believed, Exceeding
      <4>2. Weigh[e] <= Weigh[b] /\ Weigh[e] \in Nat /\ Weigh[b] \in Nat
        BY <3>4, <4>1, WeighLess
      <4> QED BY <3>2, <3>3, <3>5, <3>6, <4>2
    <3>7. CASE ~(total[w] <= Budget)
      <4>1. NamesOf(files[w]) = {}
        BY <1>3, <3>7 DEF NamesOf
      <4>2. e \subseteq r
        BY <1>2, <3>1, <3>3, <3>7, <4>1 DEF Remaining, Exceeding
      <4>3. Weigh[e] <= Weigh[r] /\ Weigh[e] \in Nat /\ Weigh[r] \in Nat
        BY <3>4, <4>2, WeighLess
      <4> QED BY <3>2, <3>3, <3>5, <4>3
    <3> QED BY <3>6, <3>7
  <2>2. CASE ~(listed[w] > base)
    BY <1>1, <1>7, <1>9, <2>2 DEF Debt
  <2> QED BY <2>1, <2>2
<1>11. ASSUME NEW v \in Workers, pc'[v] = "evict", listed[v] > start
       PROVE  Evicting(v, listed[v], renamed, blind)'
  <2>1. v # w /\ pc[v] = "evict" /\ listed[v] > base
    BY <1>3, <1>5, <1>8, <1>11
  <2>2. /\ total'[v] = total[v] /\ files'[v] = files[v]
        /\ unseen'[v] = unseen[v] /\ stuck'[v] = stuck[v]
    BY <1>3, <1>4, <2>1 DEF Histories
  <2>3. Evicting(v, listed[v], renamed, blind)
    BY <1>1, <2>1 DEF Debt
  <2> QED BY <1>3, <2>2, <2>3, EvictingSame
<1>12. Order(listed, renamed, blind, left, start)'
  <2>1. \A v \in Workers : pc'[v] \in Armed \cup {"evict"} => renamed[v] < listed[v]
    BY <1>3, <1>4 DEF Order
  <2>2. \A v \in Workers : pc'[v] \in Armed => listed[v] <= start \/ blind[v][Out(ref[v])] >= listed[v]
    <3> SUFFICES ASSUME NEW v \in Workers, pc'[v] \in Armed, v # w
                 PROVE  listed[v] <= start \/ blind[v][Out(ref[v])] >= listed[v]
      BY <1>8
    <3>1. listed[v] <= base \/ blind[v][Out(ref[v])] >= listed[v]
      BY <1>3, <1>4 DEF Order
    <3>2. listed[v] <= base => listed[v] <= start
      BY <1>5, <1>8
    <3> QED BY <3>1, <3>2
  <2>3. \A v \in Workers : pc'[v] = "evict" => \A n \in Published : blind[v][n] <= listed[v]
    BY <1>3, <1>4 DEF Order
  <2>4. \A v \in Workers : \A n \in Published : blind[v][n] > start => n \in spared'[v]
    <3> SUFFICES ASSUME NEW v \in Workers, NEW n \in Published, blind[v][n] > start
                 PROVE  n \in spared'[v]
      OBVIOUS
    <3>1. blind[v][n] \in Nat
      BY <1>5
    <3>2. v # w
      <4>1. blind[w][n] <= listed[w]
        BY <1>3, <1>4 DEF Order
      <4> QED BY <1>5, <1>8, <3>1, <4>1
    <3>3. blind[v][n] > base
      BY <1>5, <1>8, <3>1
    <3> QED BY <1>4, <1>6, <3>2, <3>3 DEF Order
  <2>5. left = {} \/ \E o \in Workers : left \subseteq spared'[o] /\ (pc'[o] = "evict" => listed[o] > start)
    <3>1. CASE listed[w] > base
      <4>1. left \subseteq spared'[w] /\ pc'[w] # "evict"
        BY <1>3, <1>6, <1>9, <3>1
      <4> QED BY <4>1
    <3>2. CASE ~(listed[w] > base) /\ saved = {}
      BY <1>9, <3>2
    <3>3. CASE ~(listed[w] > base) /\ saved # {}
      <4>1. PICK o \in Workers : saved \subseteq spared[o] /\ (pc[o] = "evict" => listed[o] > base)
        BY <1>4, <3>3 DEF Order
      <4>2. o # w /\ start = base /\ left = saved
        BY <1>3, <1>7, <1>9, <3>3, <4>1
      <4>3. left \subseteq spared'[o] /\ (pc'[o] = "evict" => listed[o] > start)
        BY <1>3, <1>6, <4>1, <4>2
      <4> QED BY <4>3
    <3> QED BY <3>1, <3>2, <3>3
  <2> QED BY <1>3, <2>1, <2>2, <2>3, <2>4, <2>5 DEF Order
<1>13. Times(listed, renamed, blind, start, now)
  BY <1>4, <1>8 DEF Times
<1>14. (Weigh[Exceeding(left, Blindly(blind, start))] <= Budget + Owed(renamed, start))'
  BY <1>3, <1>10 DEF Exceeding
<1>15. Debt(listed, renamed, blind, left, start, now)'
  BY <1>11, <1>12, <1>13, <1>14 DEF Debt, Times
<1> QED BY <1>6, <1>15 DEF DebtInv

(* A rename publishes one file, by a worker that owed none or that could   *)
(* not list the directory.                                                 *)
LEMMA DebtRenames ==
  ASSUME OwnProcesses, SInv, DebtInv, NEW w \in Workers, SpillRename(w)
  PROVE  DebtInv'
<1>1. PICK listed, renamed, blind, saved, base, now : Debt(listed, renamed, blind, saved, base, now)
  BY DEF DebtInv
<1>2. PICK out : out = Out(ref[w])
  OBVIOUS
<1>3. /\ pc[w] = "rename" /\ pc' = [pc EXCEPT ![w] = "renamed"]
      /\ UNCHANGED <<ref, files, total, unseen, stuck, spared>>
      /\ dir' = Link(Unlink(Tmp(w, ref[w])), out, dir[Tmp(w, ref[w])])
      /\ pc \in [Workers -> Labels] /\ ref[w] \in Refs
  BY <1>2 DEF SpillRename, Goto, bounds, evictions, SInv, Types
<1>4. /\ Tmp(w, ref[w]).kind # "out" /\ out.kind = "out" /\ out \in Published
  BY <1>2, <1>3, TmpNames DEF Published
<1>5. OutNames(dir') = OutNames(dir) \cup {out}
  BY <1>3, <1>4 DEF OutNames, Link, Unlink
<1>6. Histories /\ Order(listed, renamed, blind, saved, base)
      /\ Times(listed, renamed, blind, base, now)
  BY <1>1 DEF Debt, DebtInv
<1>7. /\ listed \in [Workers -> Nat] /\ renamed \in [Workers -> Nat]
      /\ base \in Nat /\ now \in Nat /\ base <= now /\ now + 1 \in Nat
      /\ \A x \in Workers : listed[x] <= now /\ renamed[x] <= now
      /\ blind \in [Workers -> [Published -> Nat]]
      /\ total \in [Workers -> Int] /\ renamed[w] < listed[w]
      /\ listed[w] <= base \/ blind[w][out] >= listed[w]
  <2>1. pc[w] \in Armed
    BY <1>3 DEF Armed
  <2>2. renamed[w] < listed[w] /\ (listed[w] <= base \/ blind[w][out] >= listed[w])
    BY <1>2, <1>6, <2>1 DEF Order
  <2> QED BY <1>6, <2>2 DEF Times, Histories
<1>8. Longest \in Nat /\ Budget \in Nat
  BY LongestIs, SpillAssumption
<1>9. PICK later : later = [renamed EXCEPT ![w] = now + 1]
  OBVIOUS
<1>10. /\ later \in [Workers -> Nat] /\ later[w] = now + 1
       /\ \A x \in Workers : x # w => later[x] = renamed[x]
  BY <1>7, <1>9
<1>11. ASSUME NEW t \in Nat, base <= t, t <= now
       PROVE  /\ Owed(later, t) \in Nat /\ Owed(renamed, t) \in Nat
              /\ Owed(later, t) >= Owed(renamed, t)
              /\ out \in Blindly(blind, t) \/ Owed(later, t) = Owed(renamed, t) + Longest
  <2>1. PICK n \in Nat : n = now + 1 /\ n > t
    BY <1>7, <1>11
  <2>2. later = [renamed EXCEPT ![w] = n] /\ renamed \in [Workers -> Nat]
    BY <1>7, <1>9, <2>1
  <2>3. Owed(later, t) >= Owed(renamed, t)
    BY <2>1, <2>2, OwesNotLess
  <2>4. CASE listed[w] <= t
    <3>1. renamed[w] <= t
      BY <1>7, <2>4
    <3>2. Owed(later, t) = Owed(renamed, t) + Longest
      BY <2>1, <2>2, <3>1, OwesMore
    <3> QED BY <2>3, <3>2, OwedIs
  <2>5. CASE ~(listed[w] <= t)
    <3>1. blind[w][out] \in Nat /\ listed[w] \in Nat
      BY <1>4, <1>7
    <3>2. blind[w][out] > t
      BY <1>7, <1>11, <2>5, <3>1
    <3>3. out \in Blindly(blind, t)
      BY <1>4, <3>2 DEF Blindly
    <3> QED BY <2>3, <3>3, OwedIs
  <2> QED BY <2>4, <2>5
<1>12. (Weigh[Exceeding(saved, Blindly(blind, base))] <= Budget + Owed(later, base))'
  <2>1. PICK s, e : s = Exceeding(saved, Blindly(blind, base)) /\ e = Exceeding(saved, Blindly(blind, base))'
    OBVIOUS
  <2>2. Weigh[s] <= Budget + Owed(renamed, base) /\ s \in SUBSET Published
    BY <1>1, <2>1, AllPublished DEF Debt
  <2>3. /\ Owed(later, base) \in Nat /\ Owed(renamed, base) \in Nat
        /\ Owed(later, base) >= Owed(renamed, base)
        /\ out \in Blindly(blind, base) \/ Owed(later, base) = Owed(renamed, base) + Longest
    BY <1>7, <1>11
  <2>4. CASE out \in Blindly(blind, base)
    <3>1. e \subseteq s
      BY <1>5, <2>1, <2>4 DEF Exceeding, Blindly
    <3>2. Weigh[e] <= Weigh[s] /\ Weigh[e] \in Nat /\ Weigh[s] \in Nat
      BY <2>2, <3>1, WeighLess
    <3>3. Weigh[e] <= Budget + Owed(later, base)
      BY <1>8, <2>2, <2>3, <3>2
    <3> QED BY <2>1, <3>3 DEF Owed
  <2>5. CASE Owed(later, base) = Owed(renamed, base) + Longest
    <3>1. e \subseteq s \cup {out}
      BY <1>5, <2>1 DEF Exceeding, Blindly
    <3>2. Weigh[e] <= Weigh[s] + Longest /\ Weigh[e] \in Nat /\ Weigh[s] \in Nat
      BY <1>4, <2>2, <3>1, WeighMore
    <3>3. Weigh[e] <= Budget + Owed(later, base)
      BY <1>8, <2>2, <2>3, <2>5, <3>2
    <3> QED BY <2>1, <3>3 DEF Owed
  <2> QED BY <2>3, <2>4, <2>5
<1>13. ASSUME NEW v \in Workers, pc'[v] = "evict", listed[v] > base
       PROVE  Evicting(v, listed[v], later, blind)'
  <2>1. v # w /\ pc[v] = "evict"
    BY <1>3, <1>13
  <2>2. PICK t \in Nat : t = listed[v]
    BY <1>7
  <2>3. Evicting(v, t, renamed, blind)
    BY <1>1, <1>13, <2>1, <2>2 DEF Debt
  <2>4. base <= t /\ t <= now
    BY <1>7, <1>13, <2>2
  <2>5. /\ Owed(later, t) \in Nat /\ Owed(renamed, t) \in Nat
        /\ Owed(later, t) >= Owed(renamed, t)
        /\ out \in Blindly(blind, t) \/ Owed(later, t) = Owed(renamed, t) + Longest
    BY <1>11, <2>4
  <2>6. CASE out \in Blindly(blind, t)
    <3>1. Believed(v, Blindly(blind, t))' \subseteq Believed(v, Blindly(blind, t))
      BY <1>3, <1>5, <2>6 DEF Believed, NamesOf, Blindly
    <3>2. Remaining(v, Blindly(blind, t))' \subseteq Remaining(v, Blindly(blind, t))
      BY <1>3, <1>5, <2>6 DEF Remaining, NamesOf, Blindly
    <3>3. files'[v] = files[v] /\ total'[v] = total[v]
      BY <1>3
    <3>4. Evicting(v, t, later, blind)'
      BY <1>7, <2>3, <2>5, <3>1, <3>2, <3>3, EvictingStays
    <3> QED BY <2>2, <3>4
  <2>7. CASE Owed(later, t) = Owed(renamed, t) + Longest
    <3>1. PICK b, r : b = Believed(v, Blindly(blind, t)) /\ r = Remaining(v, Blindly(blind, t))
      OBVIOUS
    <3>2. PICK c, s : c = Believed(v, Blindly(blind, t))' /\ s = Remaining(v, Blindly(blind, t))'
      OBVIOUS
    <3>3. c \subseteq b \cup {out}
      BY <1>3, <1>5, <3>1, <3>2 DEF Believed, NamesOf, Blindly
    <3>4. s \subseteq r \cup {out}
      BY <1>3, <1>5, <3>1, <3>2 DEF Remaining, NamesOf, Blindly
    <3>5. b \in SUBSET Published /\ r \in SUBSET Published
      BY <3>1, AllPublished
    <3>6. /\ Weigh[c] <= Weigh[b] + Longest /\ Weigh[c] \in Nat /\ Weigh[b] \in Nat
          /\ Weigh[s] <= Weigh[r] + Longest /\ Weigh[s] \in Nat /\ Weigh[r] \in Nat
      BY <1>4, <3>3, <3>4, <3>5, WeighMore
    <3>7. /\ Weigh[b] <= total[v] + Owed(renamed, t) /\ Weigh[r] <= Owed(renamed, t)
          /\ \A i \in 1 .. Len(files[v]) : files[v][i].size = Bytes[files[v][i].name.ref]
          /\ \A i, j \in 1 .. Len(files[v]) : files[v][i].name = files[v][j].name => i = j
      BY <2>3, <3>1 DEF Evicting
    <3>8. Weigh[c] <= total'[v] + Owed(later, t) /\ Weigh[s] <= Owed(later, t)
      <4>1. total'[v] = total[v] /\ total[v] \in Int
        BY <1>3, <1>7
      <4>2. Owed(renamed, t) \in Nat
        BY <2>5
      <4>3. Weigh[b] <= total[v] + Owed(renamed, t) /\ Weigh[r] <= Owed(renamed, t)
        BY <3>7
      <4> QED BY <1>8, <2>7, <3>6, <4>1, <4>2, <4>3
    <3> QED BY <1>3, <2>2, <3>2, <3>7, <3>8 DEF Evicting, Owed
  <2> QED BY <2>5, <2>6, <2>7
<1>14. Times(listed, later, blind, base, now + 1)
  BY <1>6, <1>7, <1>10 DEF Times
<1>15. Order(listed, later, blind, saved, base)'
  BY <1>3, <1>6, <1>10 DEF Order, Armed
<1>16. Histories'
  BY <1>3, <1>6 DEF Histories
<1>17. Debt(listed, later, blind, saved, base, now + 1)'
  BY <1>12, <1>13, <1>14, <1>15 DEF Debt, Times
<1> QED BY <1>16, <1>17 DEF DebtInv

LEMMA DebtStarts ==
  ASSUME Init
  PROVE  DebtInv
<1>1. /\ DOMAIN dir = {} /\ Histories /\ \A w \in Workers : pc[w] = "idle"
  BY DEF Init, Histories
<1>2. OutNames(dir) = {}
  BY <1>1 DEF OutNames
<1>3. PICK zero : zero = [x \in Workers |-> 0]
  OBVIOUS
<1>4. PICK never : never = [x \in Workers |-> [n \in Published |-> 0]]
  OBVIOUS
<1>5. Times(zero, zero, never, 0, 0)
  BY <1>3, <1>4 DEF Times
<1>6. Order(zero, zero, never, {}, 0)
  BY <1>1, <1>4 DEF Order, Armed
<1>7. Weigh[Exceeding({}, Blindly(never, 0))] <= Budget + Owed(zero, 0)
  <2>1. Exceeding({}, Blindly(never, 0)) = {}
    BY <1>2 DEF Exceeding
  <2>2. Owed(zero, 0) \in Nat /\ Budget \in Nat /\ Weigh[{}] = 0
    BY OwedIs, WeighIs, SpillAssumption
  <2> QED BY <2>1, <2>2
<1>8. Debt(zero, zero, never, {}, 0, 0)
  BY <1>1, <1>5, <1>6, <1>7 DEF Debt
<1> QED BY <1>1, <1>8 DEF DebtInv

LEMMA DebtStep ==
  ASSUME OwnProcesses, SInv, DebtInv, [Next]_vars
  PROVE  DebtInv'
<1>1. Types /\ Histories
  BY DEF SInv, DebtInv
<1>2. ASSUME NEW w \in Workers, Step(w) PROVE DebtInv'
  <2>1. CASE EvictBlind(w) \/ EvictList(w) \/ EvictOldest(w) \/ EvictFails(w) \/ EvictDone(w)
             \/ SpillRename(w)
    BY <2>1, DebtBlind, DebtListed, DebtEvicts, DebtFails, DebtDone, DebtRenames
  <2>2. CASE SpillOpen(w) \/ SpillFails(w)
    <3>1. pc[w] \in Armed /\ ref[w] \in Refs
      BY <1>1, <2>2 DEF SpillOpen, SpillFails, Types, Armed
    <3>2. Tmp(w, ref[w]).kind # "out"
      BY <3>1, TmpNames
    <3>3. OutNames(dir') = OutNames(dir)
      <4>1. CASE SpillOpen(w)
        BY <3>2, <4>1 DEF SpillOpen, OutNames, Link
      <4>2. CASE SpillFails(w)
        BY <3>2, <4>2 DEF SpillFails, OutNames, Unlink
      <4> QED BY <2>2, <4>1, <4>2
    <3>4. /\ UNCHANGED <<ref, total, files, unseen, stuck, spared>>
          /\ pc' = [pc EXCEPT ![w] = "write"] \/ pc' = [pc EXCEPT ![w] = "idle"]
      BY <2>2 DEF SpillOpen, SpillFails, Goto, bounds, evictions
    <3>5. /\ \A v \in Workers : pc'[v] \in Armed => pc[v] \in Armed
          /\ \A v \in Workers : pc'[v] = "evict" => pc[v] = "evict"
      BY <1>1, <3>1, <3>4 DEF Types, Armed
    <3>6. Histories'
      BY <1>1, <3>4 DEF Histories
    <3> QED BY <3>3, <3>4, <3>5, <3>6, DebtStays
  <2>3. CASE \/ SpillWriteString(w) \/ SpillSync(w) \/ Ship(w) \/ RecallRead(w)
             \/ \E r \in Refs : RecallExpired(w, r)
    <3>1. UNCHANGED <<dir, ref, total, files, unseen, stuck, spared>>
      BY <2>3 DEF RecallExpired, SpillWriteString, SpillSync, Ship, RecallRead, fs, bounds, evictions
    <3>2. \/ pc' \in {pc, [pc EXCEPT ![w] = "idle"]}
          \/ pc[w] \in Armed /\ pc' \in {[pc EXCEPT ![w] = "sync"], [pc EXCEPT ![w] = "rename"]}
      BY <2>3 DEF RecallExpired, SpillWriteString, SpillSync, Ship, RecallRead, Goto, Armed
    <3>3. /\ \A v \in Workers : pc'[v] \in Armed => pc[v] \in Armed
          /\ \A v \in Workers : pc'[v] = "evict" => pc[v] = "evict"
      BY <1>1, <3>2 DEF Types, Armed
    <3>4. Histories'
      BY <1>1, <3>1 DEF Histories
    <3> QED BY <3>1, <3>3, <3>4, DebtStays
  <2>4. CASE \E r \in Refs : TCApply(w, r) \/ RecallOpen(w, r)
    <3>1. UNCHANGED <<dir, total, files, unseen, stuck, spared>>
      BY <2>4 DEF TCApply, RecallOpen, fs, evictions
    <3>2. PICK r, label : /\ label \in {"list", "read"} /\ pc' = [pc EXCEPT ![w] = label]
                          /\ ref' = [ref EXCEPT ![w] = r]
      BY <2>4 DEF TCApply, RecallOpen, Goto
    <3>3. /\ \A v \in Workers : pc'[v] \in Armed => pc[v] \in Armed /\ ref'[v] = ref[v]
          /\ \A v \in Workers : pc'[v] = "evict" => pc[v] = "evict"
      BY <1>1, <3>2 DEF Types, Armed
    <3>4. Histories'
      BY <1>1, <3>1 DEF Histories
    <3> QED BY <3>1, <3>3, <3>4, DebtStays
  <2> QED BY <1>2, <2>1, <2>2, <2>3, <2>4 DEF Step
<1>3. CASE PowerLoss
  <2>1. /\ dir' = dir /\ spared' = spared /\ \A w \in Workers : pc'[w] = "idle"
        /\ total' = [w \in Workers |-> 0]
        /\ unseen' = [w \in Workers |-> {}] /\ stuck' = [w \in Workers |-> {}]
    BY <1>3 DEF PowerLoss
  <2>2. Histories'
    BY <1>1, <2>1 DEF Histories
  <2> QED BY <2>1, <2>2, DebtStays DEF Armed
<1>4. CASE UNCHANGED vars
  <2>1. UNCHANGED <<dir, ref, total, pc, files, unseen, stuck, spared>>
    BY <1>4 DEF vars, fs, worker, bounds, evictions
  <2>2. Histories'
    BY <1>1, <2>1 DEF Histories
  <2> QED BY <2>1, <2>2, DebtStays
<1> QED BY <1>2, <1>3, <1>4 DEF Next

(* However the workers' evictions and writes overlap, whichever of their   *)
(* calls fail and wherever the power is lost, the directory exceeds its    *)
(* budget by one file per worker at the most, not counting the files that  *)
(* the last evictions could not see or, with nothing else left, remove.    *)
THEOREM Overshoot ==
  ASSUME OwnProcesses
  PROVE  Spec => []BoundedOvershoot
<1>1. Init => SInv /\ DebtInv
  BY StoreInit, DebtStarts
<1>2. (SInv /\ DebtInv) /\ [Next]_vars => (SInv /\ DebtInv)'
  BY StoreStep, DebtStep
<1>3. SInv /\ DebtInv => BoundedOvershoot
  <2> SUFFICES ASSUME SInv, DebtInv PROVE BoundedOvershoot
    OBVIOUS
  <2>1. PICK listed, renamed, blind, saved, base, now : Debt(listed, renamed, blind, saved, base, now)
    BY DEF DebtInv
  <2>2. PICK e : e = Exceeding(saved, Blindly(blind, base))
    OBVIOUS
  <2>3. Weigh[e] <= Budget + Owed(renamed, base) /\ e \in SUBSET Published
    BY <2>1, <2>2, AllPublished DEF Debt
  <2>4. saved \cup Blindly(blind, base) \subseteq UNION {spared[w] : w \in Workers}
    <3>1. Order(listed, renamed, blind, saved, base)
      BY <2>1 DEF Debt
    <3>2. \A n \in Blindly(blind, base) : \E w \in Workers : n \in spared[w]
      BY <3>1 DEF Order, Blindly
    <3>3. \A n \in saved : \E w \in Workers : n \in spared[w]
      BY <3>1 DEF Order
    <3> QED BY <3>2, <3>3
  <2>5. Charged \subseteq e
    BY <2>2, <2>4 DEF Charged, Exceeding
  <2>6. BytesIn(Charged) = Weigh[Charged]
    BY BytesAre DEF Charged
  <2>7. Weigh[Charged] <= Weigh[e] /\ Weigh[Charged] \in Nat /\ Weigh[e] \in Nat
    BY <2>3, <2>5, WeighLess
  <2>8. /\ Owed(renamed, base) \in Nat /\ Owed(renamed, base) <= Cardinality(Workers) * Longest
        /\ Budget \in Nat
    BY OwedIs, SpillAssumption
  <2>9. PICK most \in Int : most = Cardinality(Workers) * Longest
    <3>1. Cardinality(Workers) \in Nat /\ Longest \in Nat
      BY SpillAssumption, FS_CardinalityType, LongestIs
    <3> QED BY <3>1
  <2>10. Weigh[Charged] <= Budget + most
    BY <2>3, <2>7, <2>8, <2>9
  <2> QED BY <2>6, <2>9, <2>10 DEF BoundedOvershoot, Longest
<1> QED BY <1>1, <1>2, <1>3, PTL DEF Spec
=============================================================================
