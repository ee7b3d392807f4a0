----------------------------- MODULE SpillStore -----------------------------
(***************************************************************************)
(* The spill directory of the output condenser (condense_apply.go): what   *)
(* TCApply writes before it ships a condensed body, and what TCRecall      *)
(* reads back.  Several workers, in one process or in several, share one   *)
(* directory; every system call is a step of its own.                      *)
(*                                                                         *)
(* A file is an inode with one of three contents; the raw output a ref     *)
(* names is the content "full".  Directory entries map names to inodes, so *)
(* two workers that open the same temp name share its inode.               *)
(***************************************************************************)
EXTENDS Integers, Sequences, FiniteSets, Functions, FiniteSetsExt

CONSTANTS Workers,     \* goroutines that condense or recall
          Pid,         \* Pid[w]: the process w runs in
          Refs,        \* spill refs: hashes of command line and raw output
          Bytes,       \* Bytes[r]: length of the raw output of r
          Budget,      \* TCSpillMaxBytes
          MaxOps,      \* bound: calls of TCApply and TCRecall, and power losses
          MaxCrashes,  \* bound: power losses
          MaxErrors    \* bound: files and directories an eviction fails on

ASSUME SpillAssumption ==
    /\ IsFiniteSet(Workers) /\ IsFiniteSet(Refs) /\ Refs # {}
    /\ Bytes \in [Refs -> Nat \ {0}]
    /\ Budget \in Nat /\ \A r \in Refs : Bytes[r] <= Budget
    /\ DOMAIN Pid = Workers /\ \A w \in Workers : Pid[w] # "out"

VARIABLES inodes,      \* every file ever created
          dir,         \* name -> index into inodes
          pc,          \* where each worker is
          ref,         \* the ref it works on
          fd,          \* the inode it has open
          files,       \* tcSpillEvict: files listed and not visited yet
          total,       \* tcSpillEvict: bytes it believes are there
          recalled,    \* what the worker's last TCRecall returned
          unseen,      \* history: names this eviction's listing misses
          stuck,       \* history: names it could not remove
          spared,      \* history: what the worker's evictions have left outside the budget
          ops, crashes, errors \* bounded counts

fs == <<inodes, dir>>
worker == <<pc, ref, fd, files, total, recalled>>
evictions == <<unseen, stuck, spared, errors>>
bounds == <<ops, crashes, evictions>>
vars == <<fs, worker, bounds>>

Out(r) == [ref |-> r, kind |-> "out"]
TmpInPlace(w, r) == Out(r)
Tmp(w, r) == [ref |-> r, kind |-> Pid[w]]

(* Type correctness of the store and of the workers.                       *)
TypeOK ==
    /\ \A n \in DOMAIN dir : dir[n] \in 1 .. Len(inodes)
    /\ \A i \in 1 .. Len(inodes) :
         inodes[i] \in [data : {"empty", "part", "full"}, synced : BOOLEAN, mtime : Nat]
    /\ pc \in [Workers -> {"idle", "list", "evict", "open", "write", "sync",
                           "rename", "renamed", "read"}]
    /\ \A w \in Workers : fd[w] \in 0 .. Len(inodes)
    /\ \A w \in Workers : pc[w] \in {"write", "sync", "read"} => fd[w] # 0
    /\ total \in [Workers -> Int]
    /\ \A w \in Workers : \A n \in unseen[w] \cup stuck[w] \cup spared[w] : n.kind = "out"

Init ==
    /\ inodes = <<>>
    /\ dir = <<>>
    /\ pc = [w \in Workers |-> "idle"]
    /\ ref = [w \in Workers |-> "none"]
    /\ fd = [w \in Workers |-> 0]
    /\ files = [w \in Workers |-> <<>>]
    /\ total = [w \in Workers |-> 0]
    /\ recalled = [w \in Workers |-> "none"]
    /\ unseen = [w \in Workers |-> {}]
    /\ stuck = [w \in Workers |-> {}]
    /\ spared = [w \in Workers |-> {}]
    /\ ops = 0 /\ crashes = 0 /\ errors = 0

Unlink(name) == [n \in DOMAIN dir \ {name} |-> dir[n]]
Link(entries, name, i) == [n \in DOMAIN entries \cup {name} |->
                             IF n = name THEN i ELSE entries[n]]

Goto(w, label) == pc' = [pc EXCEPT ![w] = label]

-----------------------------------------------------------------------------
(* TCApply, from the point where it has decided to condense: before that   *)
(* it changes nothing but the telemetry counters, which are left out.      *)

Begin(w) == pc[w] = "idle" /\ ops < MaxOps /\ ops' = ops + 1

TCApply(w, r) ==
    /\ Begin(w)
    /\ ref' = [ref EXCEPT ![w] = r]
    /\ Goto(w, "list")
    /\ UNCHANGED <<fs, fd, files, total, recalled, crashes, evictions>>

-----------------------------------------------------------------------------
(* tcSpillEvict: list once, then remove the oldest until within budget.    *)
(* Best effort: an error leaves the directory or the file as it is.        *)

OutNames(entries) == {n \in DOMAIN entries : n.kind = "out"}
SizeOf(n) == IF inodes[dir[n]].data = "full" THEN Bytes[n.ref] ELSE 0
Older(m, n) == inodes[dir[m]].mtime < inodes[dir[n]].mtime

(* sort.Slice by modification time, which is not stable: files of one time *)
(* may come in any order.                                                  *)
Orders(names) == {o \in Bijection(1 .. Cardinality(names), names) :
                    \A i, j \in DOMAIN o : i < j => ~Older(o[j], o[i])}
Listing(order) == [i \in DOMAIN order |-> [name |-> order[i], size |-> SizeOf(order[i])]]
BytesIn(names) == MapThenSumSet(SizeOf, names)

(* os.ReadDir fails: the worker goes on to its write all the same.         *)
EvictBlind(w) ==
    /\ pc[w] = "list"
    /\ errors < MaxErrors
    /\ errors' = errors + 1
    /\ spared' = [spared EXCEPT ![w] = @ \cup {Out(ref[w])}]
    /\ Goto(w, "open")
    /\ UNCHANGED <<fs, ref, fd, files, total, recalled, unseen, stuck, ops, crashes>>

(* An entry whose Lstat fails is neither counted nor removed.              *)
EvictList(w) ==
    /\ pc[w] = "list"
    /\ \E missed \in SUBSET OutNames(dir) :
         LET seen == OutNames(dir) \ missed IN
         /\ errors + Cardinality(missed) <= MaxErrors
         /\ errors' = errors + Cardinality(missed)
         /\ \E order \in Orders(seen) : files' = [files EXCEPT ![w] = Listing(order)]
         /\ total' = [total EXCEPT ![w] = BytesIn(seen)]
         /\ unseen' = [unseen EXCEPT ![w] = missed]
    /\ Goto(w, "evict")
    /\ UNCHANGED <<fs, ref, fd, recalled, stuck, spared, ops, crashes>>

WithinBudgetAlways(w) == TRUE
WithinBudget(w) == total[w] <= Budget

Visits(w) ==
    /\ pc[w] = "evict"
    /\ ~WithinBudget(w)
    /\ files[w] # <<>>
    /\ files' = [files EXCEPT ![w] = Tail(@)]

(* os.Remove fails when another worker has removed the file already.       *)
EvictOldest(w) ==
    /\ Visits(w)
    /\ LET f == Head(files[w]) IN
       /\ dir' = Unlink(f.name)
       /\ total' = [total EXCEPT ![w] = IF f.name \in DOMAIN dir THEN @ - f.size ELSE @]
    /\ UNCHANGED <<inodes, pc, ref, fd, recalled, bounds>>

(* Any other error of os.Remove: the file stays, and stays in the total,   *)
(* so that others go in its place.                                         *)
EvictFails(w) ==
    /\ Visits(w)
    /\ errors < MaxErrors
    /\ errors' = errors + 1
    /\ stuck' = [stuck EXCEPT ![w] = @ \cup {Head(files[w]).name}]
    /\ UNCHANGED <<fs, pc, ref, fd, total, recalled, unseen, spared, ops, crashes>>

EvictDone(w) ==
    /\ pc[w] = "evict"
    /\ WithinBudget(w) \/ files[w] = <<>>
    /\ files' = [files EXCEPT ![w] = <<>>]
    /\ total' = [total EXCEPT ![w] = 0]
    /\ spared' = [spared EXCEPT ![w] = IF WithinBudget(w) THEN unseen[w]
                                       ELSE unseen[w] \cup stuck[w]]
    /\ unseen' = [unseen EXCEPT ![w] = {}]
    /\ stuck' = [stuck EXCEPT ![w] = {}]
    /\ Goto(w, "open")
    /\ UNCHANGED <<fs, ref, fd, recalled, ops, crashes, errors>>

-----------------------------------------------------------------------------
(* tcSpillWrite.                                                           *)

File(data, synced) == [data |-> data, synced |-> synced,
                       mtime |-> Max({0} \cup {inodes[i].mtime : i \in 1 .. Len(inodes)}) + 1]

(* O_CREAT | O_TRUNC on the temp name: a temp file that is there, left by  *)
(* a crash or open in another goroutine of the process, is opened again.   *)
Opened(tmp) == IF tmp \in DOMAIN dir THEN dir[tmp] ELSE Len(inodes) + 1

SpillOpen(w) ==
    /\ pc[w] = "open"
    /\ LET tmp == Tmp(w, ref[w])
           i == Opened(tmp)
       IN  /\ inodes' = IF tmp \in DOMAIN dir
                        THEN [inodes EXCEPT ![i] = File("empty", FALSE)]
                        ELSE Append(inodes, File("empty", FALSE))
           /\ dir' = Link(dir, tmp, i)
           /\ fd' = [fd EXCEPT ![w] = i]
    /\ Goto(w, "write")
    /\ UNCHANGED <<ref, files, total, recalled, bounds>>

SpillWriteString(w) ==
    /\ pc[w] = "write"
    /\ inodes' = [inodes EXCEPT ![fd[w]] = File("full", FALSE)]
    /\ Goto(w, "sync")
    /\ UNCHANGED <<dir, ref, fd, files, total, recalled, bounds>>

SpillSyncSkipped(w) ==
    /\ pc[w] = "sync"
    /\ fd' = [fd EXCEPT ![w] = 0]
    /\ Goto(w, "rename")
    /\ UNCHANGED <<inodes, dir, ref, files, total, recalled, bounds>>

SpillSync(w) ==
    /\ pc[w] = "sync"
    /\ inodes' = [inodes EXCEPT ![fd[w]].synced = TRUE]
    /\ fd' = [fd EXCEPT ![w] = 0]
    /\ Goto(w, "rename")
    /\ UNCHANGED <<dir, ref, files, total, recalled, bounds>>

SpillRename(w) ==
    /\ pc[w] = "rename"
    /\ Tmp(w, ref[w]) \in DOMAIN dir
    /\ dir' = Link(Unlink(Tmp(w, ref[w])), Out(ref[w]), dir[Tmp(w, ref[w])])
    /\ Goto(w, "renamed")
    /\ UNCHANGED <<inodes, ref, fd, files, total, recalled, bounds>>

(* An error at any call: the temp name is removed and the raw output is    *)
(* passed through.  A failed write may leave part of the data; a rename    *)
(* fails when the temp name is gone.                                       *)
SpillFails(w) ==
    /\ pc[w] \in {"open", "write", "sync", "rename"}
    /\ inodes' = IF pc[w] = "write" THEN [inodes EXCEPT ![fd[w]] = File("part", FALSE)]
                 ELSE inodes
    /\ dir' = IF pc[w] = "open" THEN dir ELSE Unlink(Tmp(w, ref[w]))
    /\ fd' = [fd EXCEPT ![w] = 0]
    /\ Goto(w, "idle")
    /\ UNCHANGED <<ref, files, total, recalled, bounds>>

(* TCApply returns the condensed body with its recovery pointer.           *)
Ship(w) ==
    /\ pc[w] = "renamed"
    /\ Goto(w, "idle")
    /\ UNCHANGED <<fs, ref, fd, files, total, recalled, bounds>>

-----------------------------------------------------------------------------
(* TCRecall.                                                               *)

RecallOpen(w, r) ==
    /\ Begin(w)
    /\ Out(r) \in DOMAIN dir
    /\ ref' = [ref EXCEPT ![w] = r]
    /\ fd' = [fd EXCEPT ![w] = dir[Out(r)]]
    /\ Goto(w, "read")
    /\ UNCHANGED <<fs, files, total, recalled, crashes, evictions>>

RecallExpired(w, r) ==
    /\ Begin(w)
    /\ Out(r) \notin DOMAIN dir
    /\ recalled' = [recalled EXCEPT ![w] = "expired"]
    /\ UNCHANGED <<fs, pc, ref, fd, files, total, crashes, evictions>>

RecallRead(w) ==
    /\ pc[w] = "read"
    /\ recalled' = [recalled EXCEPT ![w] = inodes[fd[w]].data]
    /\ fd' = [fd EXCEPT ![w] = 0]
    /\ Goto(w, "idle")
    /\ UNCHANGED <<fs, ref, files, total, bounds>>

(* The machine loses power: every worker stops where it is, data that was  *)
(* never synced may be lost.                                               *)
PowerLoss ==
    /\ crashes < MaxCrashes /\ ops < MaxOps
    /\ crashes' = crashes + 1
    /\ ops' = ops + 1
    /\ \E lost \in SUBSET {i \in 1 .. Len(inodes) : ~inodes[i].synced} :
         inodes' = [i \in 1 .. Len(inodes) |->
                      IF i \in lost THEN [inodes[i] EXCEPT !.data = "empty"] ELSE inodes[i]]
    /\ pc' = [w \in Workers |-> "idle"]
    /\ fd' = [w \in Workers |-> 0]
    /\ files' = [w \in Workers |-> <<>>]
    /\ total' = [w \in Workers |-> 0]
    /\ recalled' = [w \in Workers |-> "none"]
    /\ unseen' = [w \in Workers |-> {}]
    /\ stuck' = [w \in Workers |-> {}]
    /\ UNCHANGED <<dir, ref, spared, errors>>

Step(w) ==
    \/ \E r \in Refs : TCApply(w, r)
    \/ EvictBlind(w)
    \/ EvictList(w)
    \/ EvictOldest(w)
    \/ EvictFails(w)
    \/ EvictDone(w)
    \/ SpillOpen(w)
    \/ SpillWriteString(w)
    \/ SpillSync(w)
    \/ SpillRename(w)
    \/ SpillFails(w)
    \/ Ship(w)
    \/ \E r \in Refs : RecallOpen(w, r) \/ RecallExpired(w, r)
    \/ RecallRead(w)

Next == (\E w \in Workers : Step(w)) \/ PowerLoss

Spec == Init /\ [][Next]_vars

-----------------------------------------------------------------------------
(* A partial or crashed write is never promoted to a readable ref: a file  *)
(* TCRecall can open holds the whole raw output, and it is on disk.        *)
PromotedIsWhole ==
    \A n \in OutNames(dir) : inodes[dir[n]].data = "full" /\ inodes[dir[n]].synced

(* TCRecall returns the exact raw output or reports the ref expired, even  *)
(* when the file is evicted or written again between its open and read.    *)
RecallIsExact == \A w \in Workers : recalled[w] \in {"none", "expired", "full"}

(* The store outgrows its budget by at most the writes that are under way: *)
(* eviction runs before the write, not after it.  A directory that cannot  *)
(* be listed adds the one file written then, an entry that cannot be read  *)
(* itself, and a file that cannot be removed only when nothing else is     *)
(* left to remove in its place; each only until the next eviction of its   *)
(* worker is over.                                                         *)
Charged == OutNames(dir) \ UNION {spared[w] : w \in Workers}
BoundedOvershoot ==
    BytesIn(Charged) <= Budget + Cardinality(Workers) * Max({Bytes[r] : r \in Refs})
=============================================================================
