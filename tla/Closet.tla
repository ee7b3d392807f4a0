------------------------------- MODULE Closet -------------------------------
(***************************************************************************)
(* The Coordinate Closet as it is rendered (closet.go) and the seam that   *)
(* shrinks a tool result and attaches its closet (compact.go, eager.go).   *)
(*                                                                         *)
(* Texts are reduced to their lengths, the closet to its parts: header,    *)
(* entries in order, note.  An entry is a record of lane (0 agent, 1       *)
(* user), label, offset, turn, value and len, the length of its plain      *)
(* line; value, label and turn are numbers, which compare as the strings   *)
(* and ids do.  Settings that are zero stand for their defaults already.   *)
(***************************************************************************)
EXTENDS Integers, Sequences, SequencesExt

CONSTANTS HeaderLen,         \* len(closetHeader)
          PartialHeaderLen,  \* len(closetHeaderPartial)
          DividerLen,        \* len(closetDivider)
          NoteLen,           \* len(closetTruncNote)
          SuffixLen,         \* len(" (untrusted)")
          RedactedLen,       \* the line of a redacted value
          DefaultBudget,     \* ClosetDefaultBudgetBytes
          BodyReserve,       \* bytes of the cap the closet leaves to the body (256)
          DefaultCap,        \* AgentToolOutputMax, also the ceiling
          CompactFloor,      \* 64
          NoticeLen,         \* the omission notice of compactPlaintext
          SummaryCap         \* summaryCap

(* The reserve leaves the body more than the newline before the closet.    *)
ASSUME ClosetAssumption ==
    /\ \A len \in {HeaderLen, PartialHeaderLen, DividerLen, NoteLen, SuffixLen, RedactedLen,
                   DefaultBudget, BodyReserve, DefaultCap, NoticeLen, SummaryCap} : len \in Nat
    /\ HeaderLen <= PartialHeaderLen
    /\ BodyReserve > 1

-----------------------------------------------------------------------------
(* entryLess, a lexicographic comparison; the other ids of a provenance    *)
(* behave as the turn.                                                     *)
SortKeyOfPlace(e) == <<e.lane, e.label, e.offset, e.turn>>
SortKey(e) == <<e.lane, e.label, e.offset, e.turn, e.value>>

EntryLess(x, y) ==
    \E k \in 1 .. Len(SortKey(x)) :
        /\ SortKey(x)[k] < SortKey(y)[k]
        /\ \A j \in 1 .. k - 1 : SortKey(x)[j] = SortKey(y)[j]

(* sort.SliceStable: entries that compare equal keep their order.          *)
StableSorted(entries) ==
    LET before(i, j) == \/ EntryLess(entries[i], entries[j])
                        \/ ~EntryLess(entries[j], entries[i]) /\ i < j
        place(i) == 1 + Cardinality({j \in DOMAIN entries : before(j, i)})
    IN  [k \in DOMAIN entries |-> entries[CHOOSE i \in DOMAIN entries : place(i) = k]]

(* A secret value, or any value under a label that names a credential.     *)
Redacted(e) == e.secret \/ e.sensitive

ClosetLine(e) == (IF Redacted(e) THEN RedactedLen ELSE e.len)
                 + (IF e.lane = 1 THEN SuffixLen ELSE 0)

(* The bytes of the first n entries with their divider.                    *)
LinesLen(sorted, n) ==
    LET sum[k \in 0 .. n] == IF k = 0 THEN 0 ELSE sum[k - 1] + ClosetLine(sorted[k])
    IN  sum[n] + (IF \E k \in 1 .. n : sorted[k].lane = 1 THEN DividerLen ELSE 0)

(* min(budget, rawLen * ratio / 100), zero meaning the default of each.    *)
ClosetCap(budget, ratio, rawLen) ==
    LET bytes == IF budget <= 0 THEN DefaultBudget ELSE budget
        share == IF ratio \in 1 .. 99 THEN (rawLen * ratio) \div 100 ELSE rawLen
    IN  Min({bytes, share})

(* How many entries fit; the note that announces a loss always has room.   *)
FitCount(sorted, cap) ==
    Max({0} \cup {n \in 1 .. Len(sorted) :
                    PartialHeaderLen + LinesLen(sorted, n) + NoteLen + 1 <= cap})

NoCloset(evict) == [len |-> 0, entries |-> <<>>, note |-> FALSE, evict |-> evict]

RenderCloset(entries, cap) ==
    LET sorted == StableSorted(entries)
        fit == FitCount(sorted, cap)
        failed == fit < Len(sorted)
    IN  IF entries = <<>> THEN NoCloset("none")
        ELSE IF fit = 0 THEN NoCloset("fail")
        ELSE [len |-> LinesLen(sorted, fit)
                      + (IF failed THEN PartialHeaderLen + NoteLen ELSE HeaderLen),
              entries |-> SubSeq(sorted, 1, fit),
              note |-> failed,
              evict |-> IF failed THEN "fail" ELSE "none"]

-----------------------------------------------------------------------------
(* CompactBody: the length of what is left of a body.  A body that starts  *)
(* as JSON and parses becomes a summary of some length.  A tool may have a *)
(* threshold of its own, -1 for none at all.                               *)
NoOverride == -2
Threshold(cfg) ==
    Max({CompactFloor, IF cfg.perTool = NoOverride THEN cfg.threshold ELSE cfg.perTool})

PlaintextLen(rawLen, cfg) ==
    IF cfg.head + cfg.tail >= rawLen THEN rawLen ELSE cfg.head + NoticeLen + cfg.tail

CompactLen(rawLen, summaryLen, cfg) ==
    IF cfg.perTool = -1 \/ ~cfg.enabled \/ rawLen <= Threshold(cfg) THEN rawLen
    ELSE IF summaryLen > 0 THEN Min({summaryLen, SummaryCap - 1})
    ELSE PlaintextLen(rawLen, cfg)

(* ToolOutputCapClamp.                                                     *)
OutputCap(configured) ==
    IF configured <= 0 THEN DefaultCap ELSE Min({configured, DefaultCap})

(* CompressToolResult: the closet is rendered first, the body takes what   *)
(* the cap leaves, one byte going to the newline between them.             *)
ClosetBudget(configured, cap) == Min({configured, Max({cap - BodyReserve, 0})})

BodyCapWithoutNewline(cap, closetLen) ==
    IF closetLen > 0 /\ closetLen + 1 < cap THEN cap - closetLen ELSE cap
BodyCap(cap, closetLen) ==
    IF closetLen > 0 /\ closetLen + 1 < cap THEN cap - closetLen - 1 ELSE cap

CompressToolResult(in) ==
    LET cap == OutputCap(in.cap)
        body == CompactLen(in.rawLen, in.summaryLen, in.compact)
        closet == IF in.closet /\ body < in.rawLen
                  THEN RenderCloset(in.entries,
                                    ClosetCap(ClosetBudget(in.budget, cap), in.ratio, in.rawLen))
                  ELSE NoCloset("none")
        bound == Min({body, BodyCap(cap, closet.len)})
    IN  [len |-> bound + (IF closet.len > 0 THEN closet.len + 1 ELSE 0),
         cap |-> cap,
         compacted |-> body < in.rawLen,
         closet |-> closet]
=============================================================================
