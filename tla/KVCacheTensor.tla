---------------------------- MODULE KVCacheTensor ----------------------------
(***************************************************************************)
(* The two in-place rearrangements of a KV cache that beam search needs    *)
(* (src/common/kvcache_tensor.h): expandOneSequence copies the row of each *)
(* sample to the rows of its beams, reorder gives row i the contents of    *)
(* row idx[i].  Both work in place, row after row, so a row that is still  *)
(* needed may be overwritten; reorder saves such rows in a side buffer of  *)
(* batchSize - 1 rows and keeps a map of where every row has gone.         *)
(*                                                                         *)
(* A line is one token position: batchSize rows.  KVCacheManager runs the  *)
(* lines, layers, keys and values independently of each other.             *)
(***************************************************************************)
EXTENDS Integers

CONSTANTS
  BatchSize,  \* rows of a line: samples * beams
  BeamSize,
  InitSeqLen, \* first line to rearrange
  AccSeqLen,  \* one past the last line
  Row,        \* contents a row can have
  Head8,      \* Head8[x]: the first eight bytes of x, all that skippableCopy compares
  Garbage,    \* contents of memory just allocated
  Orig,       \* Orig[l][b]: the cache before the operation
  HeadNum,    \* heads of a row; an int8 row has one scale per head
  MaxSeqLen,  \* lines the cache has room for
  OrigScales  \* the scales before the operation, in the order of the memory

Beam == 0 .. BatchSize-1
Line == InitSeqLen .. AccSeqLen-1
Slot == 0 .. BatchSize-2

(* getSequence: place of the scale of (line l, row b, head h). *)
ScaleOffset(l, b, h) == (b * HeadNum + h) * MaxSeqLen + l

ASSUME SizeAssumption ==
  /\ BatchSize \in Nat \ {0}
  /\ BeamSize \in Nat \ {0}
  /\ InitSeqLen \in Nat
  /\ AccSeqLen \in Nat /\ AccSeqLen >= InitSeqLen
  /\ HeadNum \in Nat \ {0}
  /\ MaxSeqLen \in Nat /\ MaxSeqLen >= AccSeqLen
ASSUME DataAssumption ==
  /\ Orig \in [Line -> [Beam -> Row]]
  /\ DOMAIN Head8 = Row
  /\ Garbage \subseteq Row

VARIABLES
  op,          \* which operation runs
  idx,         \* argument of reorder
  line,        \* line being rearranged
  i,           \* row being filled
  data,        \* the cache
  scales,      \* the scales of an int8 cache, in the order of the memory
  remapped,    \* remapped[j]: where row idx[j] of the line is now
  extraKeyBuf, \* rows saved
  extraBufIdx  \* number of rows saved

vars == <<op, idx, line, i, data, scales, remapped, extraKeyBuf, extraBufIdx>>

-----------------------------------------------------------------------------
FirstRow(o) == IF o = "expand" THEN BatchSize-1 ELSE 0

Init ==
  /\ op \in {"expand", "reorder"}
  /\ idx \in [Beam -> Beam]
  /\ line = InitSeqLen
  /\ i = FirstRow(op)
  /\ data = Orig
  /\ scales = OrigScales
  /\ remapped = idx
  /\ extraKeyBuf \in [Slot -> Garbage]
  /\ extraBufIdx = 0

(* memcpy of n scales. *)
CopyScales(dst, src, n) ==
  [k \in DOMAIN scales |-> IF k \in dst .. dst+n-1 THEN scales[src + (k - dst)] ELSE scales[k]]

(* Variant of ExpandRow, for mutation: beam and sample are mixed up. *)
ExpandRowModulo ==
  /\ op = "expand"
  /\ line < AccSeqLen
  /\ i > 0
  /\ data' = [data EXCEPT ![line][i] = data[line][i % BeamSize]]
  /\ i' = i - 1
  /\ UNCHANGED <<op, idx, line, scales, remapped, extraKeyBuf, extraBufIdx>>

(* expandOneSequence: rows from the last to row 1, and with each row       *)
(* HeadNum scales from the first one on.                                   *)
ExpandRow ==
  /\ op = "expand"
  /\ line < AccSeqLen
  /\ i > 0
  /\ data' = [data EXCEPT ![line][i] = data[line][i \div BeamSize]]
  /\ scales' = CopyScales(ScaleOffset(line, i, 0), ScaleOffset(line, i \div BeamSize, 0), HeadNum)
  /\ i' = i - 1
  /\ UNCHANGED <<op, idx, line, remapped, extraKeyBuf, extraBufIdx>>

(* The next line of KVCacheManager::expandCache or of reorder. *)
NextLine ==
  /\ line < AccSeqLen
  /\ i = IF op = "expand" THEN 0 ELSE BatchSize
  /\ line' = line + 1
  /\ i' = FirstRow(op)
  /\ remapped' = idx
  /\ extraBufIdx' = 0
  /\ UNCHANGED <<op, idx, data, scales, extraKeyBuf>>

-----------------------------------------------------------------------------
(* skippableCopy: what dst holds afterwards. *)
SkippableCopy(dst, src) == IF Head8[dst] # Head8[src] THEN src ELSE dst

(* Row i is the source of a later row. *)
Needed == \E j \in Beam : j > i /\ remapped[j] = i

(* Variant of Save, for mutation: the row is not saved. *)
SaveNothing == UNCHANGED <<extraKeyBuf, extraBufIdx>>

(* Row i goes to the side buffer if it is needed later. *)
Save ==
  \/ /\ Needed
     /\ extraKeyBuf' = [extraKeyBuf EXCEPT ![extraBufIdx] = data[line][i]]
     /\ extraBufIdx' = extraBufIdx + 1
  \/ /\ ~Needed
     /\ UNCHANGED <<extraKeyBuf, extraBufIdx>>

(* Variant of AfterSave, for mutation: the slot after the saved row. *)
AfterSaveOffByOne(v) == IF v = i THEN extraBufIdx + 1 - BatchSize ELSE v

(* Where row v is once row i has been saved; negative: in the side buffer. *)
AfterSave(v) == IF v = i THEN extraBufIdx - BatchSize ELSE v

(* Where row v is once rows i and remapped[i] have changed places. *)
AfterSwap(v) == IF v = i THEN remapped[i] ELSE IF v = remapped[i] THEN i ELSE v

(* Where row v is once row i has been saved and then filled from           *)
(* remapped[i]: whoever needs that row takes it from row i.                *)
AfterCopy(v) == IF v = remapped[i] THEN i ELSE AfterSave(v)

(* Contents of place v. *)
At(v) == IF v < 0 THEN extraKeyBuf[v + BatchSize] ELSE data[line][v]

ReorderStep ==
  /\ op = "reorder"
  /\ line < AccSeqLen
  /\ i < BatchSize
  /\ i' = i + 1
  /\ UNCHANGED <<op, idx, line, scales>>

(* The source lies before row i, or in the side buffer. *)
CopyBack ==
  /\ ReorderStep
  /\ remapped[i] < i
  /\ Save
  /\ data' = [data EXCEPT ![line][i] = SkippableCopy(@, At(remapped[i]))]
  /\ remapped' = [j \in Beam |-> IF j > i THEN AfterSave(remapped[j]) ELSE remapped[j]]

(* Rows i and remapped[i] change places. *)
SwapRows ==
  /\ ReorderStep
  /\ remapped[i] > i
  /\ remapped[remapped[i]] = i
  /\ data' = [data EXCEPT ![line][i] = data[line][remapped[i]],
                          ![line][remapped[i]] = data[line][i]]
  /\ remapped' = [j \in Beam |-> IF j > i THEN AfterSwap(remapped[j]) ELSE remapped[j]]
  /\ UNCHANGED <<extraKeyBuf, extraBufIdx>>

(* The source lies after row i, and may be overwritten before a later row  *)
(* needs it too.                                                           *)
CopyForward ==
  /\ ReorderStep
  /\ remapped[i] > i
  /\ remapped[remapped[i]] # i
  /\ Save
  /\ data' = [data EXCEPT ![line][i] = SkippableCopy(@, data[line][remapped[i]])]
  /\ remapped' = [j \in Beam |-> IF j > i THEN AfterCopy(remapped[j]) ELSE remapped[j]]

Stay ==
  /\ ReorderStep
  /\ remapped[i] = i
  /\ UNCHANGED <<data, remapped, extraKeyBuf, extraBufIdx>>

Next == ExpandRow \/ NextLine \/ CopyBack \/ SwapRows \/ CopyForward \/ Stay

Spec == Init /\ [][Next]_vars

-----------------------------------------------------------------------------
(* Types; the map names rows of the line or rows that have been saved, and *)
(* a row is saved only while the side buffer has room for it.              *)
TypeOK ==
  /\ op \in {"expand", "reorder"}
  /\ idx \in [Beam -> Beam]
  /\ line \in InitSeqLen .. AccSeqLen
  /\ i \in 0 .. BatchSize
  /\ op = "expand" => i < BatchSize /\ extraBufIdx = 0
  /\ data \in [Line -> [Beam -> Row]]
  /\ remapped \in [Beam -> -BatchSize .. BatchSize-1]
  /\ \A j \in Beam : remapped[j] < 0 => remapped[j] + BatchSize < extraBufIdx
  /\ extraKeyBuf \in [Slot -> Row]
  /\ extraBufIdx \in 0 .. BatchSize-1
  /\ extraBufIdx <= i

(* What reorder is for: on every line it has finished, each row holds what *)
(* row idx[b] held before, for any idx (repeated and dropped rows, cycles, *)
(* rows of another sample).                                                *)
ReorderCorrect ==
  op = "reorder" =>
    \A l \in Line : \A b \in Beam : l < line => data[l][b] = Orig[l][idx[b]]

(* What expandOneSequence is for: the row of a sample in each of its beams. *)
ExpandCorrect ==
  op = "expand" =>
    \A l \in Line : \A b \in Beam : l < line => data[l][b] = Orig[l][b \div BeamSize]

-----------------------------------------------------------------------------
(* The inductive invariant, line by line.                                  *)
LinesAhead == \A l \in Line : l > line => data[l] = Orig[l]

(* reorder: rows before i are final, the map leads to the sources of the   *)
(* others.                                                                 *)
RowsFilled ==
  op = "reorder" /\ line < AccSeqLen =>
    \A b \in Beam : b < i => data[line][b] = Orig[line][idx[b]]
MapLeads ==
  op = "reorder" /\ line < AccSeqLen =>
    \A b \in Beam : b >= i => At(remapped[b]) = Orig[line][idx[b]]

(* expand: rows after i are final, the others are as they were. *)
RowsExpanded ==
  op = "expand" /\ line < AccSeqLen =>
    \A b \in Beam :
      data[line][b] = IF b > i THEN Orig[line][b \div BeamSize] ELSE Orig[line][b]

IInv ==
  /\ TypeOK
  /\ LinesAhead /\ RowsFilled /\ MapLeads /\ RowsExpanded
  /\ ReorderCorrect /\ ExpandCorrect

(* Rows that differ differ in their first eight bytes. *)
HeadsDistinguish == \A x, y \in Row : Head8[x] = Head8[y] => x = y
=============================================================================
