------------------------ MODULE KVCacheTensor_proofs ------------------------
(***************************************************************************)
(* Both rearrangements of KVCacheTensor are correct for every batch and    *)
(* beam size, every range of lines, every contents of the cache and every  *)
(* index list, provided that rows which differ do so in their first eight  *)
(* bytes (HeadsDistinguish).  The type invariant needs no such proviso.    *)
(***************************************************************************)
EXTENDS KVCacheTensor, TLAPS

LEMMA DivBound ==
  ASSUME NEW m \in Nat, NEW n \in Nat \ {0}
  PROVE  m \div n \in 0 .. m
<1> DEFINE q == m \div n
<1>1. q \in Int /\ n * q <= m /\ m < n * (q + 1)
  OBVIOUS
<1> HIDE DEF q
<1>2. q >= 0
  <2>1. ASSUME q < 0 PROVE FALSE
    <3>1. n * (q + 1) <= 0
      BY <1>1, <2>1
    <3> QED
      BY <1>1, <3>1
  <2> QED
    BY <1>1, <2>1
<1>3. q <= n * q
  BY <1>1, <1>2
<1>4. q \in 0 .. m
  BY <1>1, <1>2, <1>3
<1> QED
  BY <1>4 DEF q

(* Beam and Slot, spelt out for the provers. *)
LEMMA Ranges ==
  /\ \A x : x \in Beam <=> x \in Int /\ 0 <= x /\ x < BatchSize
  /\ \A x : x \in Slot <=> x \in Int /\ 0 <= x /\ x < BatchSize - 1
  /\ \A x : x \in Line <=> x \in Int /\ InitSeqLen <= x /\ x < AccSeqLen
  /\ BatchSize \in Nat /\ BatchSize > 0
BY SizeAssumption DEF Beam, Slot, Line

(* A place that the map names can be read. *)
LEMMA AtType ==
  ASSUME TypeOK, NEW b \in Beam, line \in Line
  PROVE  At(remapped[b]) \in Row
BY Ranges DEF TypeOK, At

LEMMA SkippableType ==
  ASSUME NEW x \in Row, NEW y \in Row
  PROVE  SkippableCopy(x, y) \in Row
BY DEF SkippableCopy

LEMMA SkippableIsCopy ==
  ASSUME HeadsDistinguish, NEW x \in Row, NEW y \in Row
  PROVE  SkippableCopy(x, y) = y
BY DEF SkippableCopy, HeadsDistinguish

-----------------------------------------------------------------------------
(* Saving keeps the side buffer within its batchSize - 1 rows.             *)
LEMMA SaveType ==
  ASSUME TypeOK, ReorderStep, Save
  PROVE  /\ extraKeyBuf' \in [Slot -> Row]
         /\ extraBufIdx' \in 0 .. BatchSize-1
         /\ extraBufIdx' <= i'
         /\ extraBufIdx' >= extraBufIdx
         /\ Needed => extraBufIdx' = extraBufIdx + 1
<1>1. line \in Line /\ i \in Beam /\ data[line][i] \in Row
  BY Ranges DEF TypeOK, ReorderStep
<1>2. CASE Needed
  <2>1. extraBufIdx \in Slot
    BY <1>1, <1>2, Ranges DEF Needed, TypeOK
  <2> QED
    BY <1>1, <1>2, <2>1, Ranges DEF TypeOK, Save, ReorderStep
<1>3. CASE ~Needed
  BY <1>3, Ranges DEF TypeOK, Save, ReorderStep
<1> QED
  BY <1>2, <1>3

(* So a later row still finds what it needs.                               *)
LEMMA AfterSaveType ==
  ASSUME TypeOK, ReorderStep, Save, NEW j \in Beam, j > i
  PROVE  /\ AfterSave(remapped[j]) \in -BatchSize .. BatchSize-1
         /\ AfterSave(remapped[j]) < 0 => AfterSave(remapped[j]) + BatchSize < extraBufIdx'
         /\ AfterSave(remapped[j]) # i
<1>1. remapped[j] \in -BatchSize .. BatchSize-1 /\ i \in Beam /\ extraBufIdx \in 0 .. BatchSize-1
  BY Ranges DEF TypeOK, ReorderStep
<1>2. remapped[j] < 0 => remapped[j] + BatchSize < extraBufIdx
  BY DEF TypeOK
<1>3. extraBufIdx' >= extraBufIdx /\ extraBufIdx' \in Int
  BY SaveType
<1>4. CASE remapped[j] = i
  <2>1. Needed
    BY <1>4 DEF Needed
  <2>2. extraBufIdx' = extraBufIdx + 1
    BY <2>1, SaveType
  <2> QED
    BY <1>1, <1>4, <2>2, Ranges DEF AfterSave
<1>5. CASE remapped[j] # i
  BY <1>1, <1>2, <1>3, <1>5, Ranges DEF AfterSave
<1> QED
  BY <1>4, <1>5

LEMMA TypeStep ==
  ASSUME TypeOK, [Next]_vars
  PROVE  TypeOK'
<1> USE Ranges
<1>1. CASE ExpandRow
  <2>1. line \in Line /\ i \in Beam /\ i \in Nat
    BY <1>1 DEF ExpandRow, TypeOK
  <2>2. i \div BeamSize \in Beam
    BY <2>1, DivBound, SizeAssumption
  <2>3. data[line][i \div BeamSize] \in Row
    BY <2>1, <2>2 DEF TypeOK
  <2>4. data' \in [Line -> [Beam -> Row]]
    BY <1>1, <2>1, <2>3 DEF ExpandRow, TypeOK
  <2> QED
    BY <1>1, <2>1, <2>4 DEF ExpandRow, TypeOK
<1>2. CASE NextLine
  BY <1>2, SizeAssumption DEF NextLine, TypeOK, FirstRow
<1>3. CASE CopyBack
  <2>1. ReorderStep /\ Save /\ line \in Line /\ i \in Beam
    BY <1>3 DEF CopyBack, ReorderStep, TypeOK
  <2>2. data[line][i] \in Row /\ At(remapped[i]) \in Row
    BY <2>1, AtType DEF TypeOK
  <2>3. data' \in [Line -> [Beam -> Row]]
    BY <1>3, <2>1, <2>2, SkippableType DEF CopyBack, TypeOK
  <2>4. /\ remapped' \in [Beam -> -BatchSize .. BatchSize-1]
        /\ \A j \in Beam : remapped'[j] < 0 => remapped'[j] + BatchSize < extraBufIdx'
    <3>1. ASSUME NEW j \in Beam
          PROVE  /\ remapped'[j] \in -BatchSize .. BatchSize-1
                 /\ remapped'[j] < 0 => remapped'[j] + BatchSize < extraBufIdx'
      <4>1. CASE j > i
        BY <1>3, <2>1, <4>1, AfterSaveType DEF CopyBack
      <4>2. CASE ~(j > i)
        BY <1>3, <2>1, <4>2, SaveType DEF CopyBack, TypeOK
      <4> QED
        BY <4>1, <4>2
    <3> QED
      BY <1>3, <3>1 DEF CopyBack
  <2> QED
    BY <1>3, <2>1, <2>3, <2>4, SaveType DEF CopyBack, ReorderStep, TypeOK
<1>4. CASE SwapRows
  <2>1. ReorderStep /\ line \in Line /\ i \in Beam /\ remapped[i] \in Beam
    BY <1>4 DEF SwapRows, ReorderStep, TypeOK
  <2>2. data' \in [Line -> [Beam -> Row]]
    BY <1>4, <2>1 DEF SwapRows, TypeOK
  <2>3. ASSUME NEW j \in Beam
        PROVE  /\ remapped'[j] \in -BatchSize .. BatchSize-1
               /\ remapped'[j] < 0 => remapped'[j] + BatchSize < extraBufIdx
    BY <1>4, <2>1 DEF SwapRows, AfterSwap, TypeOK
  <2>4. remapped' \in [Beam -> -BatchSize .. BatchSize-1]
    BY <1>4, <2>3 DEF SwapRows
  <2> QED
    BY <1>4, <2>1, <2>2, <2>3, <2>4 DEF SwapRows, ReorderStep, TypeOK
<1>5. CASE CopyForward
  <2>1. ReorderStep /\ Save /\ line \in Line /\ i \in Beam /\ remapped[i] \in Beam
    BY <1>5 DEF CopyForward, ReorderStep, TypeOK
  <2>2. data[line][i] \in Row /\ data[line][remapped[i]] \in Row
    BY <2>1 DEF TypeOK
  <2>3. data' \in [Line -> [Beam -> Row]]
    BY <1>5, <2>1, <2>2, SkippableType DEF CopyForward, TypeOK
  <2>4. /\ remapped' \in [Beam -> -BatchSize .. BatchSize-1]
        /\ \A j \in Beam : remapped'[j] < 0 => remapped'[j] + BatchSize < extraBufIdx'
    <3>1. ASSUME NEW j \in Beam
          PROVE  /\ remapped'[j] \in -BatchSize .. BatchSize-1
                 /\ remapped'[j] < 0 => remapped'[j] + BatchSize < extraBufIdx'
      <4>1. CASE j > i /\ remapped[j] # remapped[i]
        BY <1>5, <2>1, <4>1, AfterSaveType DEF CopyForward, AfterCopy
      <4>2. CASE j > i /\ remapped[j] = remapped[i]
        BY <1>5, <2>1, <4>2, SaveType DEF CopyForward, AfterCopy, TypeOK
      <4>3. CASE ~(j > i)
        <5>1. remapped'[j] = remapped[j]
          BY <1>5, <4>3 DEF CopyForward
        <5> QED
          BY <2>1, <5>1, SaveType DEF TypeOK
      <4> QED
        BY <4>1, <4>2, <4>3
    <3> QED
      BY <1>5, <3>1 DEF CopyForward
  <2> QED
    BY <1>5, <2>1, <2>3, <2>4, SaveType DEF CopyForward, ReorderStep, TypeOK
<1>6. CASE Stay
  BY <1>6 DEF Stay, ReorderStep, TypeOK
<1>7. CASE UNCHANGED vars
  BY <1>7 DEF vars, TypeOK
<1> QED
  BY <1>1, <1>2, <1>3, <1>4, <1>5, <1>6, <1>7 DEF Next

LEMMA TypeInit == Init => TypeOK
BY Ranges, SizeAssumption, DataAssumption DEF Init, TypeOK, FirstRow

(* TypeOK holds in every reachable state: in particular reorder never      *)
(* saves more rows than its side buffer of batchSize - 1 rows has room     *)
(* for, and the map never leads outside the line and the saved rows.       *)
THEOREM TypeCorrect == Spec => []TypeOK
<1>1. TypeOK /\ [Next]_vars => TypeOK'
  BY TypeStep
<1> QED
  BY <1>1, TypeInit, PTL DEF Spec

-----------------------------------------------------------------------------
(* A step that fills a row touches no other line.                          *)
LEMMA OtherLines ==
  ASSUME TypeOK, ExpandRow \/ CopyBack \/ SwapRows \/ CopyForward \/ Stay,
         NEW l \in Line, l # line
  PROVE  data'[l] = data[l] /\ line' = line
BY DEF TypeOK, ExpandRow, CopyBack, SwapRows, CopyForward, Stay, ReorderStep

(* What the proof of a step that fills row i of reorder comes down to: row *)
(* i gets its source, the rows before it stay, and the map still leads to  *)
(* what it led to before.                                                  *)
LEMMA FillStep ==
  ASSUME IInv, ReorderStep, TypeOK',
         CopyBack \/ SwapRows \/ CopyForward \/ Stay,
         data'[line][i] = At(remapped[i]),
         \A b \in Beam : b < i => data'[line][b] = data[line][b],
         \A b \in Beam : b > i => At(remapped[b])' = At(remapped[b])
  PROVE  IInv'
<1> USE Ranges
<1>1. op = "reorder" /\ op' = "reorder" /\ idx' = idx /\ line' = line /\ line < AccSeqLen
      /\ i' = i + 1 /\ i \in Beam /\ line \in Line
  BY DEF ReorderStep, IInv, TypeOK
<1>2. \A l \in Line : l # line => data'[l] = data[l]
  BY OtherLines DEF IInv
<1>3. LinesAhead'
  BY <1>1, <1>2 DEF IInv, LinesAhead
<1>4. RowsFilled'
  <2> SUFFICES ASSUME NEW b \in Beam, b < i + 1
               PROVE  data'[line][b] = Orig[line][idx[b]]
    BY <1>1 DEF RowsFilled
  <2>1. CASE b < i
    BY <1>1, <2>1 DEF IInv, RowsFilled
  <2>2. CASE b = i
    BY <1>1, <2>2 DEF IInv, MapLeads
  <2> QED
    BY <1>1, <2>1, <2>2
<1>5. MapLeads'
  <2> SUFFICES ASSUME NEW b \in Beam, b >= i + 1
               PROVE  At(remapped[b])' = Orig[line][idx[b]]
    BY <1>1 DEF MapLeads
  <2>1. At(remapped[b])' = At(remapped[b])
    BY <1>1
  <2>2. At(remapped[b]) = Orig[line][idx[b]]
    BY <1>1 DEF IInv, MapLeads
  <2> QED
    BY <2>1, <2>2
<1>6. RowsExpanded' /\ ExpandCorrect'
  BY <1>1 DEF RowsExpanded, ExpandCorrect
<1>7. ReorderCorrect'
  BY <1>1, <1>2 DEF IInv, ReorderCorrect
<1> QED
  BY <1>3, <1>4, <1>5, <1>6, <1>7 DEF IInv

(* After row i has been saved and overwritten, with all other rows of the  *)
(* line as they were, AfterSave leads to what was there before.            *)
LEMMA SavedRow ==
  ASSUME TypeOK, ReorderStep, Save, NEW b \in Beam, b > i,
         \A c \in Beam : c # i => data'[line][c] = data[line][c],
         remapped'[b] = AfterSave(remapped[b])
  PROVE  At(remapped[b])' = At(remapped[b])
<1> DEFINE v == remapped'[b]
<1> USE Ranges
<1>0. At(remapped[b])' = IF v < 0 THEN extraKeyBuf'[v + BatchSize] ELSE data'[line][v]
  BY DEF At, ReorderStep
<1>1. i \in Beam /\ line \in Line /\ remapped[b] \in -BatchSize .. BatchSize-1
      /\ extraBufIdx \in 0 .. BatchSize-1
  BY DEF TypeOK, ReorderStep
<1>2. CASE remapped[b] = i
  <2>1. Needed
    BY <1>2 DEF Needed
  <2>2. extraBufIdx \in Slot
    BY <1>1, <2>1 DEF Needed, TypeOK
  <2>3. extraKeyBuf'[extraBufIdx] = data[line][i]
    BY <2>1, <2>2 DEF Save, TypeOK
  <2>4. v = extraBufIdx - BatchSize /\ v < 0 /\ v + BatchSize = extraBufIdx
    BY <1>1, <1>2 DEF AfterSave
  <2> QED
    BY <1>0, <1>1, <1>2, <2>3, <2>4 DEF At
<1>3. CASE remapped[b] # i /\ remapped[b] >= 0
  BY <1>0, <1>1, <1>3 DEF AfterSave, At
<1>4. CASE remapped[b] < 0
  <2>1. v = remapped[b] /\ v + BatchSize < extraBufIdx /\ v + BatchSize \in Slot
    BY <1>1, <1>4 DEF AfterSave, TypeOK
  <2>2. extraKeyBuf'[v + BatchSize] = extraKeyBuf[v + BatchSize]
    BY <1>1, <2>1 DEF Save, TypeOK
  <2> QED
    BY <1>0, <1>4, <2>1, <2>2 DEF At
<1> QED
  BY <1>1, <1>2, <1>3, <1>4

LEMMA InvStep ==
  ASSUME op = "reorder" => HeadsDistinguish, IInv, [Next]_vars
  PROVE  IInv'
<1> USE Ranges
<1>0. TypeOK /\ TypeOK'
  BY TypeStep DEF IInv
<1>1. CASE ExpandRow
  <2>1. op = "expand" /\ op' = op /\ line' = line /\ i' = i - 1 /\ i > 0
        /\ line \in Line /\ i \in Beam /\ line < AccSeqLen
    BY <1>0, <1>1 DEF ExpandRow, TypeOK
  <2>2. \A l \in Line : l # line => data'[l] = data[l]
    BY <1>0, <1>1, OtherLines
  <2>3. i \div BeamSize \in 0 .. i
    BY <2>1, DivBound, SizeAssumption
  <2>4. data'[line][i] = Orig[line][i \div BeamSize]
    <3>1. data'[line][i] = data[line][i \div BeamSize]
      BY <1>0, <1>1, <2>1 DEF ExpandRow, TypeOK
    <3>2. i \div BeamSize \in Beam /\ ~(i \div BeamSize > i)
      BY <2>1, <2>3
    <3> QED
      BY <2>1, <3>1, <3>2 DEF IInv, RowsExpanded
  <2>5. \A b \in Beam : b # i => data'[line][b] = data[line][b]
    BY <1>0, <1>1, <2>1 DEF ExpandRow, TypeOK
  <2>6. RowsExpanded'
    <3> SUFFICES ASSUME NEW b \in Beam
                 PROVE  data'[line][b] = IF b > i - 1 THEN Orig[line][b \div BeamSize] ELSE Orig[line][b]
      BY <2>1 DEF RowsExpanded
    <3>1. CASE b = i
      BY <2>1, <2>4, <3>1
    <3>2. CASE b # i
      <4>1. b > i - 1 <=> b > i
        BY <2>1, <3>2
      <4> QED
        BY <2>1, <2>5, <3>2, <4>1 DEF IInv, RowsExpanded
    <3> QED
      BY <3>1, <3>2
  <2>7. LinesAhead' /\ ExpandCorrect'
    BY <2>1, <2>2 DEF IInv, LinesAhead, ExpandCorrect
  <2>8. RowsFilled' /\ MapLeads' /\ ReorderCorrect'
    BY <2>1 DEF RowsFilled, MapLeads, ReorderCorrect
  <2> QED
    BY <1>0, <2>6, <2>7, <2>8 DEF IInv
<1>2. CASE NextLine
  <2>1. op' = op /\ idx' = idx /\ line' = line + 1 /\ data' = data /\ remapped' = idx
        /\ line \in Line /\ line < AccSeqLen /\ i' = FirstRow(op)
    BY <1>0, <1>2 DEF NextLine, TypeOK
  <2>2. LinesAhead'
    BY <2>1 DEF IInv, LinesAhead
  <2>3. CASE op = "reorder"
    <3>1. i = BatchSize /\ i' = 0
      BY <1>2, <2>1, <2>3 DEF NextLine, FirstRow
    <3>2. ReorderCorrect'
      BY <2>1, <2>3, <3>1 DEF IInv, ReorderCorrect, RowsFilled
    <3>3. RowsFilled'
      BY <3>1 DEF RowsFilled
    <3>4. MapLeads'
      <4> SUFFICES ASSUME line + 1 < AccSeqLen, NEW b \in Beam
                   PROVE  At(remapped[b])' = Orig[line+1][idx[b]]
        BY <2>1 DEF MapLeads
      <4>1. idx[b] \in Beam /\ ~(idx[b] < 0)
        BY <1>0 DEF TypeOK
      <4>2. line + 1 \in Line /\ data[line+1] = Orig[line+1]
        BY <2>1, SizeAssumption DEF IInv, LinesAhead
      <4> QED
        BY <2>1, <4>1, <4>2 DEF At
    <3>5. RowsExpanded' /\ ExpandCorrect'
      BY <2>1, <2>3 DEF RowsExpanded, ExpandCorrect
    <3> QED
      BY <1>0, <2>2, <3>2, <3>3, <3>4, <3>5 DEF IInv
  <2>4. CASE op = "expand"
    <3>1. i = 0 /\ i' = BatchSize - 1
      BY <1>2, <2>1, <2>4 DEF NextLine, FirstRow
    <3>2. ExpandCorrect'
      <4>1. 0 \div BeamSize = 0
        BY SizeAssumption, DivBound
      <4>2. \A b \in Beam : data[line][b] = Orig[line][b \div BeamSize]
        BY <2>1, <2>4, <3>1, <4>1 DEF IInv, RowsExpanded
      <4> QED
        BY <2>1, <2>4, <4>2 DEF IInv, ExpandCorrect
    <3>3. RowsExpanded'
      <4> SUFFICES ASSUME line + 1 < AccSeqLen, NEW b \in Beam
                   PROVE  ~(b > i') /\ data[line+1][b] = Orig[line+1][b]
        BY <2>1 DEF RowsExpanded
      <4>1. line + 1 \in Line /\ data[line+1] = Orig[line+1]
        BY <2>1, SizeAssumption DEF IInv, LinesAhead
      <4> QED
        BY <3>1, <4>1
    <3>4. RowsFilled' /\ MapLeads' /\ ReorderCorrect'
      BY <2>1, <2>4 DEF RowsFilled, MapLeads, ReorderCorrect
    <3> QED
      BY <1>0, <2>2, <3>2, <3>3, <3>4 DEF IInv
  <2> QED
    BY <1>0, <2>3, <2>4 DEF TypeOK
<1>3. CASE CopyBack
  <2>1. ReorderStep /\ Save /\ line \in Line /\ i \in Beam /\ line' = line
    BY <1>0, <1>3 DEF CopyBack, ReorderStep, TypeOK
  <2>2. data[line][i] \in Row /\ At(remapped[i]) \in Row
    BY <1>0, <2>1, AtType DEF TypeOK
  <2>3. data'[line][i] = At(remapped[i])
    BY <1>0, <1>3, <2>1, <2>2, SkippableIsCopy DEF CopyBack, ReorderStep, TypeOK
  <2>4. \A b \in Beam : b # i => data'[line][b] = data[line][b]
    BY <1>0, <1>3, <2>1 DEF CopyBack, TypeOK
  <2>5. ASSUME NEW b \in Beam, b > i
        PROVE  At(remapped[b])' = At(remapped[b])
    <3>1. remapped'[b] = AfterSave(remapped[b])
      BY <1>3, <2>5 DEF CopyBack
    <3> QED
      BY <1>0, <2>1, <2>4, <2>5, <3>1, SavedRow
  <2> QED
    BY <1>0, <1>3, <2>1, <2>3, <2>4, <2>5, FillStep
<1>4. CASE SwapRows
  <2>1. ReorderStep /\ line \in Line /\ i \in Beam /\ remapped[i] \in Beam /\ remapped[i] > i
        /\ line' = line /\ extraKeyBuf' = extraKeyBuf
    BY <1>0, <1>4 DEF SwapRows, ReorderStep, TypeOK
  <2>2. data'[line][i] = data[line][remapped[i]] /\ data'[line][remapped[i]] = data[line][i]
    BY <1>0, <1>4, <2>1 DEF SwapRows, TypeOK
  <2>3. \A b \in Beam : b # i /\ b # remapped[i] => data'[line][b] = data[line][b]
    BY <1>0, <1>4, <2>1 DEF SwapRows, TypeOK
  <2>4. ASSUME NEW b \in Beam, b > i
        PROVE  At(remapped[b])' = At(remapped[b])
    <3>1. remapped'[b] = AfterSwap(remapped[b]) /\ remapped[b] \in -BatchSize .. BatchSize-1
      BY <1>0, <1>4, <2>4 DEF SwapRows, TypeOK
    <3> QED
      BY <2>1, <2>2, <2>3, <3>1 DEF At, AfterSwap
  <2>5. data'[line][i] = At(remapped[i])
    BY <2>1, <2>2 DEF At
  <2> QED
    BY <1>0, <1>4, <2>1, <2>3, <2>4, <2>5, FillStep
<1>5. CASE CopyForward
  <2>1. ReorderStep /\ Save /\ line \in Line /\ i \in Beam /\ line' = line
        /\ remapped[i] \in Beam /\ remapped[i] > i
    BY <1>0, <1>5 DEF CopyForward, ReorderStep, TypeOK
  <2>2. data[line][i] \in Row /\ data[line][remapped[i]] \in Row
    BY <1>0, <2>1 DEF TypeOK
  <2>3. data'[line][i] = data[line][remapped[i]]
    BY <1>0, <1>5, <2>1, <2>2, SkippableIsCopy DEF CopyForward, ReorderStep, TypeOK
  <2>4. \A b \in Beam : b # i => data'[line][b] = data[line][b]
    BY <1>0, <1>5, <2>1 DEF CopyForward, TypeOK
  <2>5. ASSUME NEW b \in Beam, b > i
        PROVE  At(remapped[b])' = At(remapped[b])
    <3>1. remapped'[b] = AfterCopy(remapped[b])
      BY <1>5, <2>5 DEF CopyForward
    <3>2. CASE remapped[b] = remapped[i]
      BY <2>1, <2>3, <3>1, <3>2 DEF At, AfterCopy
    <3>3. CASE remapped[b] # remapped[i]
      <4>1. remapped'[b] = AfterSave(remapped[b])
        BY <3>1, <3>3 DEF AfterCopy
      <4> QED
        BY <1>0, <2>1, <2>4, <2>5, <4>1, SavedRow
    <3> QED
      BY <3>2, <3>3
  <2>6. data'[line][i] = At(remapped[i])
    BY <2>1, <2>3 DEF At
  <2> QED
    BY <1>0, <1>5, <2>1, <2>4, <2>5, <2>6, FillStep
<1>6. CASE Stay
  <2>1. ReorderStep /\ i \in Beam /\ line' = line /\ data' = data
        /\ remapped' = remapped /\ extraKeyBuf' = extraKeyBuf /\ remapped[i] = i
    BY <1>0, <1>6 DEF Stay, ReorderStep, TypeOK
  <2>2. \A b \in Beam : At(remapped[b])' = At(remapped[b])
    BY <2>1 DEF At
  <2>3. data'[line][i] = At(remapped[i])
    BY <2>1 DEF At
  <2> QED
    BY <1>0, <1>6, <2>1, <2>2, <2>3, FillStep
<1>7. CASE UNCHANGED vars
  BY <1>0, <1>7 DEF vars, IInv, LinesAhead, RowsFilled, MapLeads, At, RowsExpanded,
                    ReorderCorrect, ExpandCorrect
<1> QED
  BY <1>1, <1>2, <1>3, <1>4, <1>5, <1>6, <1>7 DEF Next

LEMMA InvInit == Init => IInv
<1> SUFFICES ASSUME Init PROVE IInv
  OBVIOUS
<1> USE Ranges
<1>1. TypeOK
  BY TypeInit
<1>2. data = Orig /\ line = InitSeqLen /\ remapped = idx /\ i = FirstRow(op) /\ idx \in [Beam -> Beam]
  BY DEF Init
<1>3. LinesAhead /\ ReorderCorrect /\ ExpandCorrect
  BY <1>2, SizeAssumption DEF LinesAhead, ReorderCorrect, ExpandCorrect
<1>4. RowsFilled
  BY <1>2 DEF RowsFilled, FirstRow
<1>5. MapLeads
  BY <1>2 DEF MapLeads, At
<1>6. RowsExpanded
  BY <1>2 DEF RowsExpanded, FirstRow
<1> QED
  BY <1>1, <1>3, <1>4, <1>5, <1>6 DEF IInv

(* On every finished line reorder has given row b the contents row idx[b]  *)
(* had before, for any idx, if rows that differ do so in the eight bytes   *)
(* that skippableCopy compares.                                            *)
THEOREM Reordered ==
  ASSUME HeadsDistinguish
  PROVE  Spec => []ReorderCorrect
<1>1. IInv /\ [Next]_vars => IInv'
  BY InvStep
<1>2. IInv => ReorderCorrect
  BY DEF IInv
<1> QED
  BY <1>1, <1>2, InvInit, PTL DEF Spec

(* On every finished line expandOneSequence has given each beam the row of *)
(* its sample; it copies with memcpy, so nothing is asked of the contents. *)
THEOREM Expanded == Spec => []ExpandCorrect
<1> DEFINE EInv == op = "expand" => IInv
<1>1. EInv /\ [Next]_vars => EInv'
  <2>1. [Next]_vars => op' = op
    BY DEF Next, vars, ExpandRow, NextLine, CopyBack, SwapRows, CopyForward, Stay, ReorderStep
  <2> QED
    BY <2>1, InvStep
<1>2. EInv => ExpandCorrect
  BY DEF IInv, ExpandCorrect
<1>3. Init => EInv
  BY InvInit
<1> HIDE DEF EInv
<1> QED
  BY <1>1, <1>2, <1>3, PTL DEF Spec
=============================================================================
