--------------------------- MODULE TensorParallel ---------------------------
(***************************************************************************)
(* How one decoder is split over the ranks of a group: the heads of an     *)
(* attention layer (src/layers/attention.h) with their biases and their    *)
(* key/value cache, the columns of an MLP (src/utils/split_util.h,         *)
(* src/layers/mlp_llama.h), the vocabulary (src/layers/dist_linear.h), and *)
(* how Model::forward (src/models/models.cpp) puts the logits of all ranks *)
(* together again.                                                         *)
(*                                                                         *)
(* No number is computed: the product of a query head with a key/value     *)
(* head is the pair of them, a column of the MLP is its index and a logit  *)
(* is <<row, token>>.  What a sum over ranks holds is then which of these  *)
(* terms it has, and how often.                                            *)
(***************************************************************************)
EXTENDS Integers, FiniteSets

CONSTANT
  Shapes  \* [splits, attHeadNum, kvHeadNum, intermediateSize, standard (an MLP with biases), vocabSize, rows]

ASSUME ShapesAssumption ==
  \A s \in Shapes :
    /\ {s.splits, s.attHeadNum, s.kvHeadNum, s.intermediateSize, s.vocabSize, s.rows} \subseteq Nat \ {0}
    /\ s.attHeadNum % s.kvHeadNum = 0  \* Attention's constructor exits otherwise
    /\ s.splits <= s.attHeadNum
    /\ s.standard \in BOOLEAN

VARIABLES
  shape,   \* the model and the number of ranks
  pc,      \* pc[r]: what rank r does next
  layout,  \* layout[r]: the parts rank r is responsible for
  cache,   \* cache[r]: key/value head in each slot of rank r's cache
  attnOut, \* attnOut[r]: what rank r adds to the attention's sum
  mlpOut,  \* mlpOut[r]: what rank r adds to the MLP's sum
  outBuf,  \* outBuf[r]: logits of rank r's part of the vocabulary
  logits   \* logits[r]: all logits as rank r returns them

vars == <<shape, pc, layout, cache, attnOut, mlpOut, outBuf, logits>>

Rank == 0 .. shape.splits-1
None == -1

(* Ranks past stage p, in the order of a forward. *)
Order == [construct |-> 0, attention |-> 1, ffn |-> 2, predict |-> 3, gather |-> 4, done |-> 5]
Past(r, p) == Order[pc[r]] > Order[p]

-----------------------------------------------------------------------------
(* N tasks, the first N % splits ranks have one more. *)
EvenRange(N, splits, idx) ==
  LET base == N \div splits
      rem  == N % splits
  IN IF idx < rem
     THEN <<idx * (base + 1), idx * (base + 1) + (base + 1)>>
     ELSE <<(base + 1) * rem + (idx - rem) * base, (base + 1) * rem + (idx - rem) * base + base>>

(* Attention::getTaskRange *)
HeadRange(N, splits, idx) ==
  IF N % splits = 0 THEN <<idx * (N \div splits), idx * (N \div splits) + (N \div splits)>>
  ELSE EvenRange(N, splits, idx)

(* The first of the candidates 64, 16 and 2 that divides N. *)
Granularity(N) ==
  IF N % 64 = 0 THEN 64 ELSE IF N % 16 = 0 THEN 16 ELSE IF N % 2 = 0 THEN 2 ELSE 1

(* Variant of TaskRange, for mutation: the range is not scaled back. *)
TaskRangeUnscaled(N, splits, idx) ==
  IF N % (splits * 64) = 0 THEN <<idx * (N \div splits), idx * (N \div splits) + (N \div splits)>>
  ELSE EvenRange(N \div Granularity(N), splits, idx)

(* SplitUtil::getTaskRange *)
TaskRange(N, splits, idx) ==
  IF N % (splits * 64) = 0 THEN <<idx * (N \div splits), idx * (N \div splits) + (N \div splits)>>
  ELSE LET r == EvenRange(N \div Granularity(N), splits, idx)
       IN <<r[1] * Granularity(N), r[2] * Granularity(N)>>

(* DistLinear::setWeight *)
SplitSize(N, splits, idx) == N \div splits + (IF idx < N % splits THEN 1 ELSE 0)
SplitOffset(N, splits, idx) ==
  (N \div splits) * idx + (IF idx < N % splits THEN idx ELSE N % splits)

-----------------------------------------------------------------------------
Init ==
  /\ shape \in Shapes
  /\ pc = [r \in Rank |-> "construct"]
  /\ layout = [r \in Rank |-> None]
  /\ cache = [r \in Rank |-> None]
  /\ attnOut = [r \in Rank |-> None]
  /\ mlpOut = [r \in Rank |-> None]
  /\ outBuf = [r \in Rank |-> None]
  /\ logits = [r \in Rank |-> None]

(* MLP::setWeights: the first column whose bias rank r takes; the MLP of   *)
(* Llama has no biases.                                                    *)
ImBias(range, r) == IF shape.standard THEN r * (range[2] - range[1]) ELSE range[1]

(* The part of rank r: heads, columns and vocabulary.  A key/value head is *)
(* kept by every rank that has one of its query heads.                     *)
Layout(r) ==
  LET q      == HeadRange(shape.attHeadNum, shape.splits, r)
      expand == shape.attHeadNum \div shape.kvHeadNum
  IN [startQHead    |-> q[1],
      endQHead      |-> q[2],
      startKVHead   |-> q[1] \div expand,
      endKVHead     |-> (q[2] - 1) \div expand + 1,
      biasHead      |-> r * (q[2] - q[1]),  \* where the bias of its first query head is taken from
      headsPerSplit |-> (shape.kvHeadNum + shape.splits - 1) \div shape.splits,
      im            |-> TaskRange(shape.intermediateSize, shape.splits, r),
      imBias        |-> ImBias(TaskRange(shape.intermediateSize, shape.splits, r), r),
      splitSize     |-> SplitSize(shape.vocabSize, shape.splits, r),
      splitOffset   |-> SplitOffset(shape.vocabSize, shape.splits, r)]

(* Rank r builds its layers and its key/value cache. *)
Construct(r) ==
  /\ pc[r] = "construct"
  /\ layout' = [layout EXCEPT ![r] = Layout(r)]
  /\ cache' = [cache EXCEPT ![r] = [h \in 0 .. layout'[r].headsPerSplit-1 |-> None]]
  /\ pc' = [pc EXCEPT ![r] = "attention"]
  /\ UNCHANGED <<shape, attnOut, mlpOut, outBuf, logits>>

(* Variant of LocalKV, for mutation: the index of a query head in the      *)
(* model, not in the rank's part, is divided.                              *)
LocalKVOfModel(l, i) ==
  (l.startQHead + i) \div ((l.endQHead - l.startQHead) \div (l.endKVHead - l.startKVHead))

(* crossAttnByHead: the key/value head, among those of the rank, that its  *)
(* query head i is multiplied with.                                        *)
LocalKV(l, i) == i \div ((l.endQHead - l.startQHead) \div (l.endKVHead - l.startKVHead))

(* The query heads of a rank, what they add to the sum, and the key/value  *)
(* heads they copy into the cache: the first of a group does.              *)
Heads(l) == 0 .. l.endQHead - l.startQHead - 1
Terms(l, r) ==
  {[q |-> l.startQHead + i, kv |-> l.startKVHead + LocalKV(l, i), bias |-> l.biasHead + i, rank |-> r] :
     i \in Heads(l)}
Copied(l) ==
  LET group == (l.endQHead - l.startQHead) \div (l.endKVHead - l.startKVHead)
  IN {LocalKV(l, i) : i \in {i \in Heads(l) : i % group = 0}}

(* Rank r computes the heads it has and writes keys and values into its    *)
(* cache.                                                                  *)
Attention(r) ==
  LET l == layout[r]
  IN /\ pc[r] = "attention"
     /\ attnOut' = [attnOut EXCEPT ![r] =
          [resid |-> r = 0,  \* "only add the input in the first split"
           heads |-> Terms(l, r)]]
     /\ cache' = [cache EXCEPT ![r] =
          [h \in DOMAIN @ \cup {LocalKV(l, i) : i \in Heads(l)} |->
             IF h \in Copied(l) THEN l.startKVHead + h ELSE None]]
     /\ pc' = [pc EXCEPT ![r] = "ffn"]
     /\ UNCHANGED <<shape, layout, mlpOut, outBuf, logits>>

(* The sum over ranks is there once every rank gave its part. *)
FeedForward(r) ==
  /\ pc[r] = "ffn"
  /\ \A s \in Rank : Past(s, "attention")
  /\ mlpOut' = [mlpOut EXCEPT ![r] =
       [first |-> layout[r].im[1], last |-> layout[r].im[2], bias |-> layout[r].imBias, resid |-> r = 0]]
  /\ pc' = [pc EXCEPT ![r] = "predict"]
  /\ UNCHANGED <<shape, layout, cache, attnOut, outBuf, logits>>

(* DistLinear::forward: a row of splitSize logits per row of the input. *)
Predict(r) ==
  /\ pc[r] = "predict"
  /\ \A s \in Rank : Past(s, "ffn")
  /\ outBuf' = [outBuf EXCEPT ![r] =
       [k \in 0 .. shape.rows * layout[r].splitSize - 1 |->
          <<k \div layout[r].splitSize, layout[r].splitOffset + (k % layout[r].splitSize)>>]]
  /\ pc' = [pc EXCEPT ![r] = "gather"]
  /\ UNCHANGED <<shape, layout, cache, attnOut, mlpOut, logits>>

-----------------------------------------------------------------------------
(* Model::forward works out the parts of the ranks a second time. *)
SplitSizes(i) ==
  shape.vocabSize \div shape.splits + (IF i < shape.vocabSize % shape.splits THEN 1 ELSE 0)

(* The offset when its loop comes to rank i. *)
Offset[i \in Nat] == IF i = 0 THEN 0 ELSE Offset[i-1] + SplitSizes(i-1)

(* allgatherv: what the ranks send, one after the other. *)
LogitsRecvBuf ==
  [p \in 0 .. shape.vocabSize * shape.rows - 1 |->
     LET i == CHOOSE i \in Rank : Offset[i] * shape.rows <= p /\ p < Offset[i + 1] * shape.rows
     IN outBuf[i][p - Offset[i] * shape.rows]]

(* Variant of Reorder, for mutation: the rows of a rank are taken to be as *)
(* long as those of the last rank.                                         *)
ReorderEqualParts ==
  [p \in 0 .. shape.vocabSize * shape.rows - 1 |->
     LET j == p \div shape.vocabSize
         i == CHOOSE i \in Rank : Offset[i] <= p % shape.vocabSize /\ p % shape.vocabSize < Offset[i + 1]
         k == (p % shape.vocabSize) - Offset[i]
     IN LogitsRecvBuf[Offset[i] * shape.rows + j * (shape.vocabSize \div shape.splits) + k]]

(* Row j of rank i is copied to columns Offset[i].. of row j. *)
Reorder ==
  [p \in 0 .. shape.vocabSize * shape.rows - 1 |->
     LET j == p \div shape.vocabSize
         i == CHOOSE i \in Rank : Offset[i] <= p % shape.vocabSize /\ p % shape.vocabSize < Offset[i + 1]
         k == (p % shape.vocabSize) - Offset[i]
     IN LogitsRecvBuf[Offset[i] * shape.rows + j * SplitSizes(i) + k]]

GatherLogits(r) ==
  /\ pc[r] = "gather"
  /\ \A s \in Rank : Past(s, "predict")
  /\ logits' = [logits EXCEPT ![r] = IF shape.splits > 1 THEN Reorder ELSE outBuf[r]]
  /\ pc' = [pc EXCEPT ![r] = "done"]
  /\ UNCHANGED <<shape, layout, cache, attnOut, mlpOut, outBuf>>

Next ==
  \E r \in Rank : Construct(r) \/ Attention(r) \/ FeedForward(r) \/ Predict(r) \/ GatherLogits(r)

Spec == Init /\ [][Next]_vars

-----------------------------------------------------------------------------
(* The shapes the splits are made for.  The heads of a group stay          *)
(* together: a rank has whole groups, or part of one group.  The biases of *)
(* an MLP that has them are cut into equal parts, as the columns must be.  *)
HeadsAligned(s) ==
  s.kvHeadNum % s.splits = 0 \/ (s.splits % s.kvHeadNum = 0 /\ s.attHeadNum % s.splits = 0)
ColumnsAligned(s) == s.standard => s.intermediateSize % (s.splits * 64) = 0

(* The sum over ranks after the attention has every query head of the      *)
(* model once, multiplied with its own key/value head, which the rank has  *)
(* in its cache, and with its own bias; and the input, once.               *)
HeadsServed ==
  (\A r \in Rank : Past(r, "attention")) =>
     LET heads == UNION {attnOut[r].heads : r \in Rank}
     IN /\ Cardinality({r \in Rank : attnOut[r].resid}) = 1
        /\ \A h \in 0 .. shape.attHeadNum-1 :
             /\ Cardinality({t \in heads : t.q = h}) = 1
             /\ \A t \in heads : t.q = h =>
                  /\ t.kv = h \div (shape.attHeadNum \div shape.kvHeadNum)
                  /\ t.bias = h
                  /\ LET slot == t.kv - layout[t.rank].startKVHead
                     IN slot < layout[t.rank].headsPerSplit /\ cache[t.rank][slot] = t.kv

(* The sum over ranks after the MLP has every column of the intermediate   *)
(* layer once, with its own bias where there are biases: the ranges of the *)
(* ranks follow on one another.  It has its input once.                    *)
ColumnsOnce ==
  (\A r \in Rank : Past(r, "ffn")) =>
     /\ mlpOut[0].first = 0
     /\ \A r \in Rank : /\ mlpOut[r].first <= mlpOut[r].last
                        /\ mlpOut[r].bias = mlpOut[r].first
                        /\ mlpOut[r].resid <=> r = 0
     /\ \A r \in Rank \ {0} : mlpOut[r].first = mlpOut[r-1].last
     /\ mlpOut[shape.splits-1].last = shape.intermediateSize

(* What Model::forward returns on any rank is the logit of row j and token *)
(* v at j * vocabSize + v, although the parts are worked out twice, in     *)
(* setWeight and in forward, and travel in one flat buffer.                *)
LogitsInPlace ==
  \A r \in Rank : pc[r] = "done" =>
     \A j \in 0 .. shape.rows-1 : \A v \in 0 .. shape.vocabSize-1 :
        logits[r][j * shape.vocabSize + v] = <<j, v>>

-----------------------------------------------------------------------------
(* The inductive invariant: what a rank has done is a function of its part *)
(* of the model, and the ranks it waited for are past what it waited for.  *)
InvType ==
  /\ shape \in Shapes
  /\ pc \in [Rank -> DOMAIN Order]
  /\ DOMAIN layout = Rank /\ DOMAIN cache = Rank /\ DOMAIN attnOut = Rank
  /\ DOMAIN mlpOut = Rank /\ DOMAIN outBuf = Rank /\ DOMAIN logits = Rank

InvLayout == \A r \in Rank : pc[r] # "construct" => layout[r] = Layout(r)

InvAttention ==
  \A r \in Rank : Past(r, "attention") =>
     /\ attnOut[r] = [resid |-> r = 0, heads |-> Terms(Layout(r), r)]
     /\ \A h \in Copied(Layout(r)) : cache[r][h] = Layout(r).startKVHead + h

InvFeedForward ==
  \A r \in Rank : Past(r, "ffn") =>
     mlpOut[r] = [first |-> Layout(r).im[1], last |-> Layout(r).im[2], bias |-> Layout(r).imBias,
                  resid |-> r = 0]

(* The logits that rank r computes. *)
PartLogits(r) ==
  LET size == SplitSize(shape.vocabSize, shape.splits, r)
  IN [k \in 0 .. shape.rows * size - 1 |->
        <<k \div size, SplitOffset(shape.vocabSize, shape.splits, r) + (k % size)>>]

InvPredict == \A r \in Rank : Past(r, "predict") => outBuf[r] = PartLogits(r)

IInv == InvType /\ InvLayout /\ InvAttention /\ InvFeedForward /\ InvPredict /\ LogitsInPlace
=============================================================================
