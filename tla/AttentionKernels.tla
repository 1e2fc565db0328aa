-------------------------- MODULE AttentionKernels --------------------------
(***************************************************************************)
(* The attention of one layer on the OpenMP threads of a process: which    *)
(* kernel runs (src/layers/attention.h), and the kernels themselves        *)
(* (src/kernels/attention_kernels.h, src/utils/decoder_util.h):            *)
(*   slimAttention         a head at a time, keys and values in the cache  *)
(*   crossAttnByHead       the same for continuous batching; one head of a *)
(*                         group stores keys and values for the others     *)
(*   crossAttnShardedHead  the keys of a head shared out among threads,    *)
(*                         merged by the first of them, which spins on the *)
(*                         flags of the others                             *)
(*   selfScaledDpAttention long prompts, tile after tile                   *)
(*                                                                         *)
(* exp is 2^x: scores are small integers, and Exp(d), in units of 1/Scale, *)
(* is exact.  A quotient is a pair <<numerator, denominator>>.  The value  *)
(* of key j is the j-th unit vector, so that the output of a query is the  *)
(* weight of each key.  Stores of a thread are seen in program order, as   *)
(* they are on x86.                                                        *)
(***************************************************************************)
EXTENDS Integers, SequencesExt, FiniteSetsExt

CONSTANTS
  Calls,       \* calls of the attention, see CallAssumption
  Threads,     \* ctx->numThreads, the size of an OpenMP team
  FlashThresh, \* getFlashThresh()
  SrcBlk, TgtBlk,  \* the limits 256 and 512 of a tile
  Span         \* no two scores of a head differ by more

(* batching: the call is of the path for continuous batching; heads: heads *)
(* of queries, groupNum to a head of keys and values; score: the products  *)
(* of queries and stored keys, before the scales of int8 keys are applied. *)
ASSUME CallAssumption ==
  \A c \in Calls :
    /\ c.batching \in BOOLEAN /\ {c.heads, c.groupNum, c.input} \subseteq Nat \ {0} /\ c.past \in Nat
    /\ c.heads % c.groupNum = 0
    /\ c.score # <<>> /\ c.scale # <<>>
ASSUME SizeAssumption == {Threads, SrcBlk, TgtBlk, FlashThresh} \subseteq Nat \ {0} /\ Span \in Nat

Thread == 0 .. Threads-1
Scale == 2^Span
Lowest == -1000          \* numeric_limits<float>::lowest()
Exp(d) == IF d < -Span THEN 0 ELSE 2^(Span + d)

VARIABLES
  call,        \* the call that runs
  todo,        \* todo[th]: tasks that the static schedule gives to thread th
  pool,        \* tasks of a dynamic schedule that no thread has taken
  pc, task,    \* of each thread
  keys, vals,  \* keys[g], vals[g]: positions that the cache of kv head g holds
  splitInfo,   \* splitInfo[t]: max, sum and flag of task t
  tmpBuf,      \* tmpBuf[t]: weights within the keys of task t
  local,       \* thread-private values
  output       \* output[h][r]: weights of the keys for query r of head h

vars == <<call, todo, pool, pc, task, keys, vals, splitInfo, tmpBuf, local, output>>

KeyLen == call.past + call.input
KVHeadOf(h) == h \div call.groupNum
RawScore(h, r, j) == call.score[((h + r + j) % Len(call.score)) + 1]
ScaleAt(j) == call.scale[(j % Len(call.scale)) + 1]
Score(h, r, j) == RawScore(h, r, j) * ScaleAt(j)

-----------------------------------------------------------------------------
(* Which kernel a call takes. *)
IsFlash(c) == c.past = 0 /\ c.input > FlashThresh
ShardHead(c) == c.input = 1 /\ Threads >= c.heads * 2
Kernel(c) == CASE IsFlash(c) -> "flash"
               [] ~IsFlash(c) /\ c.batching -> "byHead"
               [] ~IsFlash(c) /\ ~c.batching /\ ShardHead(c) -> "sharded"
               [] OTHER -> "slim"

(* fusedAttention: keys and values are copied to the cache before the      *)
(* heads are computed, or by each head for itself (a prompt is one block   *)
(* of rows here).                                                          *)
KvCopied(c) == c.groupNum > 1 \/ ShardHead(c)
StoredFirst(c) == Kernel(c) = "sharded" \/ (Kernel(c) = "slim" /\ KvCopied(c))

(* Variant of Splits, for mutation: rounded up. *)
SplitsUp(c) == (Threads + c.heads - 1) \div c.heads

(* crossAttnShardedHead gives every head this many threads; the keys of a  *)
(* head are shared out by balance211.                                      *)
Splits(c) == Threads \div c.heads
Balance211(n, team, tid) ==
  LET n1 == (n + team - 1) \div team
      n2 == n1 - 1
      T1 == n - n2 * team
  IN  IF team <= 1 \/ n = 0 THEN [start |-> 0, mine |-> n]
      ELSE [start |-> IF tid <= T1 THEN tid * n1 ELSE T1 * n1 + (tid - T1) * n2,
            mine  |-> IF tid < T1 THEN n1 ELSE n2]

(* The tile of selfScaledDpAttention: the power of 2 that half the prompt  *)
(* holds, at most SrcBlk.                                                  *)
Tile(c) ==
  LET half == c.input \div 2
  IN  Min({SrcBlk, CHOOSE p \in {2^e : e \in 0 .. half} : p <= half /\ 2 * p > half})

(* A task is a record; head is the head it works for, sub its split or the *)
(* first row of its tile.  The loops run over the tasks in this order.     *)
Order(c) ==
  LET subs == CASE Kernel(c) = "sharded" -> [k \in 1 .. Splits(c) |-> k - 1]
                [] Kernel(c) = "flash" ->
                     [k \in 1 .. (c.input + Tile(c) - 1) \div Tile(c) |-> (k - 1) * Tile(c)]
                [] OTHER -> <<0>>
  IN  [k \in 1 .. c.heads * Len(subs) |->
         [head |-> (k - 1) \div Len(subs), sub |-> subs[((k - 1) % Len(subs)) + 1]]]
Tasks(c) == ToSet(Order(c))

(* omp parallel for, static: contiguous parts, the first ones larger. *)
StaticPart(seq, th) ==
  LET q == Len(seq) \div Threads
      r == Len(seq) % Threads
      from == IF th < r THEN th * (q + 1) ELSE th * q + r
  IN  SubSeq(seq, from + 1, from + (IF th < r THEN q + 1 ELSE q))

Begin(c) ==
  LET old == [g \in 0 .. (c.heads \div c.groupNum) - 1 |->
                0 .. (IF StoredFirst(c) THEN c.past + c.input ELSE c.past) - 1]
      order == Order(c)
  IN  /\ call' = c
      /\ todo' = [th \in Thread |-> IF Kernel(c) = "flash" THEN <<>> ELSE StaticPart(order, th)]
      /\ pool' = IF Kernel(c) = "flash" THEN order ELSE <<>>
      /\ keys' = old /\ vals' = old
      /\ splitInfo' = [t \in Tasks(c) |-> [max |-> 0, sum |-> 0, flag |-> 0]]
      /\ tmpBuf' = [t \in Tasks(c) |-> <<>>]
      /\ output' = [h \in 0 .. c.heads-1 |-> [r \in 0 .. c.input-1 |-> <<>>]]

Returned == (\A th \in Thread : pc[th] = "idle" /\ todo[th] = <<>>) /\ pool = <<>>

Init ==
  /\ call \in Calls
  /\ todo = [th \in Thread |-> <<>>] /\ pool = <<>>
  /\ pc = [th \in Thread |-> "idle"]
  /\ task = [th \in Thread |-> [head |-> 0, sub |-> 0]]
  /\ local = [th \in Thread |-> <<>>]
  /\ keys = <<>> /\ vals = <<>> /\ splitInfo = <<>> /\ tmpBuf = <<>> /\ output = <<>>

(* flashAttention copies to the cache once the kernel has returned. *)
FillCache ==
  /\ Returned /\ Kernel(call) = "flash"
  /\ \E g \in DOMAIN keys : keys[g] # 0 .. KeyLen-1
  /\ keys' = [g \in DOMAIN keys |-> 0 .. KeyLen-1] /\ vals' = keys'
  /\ UNCHANGED <<call, todo, pool, pc, task, splitInfo, tmpBuf, local, output>>

NewCall(c) ==
  /\ Returned /\ \A g \in DOMAIN keys : keys[g] = 0 .. KeyLen-1
  /\ Begin(c)
  /\ UNCHANGED <<pc, task, local>>

(* A thread takes its next task. *)
Start == CASE Kernel(call) = "flash" -> "reset"
           [] Kernel(call) = "sharded" -> "scores"
           [] OTHER -> "storeK"
Take(th) ==
  /\ pc[th] = "idle"
  /\ \/ /\ todo[th] # <<>>
        /\ task' = [task EXCEPT ![th] = Head(todo[th])]
        /\ todo' = [todo EXCEPT ![th] = Tail(@)]
        /\ UNCHANGED pool
     \/ /\ pool # <<>>
        /\ task' = [task EXCEPT ![th] = Head(pool)]
        /\ pool' = Tail(pool)
        /\ UNCHANGED todo
  /\ pc' = [pc EXCEPT ![th] = Start]
  /\ UNCHANGED <<call, keys, vals, splitInfo, tmpBuf, local, output>>

Goto(th, l) == pc' = [pc EXCEPT ![th] = l]
Rest == <<call, todo, pool, task>>

-----------------------------------------------------------------------------
(* slimAttention and crossAttnByHead.  A head that stores the new keys and *)
(* values reads all of them from the cache; in crossAttnByHead the other   *)
(* heads of its group take the past ones from the cache and the new ones   *)
(* from the input, so as not to wait for it.                               *)
Stores(h) == IF Kernel(call) = "byHead" THEN h % call.groupNum = 0 ELSE ~KvCopied(call)
FromInput(h, j) == Kernel(call) = "byHead" /\ ~Stores(h) /\ j >= call.past
Filled(cache, h) == IF Stores(h) THEN [cache EXCEPT ![KVHeadOf(h)] = 0 .. KeyLen-1] ELSE cache
Readable(cache, h, j) == FromInput(h, j) \/ j \in cache[KVHeadOf(h)]

Stale == 50              \* the score of a key that is not there yet
Visible(r) == 0 .. call.past + r

(* Softmax of the scores sc[j]. *)
Highest(sc) == Max(Range(sc) \cup {Lowest})
ExpOf(sc, mx) == [j \in DOMAIN sc |-> Exp(sc[j] - mx)]
Over(e, sum) == [j \in DOMAIN e |-> <<e[j], sum>>]
Softmax(sc) == LET e == ExpOf(sc, Highest(sc)) IN Over(e, SumFunction(e))

StoreK(th) ==
  /\ pc[th] = "storeK"
  /\ keys' = Filled(keys, task[th].head)
  /\ Goto(th, "qk")
  /\ UNCHANGED <<Rest, vals, splitInfo, tmpBuf, local, output>>

QK(th) ==
  LET h == task[th].head
      sc(r, j) == IF Readable(keys, h, j) THEN Score(h, r, j) ELSE Stale
  IN  /\ pc[th] = "qk"
      /\ local' = [local EXCEPT ![th] =
                     [r \in 0 .. call.input-1 |-> Softmax([j \in Visible(r) |-> sc(r, j)])]]
      /\ Goto(th, "storeV")
      /\ UNCHANGED <<Rest, keys, vals, splitInfo, tmpBuf, output>>

StoreV(th) ==
  /\ pc[th] = "storeV"
  /\ vals' = Filled(vals, task[th].head)
  /\ Goto(th, "sv")
  /\ UNCHANGED <<Rest, keys, splitInfo, tmpBuf, local, output>>

SV(th) ==
  LET h == task[th].head
      there(r) == {j \in Visible(r) : Readable(vals, h, j)}
  IN  /\ pc[th] = "sv"
      /\ output' = [output EXCEPT ![h] =
                      [r \in 0 .. call.input-1 |-> [j \in there(r) |-> local[th][r][j]]]]
      /\ local' = [local EXCEPT ![th] = <<>>]
      /\ Goto(th, "idle")
      /\ UNCHANGED <<Rest, keys, vals, splitInfo, tmpBuf>>

-----------------------------------------------------------------------------
(* crossAttnShardedHead.  The keys of a task begin at nOff; the scales of  *)
(* int8 keys are read from the start of the head on.                       *)
Part(t) == Balance211(KeyLen, Splits(call), t.sub)
KeysOf(t) == LET p == Part(t) IN p.start .. p.start + p.mine - 1
SplitScores(t) ==
  LET nOff == Part(t).start IN [j \in KeysOf(t) |-> RawScore(t.head, 0, j) * ScaleAt(j - nOff)]
Sibling(t, s) == [t EXCEPT !.sub = s]

(* softmaxWithStats, then the weighted values, then the flag. *)
SplitStats(th) ==
  LET t == task[th]
      sc == SplitScores(t)
  IN  /\ pc[th] = "scores"
      /\ splitInfo' = [splitInfo EXCEPT ![t].max = Highest(sc),
                                        ![t].sum = SumFunction(ExpOf(sc, Highest(sc)))]
      /\ Goto(th, "values")
      /\ UNCHANGED <<Rest, keys, vals, tmpBuf, local, output>>

SplitValues(th) ==
  LET t == task[th]
  IN  /\ pc[th] = "values"
      /\ tmpBuf' = [tmpBuf EXCEPT ![t] = Softmax(SplitScores(t))]
      /\ Goto(th, "flag")
      /\ UNCHANGED <<Rest, keys, vals, splitInfo, local, output>>

SetFlag(th) ==
  LET t == task[th]
  IN  /\ pc[th] = "flag"
      /\ splitInfo' = [splitInfo EXCEPT ![t].flag = 1]
      /\ local' = IF t.sub = 0
                  THEN [local EXCEPT ![th] = [idx |-> 1, realMax |-> splitInfo[t].max]] ELSE local
      /\ Goto(th, IF t.sub = 0 THEN "wait" ELSE "idle")
      /\ UNCHANGED <<Rest, keys, vals, tmpBuf, output>>

(* Variant of Finished, for mutation: the flag is not waited for. *)
FinishedOrNot(info) == TRUE

(* The task with the first keys spins on the flag of each of the others. *)
Finished(info) == info.flag # 0
WaitSplit(th) ==
  LET i == splitInfo[Sibling(task[th], local[th].idx)]
  IN  /\ pc[th] = "wait" /\ Finished(i)
      /\ local' = [local EXCEPT ![th] = [idx |-> @.idx + 1, realMax |-> Max({@.realMax, i.max})]]
      /\ Goto(th, IF local[th].idx + 1 < Splits(call) THEN "wait" ELSE "merge")
      /\ UNCHANGED <<Rest, keys, vals, splitInfo, tmpBuf, output>>

(* The flag becomes the factor that turns exponentials relative to the     *)
(* maximum of a split into ones relative to the maximum of the head.       *)
RevFactor(info, realMax) == Exp(info.max - realMax)
Merge(th) ==
  LET h == task[th].head
      all == {t \in DOMAIN splitInfo : t.head = h}
      rev(t) == RevFactor(splitInfo[t], local[th].realMax)
      realSum == SumFunction([t \in all |-> splitInfo[t].sum * rev(t)])
      owner(j) == CHOOSE t \in all : j \in DOMAIN tmpBuf[t]
      weight(t, j) == <<rev(t) * splitInfo[t].sum * tmpBuf[t][j][1], realSum * tmpBuf[t][j][2]>>
  IN  /\ pc[th] = "merge"
      /\ splitInfo' = [t \in DOMAIN splitInfo |->
                         IF t.head = h THEN [splitInfo[t] EXCEPT !.flag = rev(t)] ELSE splitInfo[t]]
      /\ output' = [output EXCEPT ![h][0] =
                      [j \in UNION {DOMAIN tmpBuf[t] : t \in all} |-> weight(owner(j), j)]]
      /\ local' = [local EXCEPT ![th] = <<>>]
      /\ Goto(th, "idle")
      /\ UNCHANGED <<Rest, keys, vals, tmpBuf>>

-----------------------------------------------------------------------------
(* selfScaledDpAttention: a thread keeps, for every row of its block of    *)
(* queries, the maximum, the sum of exponentials and the weights so far,   *)
(* and goes on tile by tile.                                               *)
Row0 == [max |-> Lowest, sum |-> 0, preMax |-> Lowest, preSum |-> 0, out |-> <<>>]
BlockRows(t) == 0 .. Min({Tile(call), call.input - t.sub}) - 1

Reset(th) ==
  /\ pc[th] = "reset"
  /\ local' = [local EXCEPT ![th] = [n |-> 0, row |-> [i \in BlockRows(task[th]) |-> Row0]]]
  /\ Goto(th, "tile")
  /\ UNCHANGED <<Rest, keys, vals, splitInfo, tmpBuf, output>>

(* softmaxTileCausal on query q of head h and the keys of the tile that it *)
(* may see.                                                                *)
TileKeys(q, n) == n .. Min({q, n + Min({TgtBlk, KeyLen - n}) - 1})
SoftmaxTile(st, sc) ==
  LET mx == Max({st.max, Highest(sc)})
  IN  [st EXCEPT !.max = mx, !.sum = (@ * Exp(st.max - mx)) \div Scale + SumFunction(ExpOf(sc, mx))]

(* updateOutTile: the weights so far are brought to the new maximum and    *)
(* the new sum, and those of the tile are added.                           *)
Rescaled(w, st) ==
  LET merr == Exp(st.preMax - st.max)
  IN  IF w[2] = st.preSum THEN <<(w[1] * merr) \div Scale, st.sum>>
      ELSE <<w[1] * merr * st.preSum, w[2] * Scale * st.sum>>
UpdateOutTile(st, sc) ==
  LET new == Over(ExpOf(sc, st.max), st.sum)
      old == [j \in DOMAIN st.out |-> Rescaled(st.out[j], st)]
  IN  [st EXCEPT !.out = new @@ old, !.preSum = st.sum, !.preMax = st.max]

TileStep(th) ==
  LET t == task[th]
      n == local[th].n
      step(i) == LET q == t.sub + i
                     sc == [j \in TileKeys(q, n) |-> Score(t.head, q, j)]
                 IN  UpdateOutTile(SoftmaxTile(local[th].row[i], sc), sc)
  IN  /\ pc[th] = "tile"
      /\ n < KeyLen /\ t.sub + Cardinality(BlockRows(t)) - 1 >= n
      /\ local' = [local EXCEPT ![th] = [n |-> n + TgtBlk, row |-> [i \in BlockRows(t) |-> step(i)]]]
      /\ UNCHANGED <<Rest, pc, keys, vals, splitInfo, tmpBuf, output>>

TileEnd(th) ==
  LET t == task[th]
      n == local[th].n
  IN  /\ pc[th] = "tile"
      /\ n >= KeyLen \/ t.sub + Cardinality(BlockRows(t)) - 1 < n
      /\ output' = [output EXCEPT ![t.head] = [r \in DOMAIN @ |->
                      IF r - t.sub \in BlockRows(t) THEN local[th].row[r - t.sub].out ELSE @[r]]]
      /\ local' = [local EXCEPT ![th] = <<>>]
      /\ Goto(th, "idle")
      /\ UNCHANGED <<Rest, keys, vals, splitInfo, tmpBuf>>

-----------------------------------------------------------------------------
Step(th) ==
  \/ Take(th)
  \/ StoreK(th) \/ QK(th) \/ StoreV(th) \/ SV(th)
  \/ SplitStats(th) \/ SplitValues(th) \/ SetFlag(th) \/ WaitSplit(th) \/ Merge(th)
  \/ Reset(th) \/ TileStep(th) \/ TileEnd(th)

Next == (\E c \in Calls : NewCall(c)) \/ FillCache \/ (\E th \in Thread : Step(th))

(* The threads of a team run until they have done their tasks: weak        *)
(* fairness of Step(th), with ENABLED Step(th) written out.                *)
Ready(th) == IF pc[th] = "idle" THEN todo[th] # <<>> \/ pool # <<>>
             ELSE pc[th] = "wait" => Finished(splitInfo[Sibling(task[th], local[th].idx)])
Fairness == \A th \in Thread : []<>~Ready(th) \/ []<><<Step(th)>>_vars
Spec == Init /\ [][Next]_vars /\ Fairness

(* When the kernel has returned, every query of every head has weighted    *)
(* the keys up to its own by the softmax of its scores, each key once,     *)
(* whatever the order of the threads was, whichever of them stored the     *)
(* keys and values, and however the keys were shared out or tiled; and the *)
(* cache holds the new keys and values.                                    *)
WeightsTrue ==
  Returned =>
    /\ \A h \in DOMAIN output : \A r \in DOMAIN output[h] :
         LET w == output[h][r]
             top == Max({Score(h, r, j) : j \in Visible(r)})
             e == [j \in Visible(r) |-> Exp(Score(h, r, j) - top)]
             sum == SumFunction(e)
         IN  /\ DOMAIN w = Visible(r)
             /\ \A j \in Visible(r) : w[j][1] * sum = e[j] * w[j][2]
    /\ Kernel(call) # "flash" =>
         \A g \in DOMAIN keys : keys[g] = 0 .. KeyLen-1 /\ vals[g] = 0 .. KeyLen-1

(* Every call of the attention returns: the thread that merges the splits  *)
(* of a head never spins for a task that has no thread to run it.          *)
EveryCallReturns == []<>Returned
=============================================================================
