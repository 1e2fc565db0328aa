----------------------------- MODULE TokenSearch -----------------------------
(***************************************************************************)
(* GreedySearch and SampleSearch (src/searchers): how one token per sample *)
(* is picked from the logits of a step, with the vocabulary split over     *)
(* ranks and the search for the largest logit split over threads, the      *)
(* penalty on tokens seen before, the end of a sample by eosTokenId or by  *)
(* a stop word, the padding of samples that ended before the others, and   *)
(* the flat output that grows by one token per sample.                     *)
(*                                                                         *)
(* The two classes differ in how a token is picked (doSample).  All ranks  *)
(* hold the same tokens, flags and output: they are one variable; what a   *)
(* rank has of its own is the set of penalised tokens of its part.         *)
(***************************************************************************)
EXTENDS Integers, FiniteSets, SequencesExt

CONSTANTS
  Configs,    \* [doSample (SampleSearch instead of GreedySearch), maxLen]
  VocabSize,
  Ranks,      \* processes the vocabulary is split over
  NumThreads, \* threads of a process
  Eos, Pad,   \* eosTokenId (-1: none) and padTokenId
  TopK,
  Penalty,    \* repetitionPenalty, 1: none
  StopWordsList, \* the set of words given to setStopWords: their order plays no part
  Inputs,     \* calls: sequences of prompts of one length
  MaxCalls,   \* bound: calls that start a generation
  LogitRows   \* logits the decoder may return for a sample

Token == 0 .. VocabSize-1
Rank  == 0 .. Ranks-1

(* DistLinear::setWeight: the part of the vocabulary of rank r. *)
Extra == VocabSize % Ranks
SplitSize(r) == VocabSize \div Ranks + (IF r < Extra THEN 1 ELSE 0)
SplitOffset(r) == (VocabSize \div Ranks) * r + (IF r < Extra THEN r ELSE Extra)

(* Threads that share the row of a sample, and how many logits each gets.  *)
ThrPerSample(batchSize) == NumThreads \div batchSize
SizePerThr(r, batchSize) ==
  (SplitSize(r) + ThrPerSample(batchSize) - 1) \div ThrPerSample(batchSize)

ASSUME SearchAssumption ==
  /\ VocabSize \in Nat /\ Ranks \in Nat \ {0} /\ Ranks <= VocabSize
  /\ NumThreads \in Nat
  /\ Penalty \in Nat \ {0}
  /\ LogitRows \subseteq [Token -> Int]
  /\ TopK \in Nat
  (* partial_sort is given TopK logits of each rank *)
  /\ \A c \in Configs : c.doSample => TopK \in 2 .. VocabSize \div Ranks
(* The constructor takes eosTokenId for a missing padTokenId. *)
ASSUME EndAssumption == {Eos, Pad} \subseteq Token \cup {-1} /\ (Eos # -1 => Pad # -1)
ASSUME InputAssumption ==
  /\ StopWordsList \subseteq Seq(Int)
  /\ \A p \in Inputs : /\ p \in Seq(Seq(Token)) \ {<<>>}
                      /\ \A b \in DOMAIN p : Len(p[b]) = Len(p[1])
(* "if sampleSize is small, possible to cause out of boundary": it is not  *)
(* that small, every thread has a logit to start with.                     *)
ASSUME ThreadsAssumption ==
  \A p \in Inputs : \A r \in Rank :
    ThrPerSample(Len(p)) >= 2 =>
      (ThrPerSample(Len(p)) - 1) * SizePerThr(r, Len(p)) < SplitSize(r)

VARIABLES
  config,         \* the searcher's configuration
  prompts,        \* input of the running generation
  calls,          \* generations begun
  step, curLen,
  output,         \* all rows one after the other
  nextTokens,
  doneBatch,      \* 0: running, -1: stop word found, 1: ended
  stopWordsIndex, \* stopWordsIndex[w][b]: words of w matched
  cachedRepetVec, \* cachedRepetVec[r][b]: tokens of rank r's part seen in sample b
  logits          \* what the decoder returned in the last step

vars == <<config, prompts, calls, step, curLen, output, nextTokens, doneBatch, stopWordsIndex,
          cachedRepetVec, logits>>

(* setStopWords *)
StopWords == StopWordsList \ {<<Eos>>}

Init ==
  /\ config \in Configs
  /\ prompts = <<>> /\ calls = 0
  /\ step = 0 /\ curLen = 0
  /\ output = <<>> /\ nextTokens = <<>> /\ doneBatch = <<>>
  /\ stopWordsIndex = <<>>
  /\ cachedRepetVec = [r \in Rank |-> <<>>]
  /\ logits = <<>>

-----------------------------------------------------------------------------
(* Variant of PromptVec, for mutation: tokens of other ranks are kept.     *)
PromptVecAll(r, prompt) == {t - SplitOffset(r) : t \in {x \in ToSet(prompt) : x >= SplitOffset(r)}}

(* repetitionPenaltyLogitsProcess, first step: the tokens of the prompt    *)
(* strictly between the ends of the part of rank r.  (With a penalty of 1  *)
(* it is not called, and the tokens are not looked at.)                    *)
PromptVec(r, prompt) ==
  IF Ranks > 1
  THEN {t - SplitOffset(r) : t \in ToSet(prompt) \cap SplitOffset(r)+1 .. SplitOffset(r)+SplitSize(r)-1}
  ELSE ToSet(prompt)

(* Later steps: the last token is added. *)
GrownVec(r, b) ==
  cachedRepetVec[r][b] \cup
    {t - SplitOffset(r) : t \in {nextTokens[b]} \cap SplitOffset(r) .. SplitOffset(r)+SplitSize(r)-1}

Penalised(v) == IF v < 0 THEN v * Penalty ELSE v \div Penalty

(* outBuf of rank r for a sample with logits row, as pairs <<logit, id>>.  *)
OutBuf(r, row, vec) ==
  {<<IF Penalty # 1 /\ k \in vec THEN Penalised(row[SplitOffset(r) + k]) ELSE row[SplitOffset(r) + k], k>> :
     k \in 0 .. SplitSize(r)-1}

(* A scan in the order of the ids keeps the first of the largest. *)
Scan(S) == CHOOSE p \in S : \A q \in S : q[1] < p[1] \/ (q[1] = p[1] /\ p[2] <= q[2])

(* Variant of ThreadMax, for mutation: a thread stops one logit early.     *)
ThreadMaxShort(r, buf, batchSize) ==
  LET size == SizePerThr(r, batchSize)
  IN  Scan({Scan({p \in buf : p[2] = t * size \/ p[2] \in t * size .. (t+1) * size - 2}) :
              t \in 0 .. ThrPerSample(batchSize)-1})

(* The row split over threads, then a scan of what the threads have found. *)
ThreadMax(r, buf, batchSize) ==
  LET size == SizePerThr(r, batchSize)
  IN  Scan({Scan({p \in buf : p[2] \in t * size .. (t+1) * size - 1}) :
              t \in 0 .. ThrPerSample(batchSize)-1})

LocalMax(r, buf, batchSize) ==
  IF ThrPerSample(batchSize) >= 2 THEN ThreadMax(r, buf, batchSize) ELSE Scan(buf)

(* Variant of Global, for mutation: ids of the part. *)
GlobalUnshifted(r, S) == S

(* Ids of the whole vocabulary, as the ranks send them with allgatherv.    *)
Global(r, S) == {<<p[1], p[2] + SplitOffset(r)>> : p \in S}

(* GreedySearch::search: a scan of what the ranks have found. *)
MaxId(row, vec, batchSize) ==
  Scan(UNION {Global(r, {LocalMax(r, OutBuf(r, row, vec[r]), batchSize)}) : r \in Rank})[2]

(* The n greatest; of equal logits, those with the greater id. *)
Greatest(n, S) ==
  LET Above(p) == {q \in S : q[1] > p[1] \/ (q[1] = p[1] /\ q[2] > p[2])}
  IN  {p \in S : Cardinality(Above(p)) < n}

(* SampleSearch::sample: the TopK of each rank, then the TopK of these.    *)
TopKIds(row, vec) ==
  {p[2] : p \in Greatest(TopK, UNION {Global(r, Greatest(TopK, OutBuf(r, row, vec[r]))) : r \in Rank})}

(* Tokens that may be picked for a sample.  The TopP cut keeps two or more *)
(* of the TopK, which of these is drawn is random, and when rounding keeps *)
(* the sum of the probabilities below the random number the entry of       *)
(* nextTokens stays as it was.                                             *)
Picks(b, row, vec, batchSize) ==
  IF config.doSample
  THEN TopKIds(row, vec) \cup {IF b <= Len(nextTokens) THEN nextTokens[b] ELSE 0}
  ELSE {MaxId(row, vec, batchSize)}

-----------------------------------------------------------------------------
(* Variant of EndToken, for mutation: no eosTokenId after a stop word.     *)
EndTokenPad(done, t) == IF Eos # -1 /\ done # 0 THEN Pad ELSE t

(* The token that goes to the output. *)
EndToken(done, t) ==
  CASE Eos = -1 \/ done = 0 -> t
    [] Eos # -1 /\ done > 0 -> Pad
    [] Eos # -1 /\ done < 0 -> Eos

EndFlag(done, t) == IF Eos # -1 /\ (done < 0 \/ (done = 0 /\ t = Eos)) THEN 1 ELSE done

(* Variant of Matched, for mutation: a mismatch does not start again.      *)
MatchedKept(word, n, t) == IF n < Len(word) /\ word[n+1] = t THEN n + 1 ELSE n

(* stopWordsCheck: words of word matched after token t. *)
Matched(word, n, t) ==
  IF n < Len(word) THEN (IF word[n+1] = t THEN n + 1 ELSE 0) ELSE n

(* Flags and indices after the tokens toks, flags being done. *)
StopWordsCheck(done, index, toks) ==
  /\ stopWordsIndex' = [w \in StopWords |-> [b \in DOMAIN toks |->
       IF done[b] = 0 THEN Matched(w, index[w][b], toks[b]) ELSE index[w][b]]]
  /\ doneBatch' = [b \in DOMAIN toks |->
       IF done[b] = 0 /\ \E w \in StopWords : Matched(w, index[w][b], toks[b]) = Len(w)
       THEN -1 ELSE done[b]]

(* Variant of Insert, for mutation: the place before the row has grown.    *)
InsertEarly(out, toks, len) ==
  LET insert[b \in 0 .. Len(toks)] == IF b = 0 THEN out ELSE InsertAt(insert[b-1], b * (len - 1), toks[b])
  IN  insert[Len(toks)]

(* A token is inserted at the end of every row of the flat output. *)
Insert(out, toks, len) ==
  LET insert[b \in 0 .. Len(toks)] == IF b = 0 THEN out ELSE InsertAt(insert[b-1], b * len, toks[b])
  IN  insert[Len(toks)]

(* The ids of a call, row after row, as they come in and are copied to the *)
(* output.                                                                 *)
Ids(p, len) == [i \in 1 .. Len(p) * len |-> p[((i-1) \div len) + 1][((i-1) % len) + 1]]

(* From the logits rows to the end of getNextToken; done, index, vec, out  *)
(* and len are the values before the step.                                 *)
Search(rows, done, index, vec, out, len) ==
  \E picks \in {[b \in DOMAIN rows |->
                   Picks(b, rows[b], [r \in Rank |-> vec[r][b]], Len(rows))]} :
  \E picked \in {f \in [DOMAIN rows -> Token] : \A b \in DOMAIN rows : f[b] \in picks[b]} :
    LET toks == [b \in DOMAIN rows |-> EndToken(done[b], picked[b])] IN
    /\ logits' = rows
    /\ nextTokens' = toks
    /\ StopWordsCheck([b \in DOMAIN rows |-> EndFlag(done[b], picked[b])], index, toks)
    /\ cachedRepetVec' = vec
    /\ curLen' = len + 1
    /\ output' = Insert(out, toks, len + 1)
    /\ UNCHANGED config

(* getNextToken(ids, batchSize, seqLen) *)
GetFirstToken(p) ==
  /\ calls < MaxCalls
  /\ calls' = calls + 1
  /\ prompts' = p
  /\ step' = 1
  /\ \E rows \in [DOMAIN p -> LogitRows] :
       Search(rows, [b \in DOMAIN p |-> 0],
              [w \in StopWords |-> [b \in DOMAIN p |-> 0]],
              [r \in Rank |-> [b \in DOMAIN p |-> PromptVec(r, p[b])]],
              Ids(p, Len(p[1])), Len(p[1]))

IsDone ==
  /\ step # 0
  /\ curLen >= config.maxLen \/ \A b \in DOMAIN doneBatch : doneBatch[b] > 0

(* getNextToken(); the client asks isDone() first. *)
GetNextToken ==
  /\ step # 0 /\ ~IsDone
  /\ step' = step + 1
  /\ UNCHANGED <<prompts, calls>>
  /\ \E rows \in [DOMAIN prompts -> LogitRows] :
       Search(rows, doneBatch, stopWordsIndex,
              [r \in Rank |-> [b \in DOMAIN prompts |-> GrownVec(r, b)]],
              output, curLen)

Next == GetNextToken \/ \E p \in Inputs : GetFirstToken(p)

Spec == Init /\ [][Next]_vars

-----------------------------------------------------------------------------
SeqLen == Len(prompts[1])
Row(b) == SubSeq(output, (b-1) * curLen + 1, b * curLen)
Generated(b) == SubSeq(Row(b), SeqLen + 1, curLen)

(* Types, and one flag, one index and one token per sample. *)
TypeOK ==
  /\ config \in Configs /\ calls \in Nat /\ step \in Nat /\ curLen \in Nat
  /\ prompts \in Inputs \cup {<<>>} /\ (prompts = <<>> <=> step = 0)
  /\ nextTokens \in [DOMAIN prompts -> Token]
  /\ doneBatch \in [DOMAIN prompts -> {-1, 0, 1}]
  /\ step # 0 => /\ stopWordsIndex \in [StopWords -> [DOMAIN prompts -> Nat]]
                 /\ \A w \in StopWords : \A b \in DOMAIN prompts : stopWordsIndex[w][b] <= Len(w)
                 /\ \A r \in Rank : \A b \in DOMAIN prompts :
                      cachedRepetVec[r][b] \subseteq 0 .. SplitSize(r)-1
  /\ output \in Seq(Token) /\ Len(output) = Len(prompts) * curLen

(* syncToken: inserting into the flat output one row after the other gives *)
(* each row its own token at the end and leaves the rest of it alone.      *)
RowsGrow ==
  [][LET before(b) == IF calls' # calls THEN prompts'[b] ELSE Row(b)
     IN  \A b \in DOMAIN prompts' : Row(b)' = Append(before(b), nextTokens'[b])]_vars

(* search, sample: a sample that runs has produced no eosTokenId; one that *)
(* has ended has it once, after a stop word or as a token of its own, and  *)
(* nothing but padding after it: over two generations of different batch   *)
(* sizes, nothing of the first shows in the second.                        *)
Shaped(g, done) ==
  /\ done # 1 => Eos \notin ToSet(g)
  /\ done = 1 => \E k \in DOMAIN g :
       /\ g[k] = Eos
       /\ \A j \in 1 .. k-1 : g[j] # Eos
       /\ \A j \in k+1 .. Len(g) : g[j] = Pad
OutputShape == Eos # -1 => \A b \in DOMAIN prompts : Shaped(Generated(b), doneBatch[b])

(* stopWordsCheck: a sample is marked only at the end of a stop word (and  *)
(* stays so when there is no eosTokenId to end it with), and a stop word   *)
(* that comes after a token foreign to it, or first of all, is never       *)
(* passed over.                                                            *)
At(g, w, k) == SubSeq(g, k + 1, k + Len(w)) = w
Clear(g, w, k) == k = 0 \/ g[k] \notin ToSet(w)
MarkedRightly(g, done) ==
  done = -1 => \E w \in StopWords : \E k \in 0 .. Len(g) - Len(w) :
                 At(g, w, k) /\ (Eos # -1 => k = Len(g) - Len(w))
NonePassed(g, done, w) ==
  done = 0 => \A k \in 0 .. Len(g) - Len(w) : ~(At(g, w, k) /\ Clear(g, w, k))
StopWordsFound ==
  \A b \in DOMAIN prompts :
    /\ MarkedRightly(Generated(b), doneBatch[b])
    /\ \A w \in StopWords : NonePassed(Generated(b), doneBatch[b], w)

(* What one process without threads would do: the tokens of a row so far   *)
(* are penalised, whatever their place in the vocabulary.                  *)
PenalisedRow(row, seen) ==
  {<<IF Penalty # 1 /\ t \in seen THEN Penalised(row[t]) ELSE row[t], t>> : t \in Token}

SeenBefore(b) == IF calls' # calls THEN ToSet(prompts'[b]) ELSE ToSet(Row(b))
Running(b)    == calls' # calls \/ doneBatch[b] = 0

(* GreedySearch: split over ranks and threads, the token of a running      *)
(* sample is the first of those with the largest penalised logit.          *)
TokenIsBest ==
  [][~config.doSample => \A b \in DOMAIN prompts' : Running(b) =>
       nextTokens'[b] = Scan(PenalisedRow(logits'[b], SeenBefore(b)))[2]]_vars

(* SampleSearch: the token is one of the TopK of the whole vocabulary, or  *)
(* the one of the step before.                                             *)
TokenInTopK ==
  [][config.doSample => \A b \in DOMAIN prompts' : Running(b) =>
       \/ nextTokens'[b] \in {p[2] : p \in Greatest(TopK, PenalisedRow(logits'[b], SeenBefore(b)))}
       \/ nextTokens'[b] = IF b <= Len(nextTokens) THEN nextTokens[b] ELSE 0]_vars

-----------------------------------------------------------------------------
(* The inductive invariant: OutputShape and StopWordsFound say how a row   *)
(* looks, and what is left to say is where a row stands in the output and  *)
(* how far each stop word has been matched.                                *)
InvRows ==
  step # 0 => /\ curLen > SeqLen
              /\ \A b \in DOMAIN prompts : Row(b)[curLen] = nextTokens[b]

(* n words of w are matched by the end of g; and no other number is, if a  *)
(* token foreign to w comes before them.                                   *)
EndsIn(g, w, n) == n \in 0 .. Len(g) /\ \A i \in 1 .. n : g[Len(g) - n + i] = w[i]
Tracked(g, done, w, n) ==
  done = 0 => /\ n < Len(w) /\ EndsIn(g, w, n)
              /\ \A m \in 0 .. Len(w) : EndsIn(g, w, m) /\ Clear(g, w, Len(g) - m) => n = m
InvTracked ==
  \A b \in DOMAIN prompts : \A w \in StopWords :
    Tracked(Generated(b), doneBatch[b], w, stopWordsIndex[w][b])

IInv == TypeOK /\ InvRows /\ OutputShape /\ StopWordsFound /\ InvTracked

(* What the next step penalises in the part of rank r are the tokens of    *)
(* the row, unless a prompt has the first token of a part, which           *)
(* upper_bound leaves out.                                                 *)
EdgesUnused ==
  Ranks > 1 => \A p \in Inputs : \A b \in DOMAIN p : \A r \in Rank : SplitOffset(r) \notin ToSet(p[b])
InvSeen ==
  step # 0 => \A r \in Rank : \A b \in DOMAIN prompts : \A k \in 0 .. SplitSize(r)-1 :
    k \in GrownVec(r, b) <=> SplitOffset(r) + k \in ToSet(Row(b))
=============================================================================
