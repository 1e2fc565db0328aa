--------------------------- MODULE CommonDecoder ---------------------------
(***************************************************************************)
(* CommonDecoder::forward(ids, dims, step), prefix sharing, and the        *)
(* HybridModel that runs step 0 on one decoder and the other steps on a    *)
(* second one (src/models/common_decoder.h, hybrid_model.h).               *)
(*                                                                         *)
(* The data is provenance.  A token is a number; what one layer computes   *)
(* for a token is an entry: its key, the pair <<token, position>>, and the *)
(* keys that the attention let flow into it, by their place in the cache.  *)
(* The KV cache holds entries, and a row of the logits is the entry of the *)
(* token it follows.                                                       *)
(* One layer stands for all of them: each repeats the same calls on a      *)
(* cache of its own.  KVCacheTensor has the moves of expandCache and       *)
(* reorder in detail; here they are whole.                                 *)
(***************************************************************************)
EXTENDS Integers, Sequences

CONSTANTS
  MaxPositions,
  HiddenSize, VocabSize,
  Models,      \* [hybrid, learned]; learned: positions are embedded, as OptDecoder does
  Shapes,      \* [bs, beams, len] of the inputs, len counted without the prefix
  SharedPrefixes  \* prefixes that a client shares

ASSUME SizeAssumption == MaxPositions \in Nat /\ {HiddenSize, VocabSize} \subseteq Nat \ {0}
ASSUME ShapeAssumption == \A s \in Shapes : {s.bs, s.beams, s.len} \subseteq Nat \ {0}
ASSUME ModelAssumption == Models \subseteq [hybrid : BOOLEAN, learned : BOOLEAN]
ASSUME PrefixAssumption == SharedPrefixes \subseteq Seq(Int) \ {<<>>}

VARIABLES
  model,
  dec,           \* dec[d]: prefixSharing, prefixSeqLen, initSeqLen, accSeqLen of a decoder
  cache,         \* cache[b][i]: entry of row b at sequence position i
  prefixCache,   \* prefixCache[i]: entry at position i of the prefix cache
  actBuffers,    \* floats allocated
  used,          \* floats that the last forward has written, from the start of actBuffers
  logits,        \* rows the last forward has returned
  all,           \* the last forward was asked for the logits of every token
  shape, step,   \* of the generation that runs
  seqs,          \* seqs[b]: tokens of row b, as the searcher has them
  prefix,        \* the prefix the client has set
  phase          \* "idle", "search" (logits returned) or "forward" (next tokens chosen)

decoderVars == <<dec, cache, prefixCache, actBuffers>>
clientVars == <<shape, step, seqs, prefix, phase>>
vars == <<model, decoderVars, used, logits, all, clientVars>>

Decoders == {"first", "next"}
Position == 0 .. MaxPositions-1
NoEntry == [key |-> <<>>, sees |-> <<>>]  \* nothing this generation has written
Empty == [i \in Position |-> NoEntry]
Rows == 0 .. shape.bs * shape.beams - 1
Biggest(x, y) == IF x >= y THEN x ELSE y

(* The decoder that runs a step. *)
Running == IF model.hybrid /\ step > 0 THEN "next" ELSE "first"

Init ==
  /\ model \in Models
  /\ dec = [d \in Decoders |->
              [prefixSharing |-> FALSE, prefixSeqLen |-> 0, initSeqLen |-> 0, accSeqLen |-> 0]]
  /\ cache = <<>> /\ prefixCache = Empty
  /\ actBuffers = 0 /\ used = 0
  /\ logits = <<>> /\ all = FALSE
  /\ shape = [bs |-> 0, beams |-> 0, len |-> 0] /\ step = 0
  /\ seqs = <<>> /\ prefix = <<>>
  /\ phase = "idle"

-----------------------------------------------------------------------------
(* Variant of LogitsLen, for mutation: room for one beam of a sample. *)
LogitsLenOneBeam(batchSize, s, logitsAll) == IF logitsAll THEN batchSize * s.len ELSE s.bs

(* prepareBuffers: the rows, of hiddenSize floats, that activations and    *)
(* results take; the buffer never shrinks.                                 *)
LogitsLen(batchSize, s, logitsAll) == IF logitsAll THEN batchSize * s.len ELSE s.bs * s.beams
OutRows(actRows, logitsLen) ==
  IF logitsLen * VocabSize > actRows * HiddenSize
  THEN (logitsLen * VocabSize) \div HiddenSize + 1 ELSE actRows
Resized(actRows, logitsLen) ==
  Biggest(actBuffers, (actRows + OutRows(actRows, logitsLen)) * HiddenSize)

(* Floats of embBuf, and of outBuf behind it, which holds activations and  *)
(* then the logits.                                                        *)
Extent(actRows, logitRows) ==
  actRows * HiddenSize + Biggest(actRows * HiddenSize, logitRows * VocabSize)

(* The position of the t-th of the tokens given to embeddingForward: added *)
(* there by OptDecoder, which takes the tokens for one sequence, or else   *)
(* by the attention, from pastSeqLen on for each row.                      *)
EmbeddingPast(d) == IF d.accSeqLen = 0 /\ d.prefixSharing THEN d.prefixSeqLen ELSE d.accSeqLen
PositionOf(d, pastSeqLen, inputSeqLen, t) ==
  IF model.learned THEN EmbeddingPast(d) + t ELSE pastSeqLen + (t % inputSeqLen)

(* Variant of MaskStep, for mutation: a shared prefix is not looked at. *)
MaskStepPlain(d, s) == s

(* prepareAttnMask: TRUE where the mask is 0.  The mask is one array of    *)
(* float, written with a stride that depends on the step it is given, and  *)
(* read by the attention with the number of keys as stride.                *)
MaskStep(d, s) == s + (IF d.prefixSharing THEN 1 ELSE 0)
AttnMask(s, batchSize, seqLen, accSeqLen) ==
  LET stride  == IF s = 0 THEN seqLen ELSE accSeqLen
      pastLen == stride - seqLen
  IN  [k \in 0 .. batchSize*seqLen*stride - 1 |->
         k % stride <= pastLen + ((k \div stride) % seqLen)]

(* The attention of all rows: the keys of the new tokens are stored behind *)
(* the pastSeqLen ones of the cache, and each query takes in the keys that *)
(* the mask lets through.                                                  *)
Attention(d, kv, ids, batchSize, inputSeqLen, pastSeqLen, mask) ==
  LET keyLen == pastSeqLen + inputSeqLen
      New(b, i) == <<ids[b*inputSeqLen + i + 1],
                     PositionOf(d, pastSeqLen, inputSeqLen, b*inputSeqLen + i)>>
      Key(b, j) == IF j >= pastSeqLen THEN New(b, j - pastSeqLen) ELSE kv[b][j].key
      Open(b, i, j) == LET k == (b*inputSeqLen + i) * keyLen + j IN k \in DOMAIN mask /\ mask[k]
      Seen(b, i) == [j \in {j \in 0 .. keyLen-1 : Open(b, i, j)} |-> Key(b, j)]
  IN  [b \in DOMAIN kv |-> [j \in Position |->
         IF b < batchSize /\ j \in pastSeqLen .. keyLen-1
         THEN [key |-> New(b, j - pastSeqLen), sees |-> Seen(b, j - pastSeqLen)] ELSE kv[b][j]]]

(* KVCacheManager: the cache of every sample of a batch begins with the    *)
(* prefix; the rows of all beams become copies of their sample's row; the  *)
(* rows are rearranged over the tokens generated so far.                   *)
ExpandPrefixCache(kv, userSideBS, len) ==
  [b \in DOMAIN kv |-> [i \in Position |->
     IF b < userSideBS /\ i < len THEN prefixCache[i] ELSE kv[b][i]]]
ExpandCache(kv, beamSize, len) ==
  [b \in DOMAIN kv |-> [i \in Position |->
     IF i < len THEN kv[b \div beamSize][i] ELSE kv[b][i]]]
ReorderCache(kv, idx, d) ==
  [b \in DOMAIN kv |-> [i \in Position |->
     IF i \in d.initSeqLen .. d.accSeqLen-1 THEN kv[idx[b]][i] ELSE kv[b][i]]]

(* The rows of step 0 are spread in place over the rows of the beams, from *)
(* the last sample down.                                                   *)
SpreadOne(rows, b, beamSize) ==
  [i \in DOMAIN rows |-> IF i \in b*beamSize .. (b+1)*beamSize - 1 THEN rows[b] ELSE rows[i]]

(* Variant of Spread, for mutation: from the first sample up. *)
SpreadUp(rows, userSideBS, beamSize) ==
  LET after[n \in 0 .. userSideBS] ==
        IF n = 0 THEN rows ELSE SpreadOne(after[n-1], n - 1, beamSize)
  IN  after[userSideBS]

Spread(rows, userSideBS, beamSize) ==
  LET after[n \in 0 .. userSideBS] ==
        IF n = 0 THEN rows ELSE SpreadOne(after[n-1], userSideBS - n, beamSize)
  IN  after[userSideBS]

-----------------------------------------------------------------------------
(* setPrefix: the prefix goes through the layers once, into a cache of its *)
(* own.  A client calls it between two calls of generate, also between two *)
(* steps of a generation.                                                  *)
SetPrefix(p) ==
  LET d  == [dec["first"] EXCEPT !.prefixSharing = TRUE, !.prefixSeqLen = Len(p)]
      kv == Attention(d, [b \in {0} |-> Empty], p, 1, Len(p), 0,
                      AttnMask(0, 1, Len(p), d.accSeqLen))
  IN  /\ phase # "search" /\ Len(p) <= MaxPositions /\ ~model.learned
      /\ dec' = [dec EXCEPT !["first"] = d]
      /\ prefix' = p
      /\ prefixCache' = kv[0]
      /\ actBuffers' = Resized(Len(p), 1)
      /\ used' = Extent(Len(p), 0)
      /\ logits' = <<>>
      /\ UNCHANGED <<model, cache, all, shape, step, seqs, phase>>

UnsetPrefix ==
  /\ phase # "search"
  /\ dec' = [dec EXCEPT !["first"].prefixSharing = FALSE]
  /\ UNCHANGED <<model, cache, prefixCache, actBuffers, used, logits, all, clientVars>>

(* The tokens of sample u: the prefix that is set, if one is shared, and   *)
(* tokens that no other sample has.                                        *)
Prompt(d, u, len) == (IF d.prefixSharing THEN prefix ELSE <<>>) \o [i \in 1 .. len |-> -1 - u]

(* Step 0: the lengths are reset; the tokens of a shared prefix are cut    *)
(* off the ids, and only the others go through the layers.  The inputs are *)
(* those of the clients: a prompt longer than its prefix (the example      *)
(* prefix_sharing.py refuses others); no beams in a HybridModel, whose     *)
(* reorderCache rearranges nothing (run beam_hybrid); one sequence and no  *)
(* prefix in an OptDecoder, which numbers the tokens of a batch as one     *)
(* sequence and those of a prefix from its length on; the logits of every  *)
(* token with one beam and no prefix only.                                 *)
FirstStep(s, logitsAll) ==
  LET first       == dec["first"]
      ids         == [u \in 0 .. s.bs-1 |-> Prompt(first, u, s.len)]
      seqLen      == Len(ids[0])
      pastSeqLen  == IF first.prefixSharing THEN first.prefixSeqLen ELSE 0
      inputSeqLen == seqLen - pastSeqLen
      newIds      == [k \in 1 .. s.bs * inputSeqLen |->
                        ids[(k-1) \div inputSeqLen][pastSeqLen + ((k-1) % inputSeqLen) + 1]]
      start       == [first EXCEPT !.initSeqLen = seqLen, !.accSeqLen = 0]
      resized     == [b \in 0 .. s.bs*s.beams-1 |-> Empty]
      actRows     == s.bs * inputSeqLen
      logitsLen   == LogitsLen(s.bs, s, logitsAll)
      filled      == IF first.prefixSharing
                     THEN ExpandPrefixCache(resized, s.bs, first.prefixSeqLen) ELSE resized
      kv          == Attention(start, filled, newIds, s.bs, inputSeqLen, pastSeqLen,
                               AttnMask(MaskStep(first, 0), s.bs, inputSeqLen, seqLen))
      lastRows    == [b \in DOMAIN kv |-> IF b < s.bs THEN kv[b][seqLen-1] ELSE NoEntry]
  IN  /\ phase # "search" /\ seqLen <= MaxPositions
      /\ s.beams > 1 => ~model.hybrid
      /\ s.bs * s.beams > 1 => ~model.learned
      /\ logitsAll => s.beams = 1 /\ ~first.prefixSharing
      /\ dec' = [dec EXCEPT !["first"] = [start EXCEPT !.accSeqLen = @ + seqLen]]
      /\ cache' = IF s.beams > 1 THEN ExpandCache(kv, s.beams, seqLen) ELSE kv
      /\ actBuffers' = Resized(actRows, logitsLen)
      /\ used' = Extent(actRows, logitsLen)
      /\ logits' = IF logitsAll
                   THEN [k \in 0 .. actRows-1 |-> kv[k \div inputSeqLen][pastSeqLen + (k % inputSeqLen)]]
                   ELSE Spread(lastRows, s.bs, s.beams)
      /\ all' = logitsAll
      /\ shape' = s /\ step' = 0
      /\ seqs' = [b \in 0 .. s.bs*s.beams-1 |-> ids[b \div s.beams]]
      /\ phase' = "search"
      /\ UNCHANGED <<model, prefixCache, prefix>>

(* The searcher, or the client that asked for all logits, takes the logits.*)
(* Every row goes on from a row of its sample with a token of its own, and *)
(* the rows of the cache follow.                                           *)
Search(idx) ==
  /\ phase = "search" /\ ~all
  /\ Len(seqs[0]) < MaxPositions
  /\ cache' = IF shape.beams > 1 THEN ReorderCache(cache, idx, dec["first"]) ELSE cache
  /\ seqs' = [b \in Rows |-> Append(seqs[idx[b]], b)]
  /\ step' = step + 1
  /\ phase' = "forward"
  /\ UNCHANGED <<model, dec, prefixCache, actBuffers, used, logits, all, shape, prefix>>

Finished ==
  /\ phase = "search"
  /\ phase' = "idle"
  /\ UNCHANGED <<model, decoderVars, used, logits, all, shape, step, seqs, prefix>>

(* A later step: one token for every row.  Before step 1 the second        *)
(* decoder of a HybridModel takes over the lengths, the caches and the     *)
(* buffers of the first.                                                   *)
SkipFirstStep(d, initSeqLen) == [d EXCEPT !.initSeqLen = initSeqLen, !.accSeqLen = initSeqLen]
NextStep ==
  LET d0 == IF model.hybrid /\ step = 1
            THEN SkipFirstStep(dec["next"], dec["first"].initSeqLen) ELSE dec[Running]
      batchSize == shape.bs * shape.beams
      d1 == [d0 EXCEPT !.accSeqLen = @ + 1]
      kv == Attention(d0, cache, [n \in 1 .. batchSize |-> seqs[n-1][Len(seqs[n-1])]], batchSize, 1,
                      d0.accSeqLen, AttnMask(MaskStep(d0, step), batchSize, 1, d1.accSeqLen))
  IN  /\ phase = "forward"
      /\ dec' = [dec EXCEPT ![Running] = d1]
      /\ cache' = kv
      /\ logits' = [b \in Rows |-> kv[b][d0.accSeqLen]]
      /\ used' = Extent(batchSize, batchSize)
      /\ phase' = "search"
      /\ UNCHANGED <<model, prefixCache, actBuffers, all, shape, step, seqs, prefix>>

(* Every beam goes on from a beam of its own sample. *)
Indices == {idx \in [Rows -> Rows] : \A b \in Rows : idx[b] \div shape.beams = b \div shape.beams}

Next ==
  \/ \E p \in SharedPrefixes : SetPrefix(p)
  \/ UnsetPrefix
  \/ \E s \in Shapes, logitsAll \in BOOLEAN : FirstStep(s, logitsAll)
  \/ \E idx \in Indices : Search(idx)
  \/ Finished
  \/ NextStep

Spec == Init /\ [][Next]_vars

-----------------------------------------------------------------------------
(* What a layer should compute for token i of a sequence: every token up   *)
(* to it has flowed in, in order, each at its own position.                *)
History(seq, i) == [key |-> <<seq[i+1], i>>, sees |-> [j \in 0 .. i |-> <<seq[j+1], j>>]]

(* Between two calls the KV cache of every row holds exactly the row's     *)
(* sequence, but for a token that is still to be forwarded, at the         *)
(* position it has in that sequence: through a shared prefix, the copies   *)
(* for the beams, the rearrangements of the searcher, the change of        *)
(* decoders of a HybridModel, and prefixes set and dropped in between.     *)
(* The prefix cache holds the prefix that is shared.                       *)
CacheTrue ==
  /\ phase # "idle" =>
       \A b \in Rows : LET pending == IF phase = "forward" THEN 1 ELSE 0 IN
         /\ \A i \in 0 .. Len(seqs[b])-1-pending : cache[b][i] = History(seqs[b], i)
         /\ dec[IF phase = "forward" /\ step = 1 THEN "first" ELSE Running].accSeqLen
              = Len(seqs[b]) - pending
  /\ dec["first"].prefixSharing =>
       \A i \in 0 .. Len(prefix)-1 : prefixCache[i] = History(prefix, i)

(* A row of the logits that forward returns belongs to the row's own       *)
(* sequence and to all of it, also after step 0, where one row for each    *)
(* sample is spread in place over the rows of its beams.                   *)
LogitsTrue ==
  phase = "search" =>
    IF all THEN \A k \in DOMAIN logits :
                  logits[k] = History(seqs[k \div shape.len], k % shape.len)
           ELSE \A b \in Rows : logits[b] = History(seqs[b], Len(seqs[b]) - 1)

(* forward writes embBuf, and outBuf behind it, within actBuffers, which   *)
(* only step 0 enlarges: the later steps, with a row for every beam, find  *)
(* it large enough.                                                        *)
BufferFits == used <= actBuffers

-----------------------------------------------------------------------------
(* The inductive invariant.  Its parts, beside the properties: the lengths *)
(* the decoders count agree with those of the sequences, from the step at  *)
(* which a generation began; the rows of a sample have the same prompt,    *)
(* which the searcher leaves where it is; and only models that embed no    *)
(* positions share a prefix.                                               *)
InvType ==
  /\ model \in Models
  /\ dec \in [Decoders -> [prefixSharing : BOOLEAN, prefixSeqLen : Nat, initSeqLen : Nat, accSeqLen : Nat]]
  /\ phase \in {"idle", "search", "forward"} /\ step \in Nat /\ all \in BOOLEAN
  /\ prefix \in Seq(Int)

InvPrefix ==
  /\ ~dec["next"].prefixSharing
  /\ dec["first"].prefixSharing =>
       /\ ~model.learned
       /\ Len(prefix) = dec["first"].prefixSeqLen

Pending == IF phase = "forward" THEN 1 ELSE 0

InvGeneration ==
  phase # "idle" =>
    /\ shape \in Shapes
    /\ shape.beams > 1 => ~model.hybrid
    /\ shape.bs * shape.beams > 1 => ~model.learned
    /\ phase = "forward" => step > 0 /\ ~all
    /\ all => step = 0 /\ shape.beams = 1
    /\ seqs \in [Rows -> Seq(Int)]
    /\ DOMAIN cache = Rows
    /\ dec["first"].initSeqLen > 0
    /\ \A b \in Rows : Len(seqs[b]) = dec["first"].initSeqLen + step /\ Len(seqs[b]) <= MaxPositions

InvLengths ==
  phase # "idle" =>
    IF model.hybrid /\ step - Pending > 0
    THEN dec["next"].accSeqLen = dec["first"].initSeqLen + step - Pending
    ELSE dec["first"].accSeqLen = dec["first"].initSeqLen + step - Pending

InvPrompts ==
  phase # "idle" =>
    \A b, c \in Rows : b \div shape.beams = c \div shape.beams =>
      \A i \in 1 .. dec["first"].initSeqLen : seqs[b][i] = seqs[c][i]

InvCache ==
  phase # "idle" =>
    \A b \in Rows : \A i \in 0 .. Len(seqs[b])-1-Pending : cache[b][i] = History(seqs[b], i)

InvPrefixCache ==
  dec["first"].prefixSharing => \A i \in 0 .. Len(prefix)-1 : prefixCache[i] = History(prefix, i)

IInv ==
  /\ InvType /\ InvPrefix /\ InvGeneration /\ InvLengths /\ InvPrompts /\ InvCache /\ InvPrefixCache
  /\ LogitsTrue

(* The buffer is large enough for the steps to come. *)
InvBuffers ==
  /\ actBuffers \in Nat /\ used \in Nat /\ BufferFits
  /\ phase # "idle" /\ ~all => Extent(shape.bs * shape.beams, shape.bs * shape.beams) <= actBuffers
=============================================================================
