# A TLA+ model of xFasterTransformer

xFasterTransformer runs large language models on one or several CPU sockets.
A *client* (C++, PyTorch or a server) talks to a `Model`; the model splits every
layer over the processes (*ranks*) of a tensor-parallel group, keeps the keys
and values of past tokens in a KV cache, and a *searcher* turns logits into
tokens. The arithmetic is floating point and not our subject. What can be
modelled, checked and proved is everything around it: who owns a cache, which
rows belong to which sequence, what the ranks do to the memory they share,
which token is chosen and when a sequence ends.

Paths below are relative to `src/` of the repository.

## 1. Inventory

| Part | State | Operations | Hard to get right |
|---|---|---|---|
| Shared-memory all-reduce (`utils/shm_reduction.*`) | per rank a state word, per block and rank a flag byte, the data area, the size of the mapping | `reduceAdd`, `ShmResize` | lock-free hand-over between processes, words reset while others have begun the next call, resizing |
| Continuous batching (`common/sequence.h`, `common/kvcache_mgr.h`, `models/models.cpp`, `searchers/sampling.cpp`) | ID counter, `SequencePool::hub`, `KVCacheMgr` (caches of sequences, free caches, ready caches), `Model::workingGroup` | `set_input` (four forms), `forward`, `generate`, `freeSeqs`, `finalize` | two maps updated one after the other, recycled caches and IDs, any order of client calls |
| Rearranging the KV cache (`common/kvcache_tensor.h`, `models/kvcache_manager.cpp`) | rows, their scales, a side buffer, a map of moved rows | `expandOneSequence`, `reorder` | in place, row by row, with bounded side storage |
| Greedy and sampling search (`searchers/greedy_search.cpp`, `sample_search.cpp`, `search_utils.cpp`) | tokens, done flags, stop-word progress, penalised tokens, flat output | `getNextToken` (two forms), `isDone`, `setStopWords` | vocabulary split over ranks and threads, samples that end at different steps, reuse of a searcher |
| Beam search (`searchers/beam_search.*`) | beams, scores, indices, hypotheses, done flags | `getNextToken`, `isDone`, `finalize` | beams that change places every step together with their cache rows; samples done beside running ones |
| Messenger (`utils/messenger.h`, `comm_helper/`) | size of the shared memory, the faster mechanism per size | `reduceAdd`, `broadcast`, `allgatherv` | every rank decides for itself and all must decide alike |
| Model on several ranks (`models/models.cpp`) | per rank configuration, stop words, input, prefix, sequences, searcher | `config`, `setStopWords`, `input`, `set_input`, `generate`, `forward`, `setPrefix`, `freeSeqs`, `exitSlaves` | sizes and contents travel in separate broadcasts; a rank that leaves a call early waits for ever or makes others wait |
| Decoder (`models/common_decoder.h`, `hybrid_model.h`, `kvcache_manager.cpp`) | lengths, shared prefix, its cache, the activation buffer | `forward`, `setPrefix`, `unsetPrefix`, `skipFirstStep`, `reorderCache` | lengths kept in several objects; flat buffers and masks whose stride each side works out |
| Attention (`layers/attention.h`, `kernels/attention_kernels.h`, `utils/decoder_util.h`) | caches, statistics and flags of splits, running maxima and sums of tiles | four kernels on OpenMP threads | threads that hand results over by spinning on a float; one head stores what others read; tiles cut by the causal limit |
| Partition over ranks (`utils/split_util.h`, `layers/attention.h`, `mlp_*.h`, `dist_linear.h`) | ranges of heads, columns, tokens | `getTaskRange`, `setWeight`, gathering of logits | edges, uneven and empty parts; the same split worked out twice |
| Pipeline parallelism (`common/sequence.h`, `greedy_search.cpp`, `utils/thread_util.h`) | queues, background thread | sends and receives between stages | queues and vectors shared without a lock; not reachable at this commit |
| Memory pool (`utils/simple_mem_pool.h`, `common/allocator.h`) | named buffers that grow | `getBuffer`, `freeBuffer` | pointers that outlive a reallocation |
| Matrix multiplication, norms, rotary embedding, weight loading, language bindings | weights | arithmetic, I/O, conversion | numeric; not modelled |

How they interact: the client calls `Model`; `Model` calls the decoder, directly
(continuous batching) or through a searcher; every layer of the decoder calls
`Messenger::reduceAdd` twice, which uses the shared-memory all-reduce; the
searchers exchange their candidates with `allgatherv`, which every rank waits
for; beam search rearranges the caches between steps with the indices its
scorer hands out. Rank 0 has the arguments of every call; the others run the
same calls without them and get everything by broadcast.

`PROJECT.json` lists every part with its status, and under `hazards` each place
where something can go wrong that a test would hardly reach.

## 2. Modules

| Module | Models | Run by |
|---|---|---|
| `AllReduce` | abstract: what a sum over ranks promises its callers | (refined by `ShmReduction`) |
| `ShmReduction` | `ShmReduction::reduceAdd`, `ShmResize` and the branch of `Messenger::reduceAdd` that calls them | `MCShmReduction` |
| `ShmReduction_proofs` | proofs | tlapm |
| `ContinuousBatching` | sequence IDs, pool, cache manager, `Model` calls of continuous batching | itself |
| `ContinuousBatching_proofs` | proofs | tlapm |
| `KVCacheTensor` | `expandOneSequence`, `reorder` | `MCKVCacheTensor` |
| `KVCacheTensor_proofs` | proofs | tlapm |
| `TokenSearch` | `GreedySearch`, `SampleSearch`, stop words, repetition penalty, split of the vocabulary | `MCTokenSearch` |
| `TokenSearch_proofs` | proofs | tlapm |
| `BeamSearch` | `BeamSearch`, `BeamSearchScorer`, `BeamHypotheses`, with the cache rows they direct | `MCBeamSearch` |
| `BeamSearch_proofs` | proofs | tlapm |
| `TensorParallel` | the parts of a model each rank has, what it adds to the sums, the logits put together | `MCTensorParallel` |
| `TensorParallel_proofs` | proofs | tlapm |
| `Messenger` | collectives of a group and `Messenger::reduceAdd`, tuned or not | (extended by `ModelRanks`) |
| `ModelRanks` | `Model` and its searcher on every rank, composed with `Messenger` | `MCModelRanks` |
| `ModelRanks_proofs` | proofs, of `Messenger` too | tlapm |
| `CommonDecoder` | `forward`, prefix sharing, `HybridModel`, mask, positions, activation buffer | `MCCommonDecoder` |
| `CommonDecoder_proofs` | proofs | tlapm |
| `AttentionKernels` | the choice of the kernel and the four kernels, thread by thread | `MCAttentionKernels` |

Operators whose comment says "for mutation" are deliberately wrong versions of
the definition they precede. No specification uses them; replacing the
definition by one must make TLC report the property named in `PROJECT.json`.

### ShmReduction

One step is one read or write of a shared word, or one load or store of a
block, by one rank; `bstep[r][b]` is the progress of a rank's OpenMP thread in
block `b`. `pc` names the place in `reduceAdd`: rank 0 waits for the words of
the others, copies its buffer in and sets its word to 1; the others wait, set
theirs to 1, add block by block as the flag of the rank before them allows, and
set it to 2; all wait for the last rank's 2, copy out and leave with 3; the last
rank waits for all the 3s and sets every word back to 0. A block is the sequence
of contributions added into it, because the order of a floating-point sum is
part of its value. Memory is sequentially consistent: on x86 a data store and
the flag store after it are not reordered, and nothing in the protocol depends
on a store becoming visible before a later load. `ChunkStart` says how a
rank's threads split the blocks.

`Synced` is the set of calls that follow a collective in which every rank waits
for all others. In the program that is `allgatherv` of the searcher, between the
last reduction of a step and the first of the next.

### ContinuousBatching

The client is an arbitrary scheduler. What the code takes for granted of it is
made explicit as rules; `RuleSets` are the clients of an instance, each the set of
rules it keeps:

| Rule | The client ... |
|---|---|
| `ids` | does not outlive the range of IDs with a sequence it still holds |
| `fits` | sends no prompt or token that has no room in the cache it asked for |
| `loop` | does not compute a batch again once `isDone()` holds |
| `done` | does not compute a single sequence again that is done |
| `held` | computes no sequence that it has freed |
| `once` | frees no sequence that it has freed |

The forms of `set_input` with one vector of tokens give each prompt its own room,
the one with a vector per prompt (`models.cpp:401`) gives all of them room for the
longest (`Rooms`). The loops of `set_input`, `freeSeqs` and `finalize` are one step per iteration:
what holds after a step holds between the updates of different sequences. A cell
of a cache holds the group and index of the token stored there last, so reading
another sequence's keys, or old ones, is visible.

### KVCacheTensor

A line is one token position of the cache; `reorder` handles one row per step,
by its four cases (`CopyBack`, `SwapRows`, `CopyForward`, `Stay`). `Head8` is
what `skippableCopy` compares; `scales` are the factors of an int8 cache in the
order of their memory. `CommonDecoder` uses both operations as whole steps.

### TokenSearch

The decoder returns any of `LogitRows` for each sample. The largest logit is
found as the code does: per thread, per rank, then over all ranks; the reference
in the properties looks at the whole row at once. In sampling the draw is a free
choice from the tokens that remain after the cut. Two generations run in one
searcher, with batches of different sizes. Stop words are a set and progress is
indexed by the word: their order in the list plays no part. `EndAssumption` is
the constructor's default: with an `eosTokenId` there is a `padTokenId`.

### BeamSearch

The decoder is a table of log probabilities; scores are integers, so sums are
exact and equal sums do occur. `cache[b]` is the sequence of tokens whose keys
row `b` holds. `Hybrid` selects `HybridModel` as the decoder. `found` is a
history variable for the properties. No two tokens of a table are equally likely
(`TableAssumption`), since the order `std::sort` gives equal candidates of one beam
is open; candidates of different beams may be equal. `-1e9` is `-Big`, out of reach
of the log probabilities of `maxLen + 1` tokens (`BigAssumption`).

### TensorParallel

Weights are the indices of their columns and the product of a query head with a
key/value head is the pair of the two, so a sum over ranks is the set of terms
in it. Ranks go through construction, attention, MLP, prediction and the
gathering of logits in any order that the collectives allow. `Shapes` of the run
are models whose heads a rank has in whole groups, or part of one group, and
MLPs with biases whose columns divide evenly: what the models in the repository
have. For the others see "Known divergences".

### Messenger and ModelRanks

An action is the code of one rank from the return of one collective to the entry
of the next. `calls[r]` is what rank r has entered; the k-th collective of a rank
meets the k-th of every other rank, whatever it is, as it does in MPI. A
broadcast is over for rank 0 at once and for the others when rank 0 has entered
it; the other collectives need everyone. In `reduceAdd` a rank enlarges its
mapping of the shared memory, times both mechanisms for a size it sees for the
first time, and takes rank 0's word for the faster. One shared-memory call is one
collective here; `ShmReduction` shows that it behaves as one.

`Resize` is a step of one rank: `ShmResize` maps the same memory anew and waits for
nobody. When rank 0 takes it, it also sets every state word to 0, although ranks
that have not left the sum before (`Lingering`) may still wait for those words. What
then can happen is worked out in `ShmReduction` (run `shm_resize_race`) and is a
choice here (`Wiped`): nothing; or the last rank, and any that still waits for it,
never return from that sum; or nobody returns from the next. `lost` holds the calls
that do not return. `WipedOnlyInPrefix` says where in the program this is possible:
a forward of `generate` or of a batch is followed by an `allgatherv`, from which
rank 0 returns only when all have left the sums, the forward of `setPrefix` is not.
So `EveryRankExits` promises an end to every behaviour in which no call was lost.

`ModelRanks` is the program: rank 0 has `Scripts`, the others loop without
arguments until they are told to exit. A batch whose lengths or sequences do not
fit together ends each rank's process by itself (`GroupFails`, the `exit(-1)` of
`set_input`); after the first sequence that `freeSeqs` does not find it removes
none (`Freed`). Which token comes next is a choice fixed at the start (`Logits`),
except in sampling, where every rank draws for itself. A beam search ends when
there are as many hypotheses as beams; that scores may make it go on is in
`BeamSearch`, and on several ranks all see the same candidates.

### CommonDecoder

A token is a number, and what a layer computes for it is a record: its own
<<token, position>> (`key`) and the pairs that the attention let flow into it, by
position (`sees`). So the cache and the logits say themselves which tokens they are about, and a wrong stride of the
mask, a wrong position or a row of another sample is visible. The mask is the
flat array of the code, written with one stride and read with another.
`actBuffers` and `used` count floats.

### AttentionKernels

A thread of an OpenMP team takes tasks by the static or the dynamic schedule of
the loop it is in; stores to the cache, statistics, weighted values, flags and
merging are steps of their own, and threads interleave. `exp` is 2^x on small integers, so
weights are exact fractions and the properties compare them exactly with the
softmax of the whole row. The stores of a thread become visible in program
order: the code uses plain floats as flags, which the C++ memory model does not
cover, and x86 with the compilers the build supports does.

## 3. Runs

Passing runs:

| Run | Instance | Shows |
|---|---|---|
| `shm_reduce` | 4 ranks, 3 calls of 1, 3 and 2 blocks (so one call grows the mapping), one and two threads | the sum is right at every rank (`ReductionCorrect`), nobody reads or writes a block another writes (`RaceFree`), the all-reduce is implemented (`ImplementsAllReduce`), every call returns (`AllCallsReturn`) |
| `cb_clients` | 2 IDs, 3 groups (IDs wrap), batches of up to 2, 3 positions, prompts that are short and prompts as long as `maxLen`; a client with all rules, one without `once`, one without `ids` | for every client a cache has one owner (`OneOwner`), the maps agree (`MapsAgree`) and lengths are kept (`LengthBounded`); for the careful one sequences read back their own tokens (`CacheHoldsPast`), nothing is written outside a cache (`InBounds`) or into another's (`OthersUntouched`), and the client and the maps agree (`SequencesHeld`) |
| `kv_rearrange` | 2 samples of 3 beams, all 6^6 index lists, 2 lines | `ReorderCorrect`, `ExpandCorrect`, no overflow of the side buffer |
| `token_search` | greedy search (6 tokens) and sampling with TopK 2 (5 tokens); vocabulary of 5 over 2 ranks (3 and 2) and 2 threads, 5 rows of logits, two generations of 1 or 2 samples, 3 stop words | the token is the one a single process picks (`TokenIsBest`), or one of its TopK (`TokenInTopK`), rows end once and are padded (`OutputShape`), stop words are found (`StopWordsFound`), rows grow at their end (`RowsGrow`) |
| `beam_batch` | 2 samples of 2 beams, 5 tokens, all assignments of 4 tables, 16 configurations | rows of the cache follow the beams (`CacheAgrees`), scores are those of the tokens (`ScoresTrue`), the best hypotheses are kept and returned (`BestKept`, `OutputBest`), there are always enough beams (`EnoughBeams`) |
| `tp_split` | 1 to 4 ranks; 4 to 12 heads in groups of every fitting size; columns of each granularity, also fewer pieces than ranks; vocabularies that do not divide | the attention's sum has every head once with its own keys, values, bias and cache slot (`HeadsServed`), the MLP's every column once with its bias (`ColumnsOnce`), and every rank returns the logits in order (`LogitsInPlace`) |
| `ranks` | 3 ranks, 7 programs (greedy with stop words then beams, sampling, a prefix set and unset, a longer prompt after a short one and after a prefix, continuous batching, a batch that is refused), tuned and plain communication, shared memory of 2 and a limit of 3 so that prompts resize it, first and after sums in it, and exceed the limit | ranks that meet make the same collective on as many elements (`CollectivesMatch`), ranks that meet in shared memory have mapped it alike and large enough (`ShmMappedAlike`), only the words of a sum of `setPrefix` are wiped under another rank (`WipedOnlyInPrefix`), the ranks have the same data and tokens (`RanksAgree`), and all of them exit unless such words were wiped (`EveryRankExits`) |
| `decoder_prefix` | batches of 1 and 2, 1 and 2 beams, prompts of 1 and 2 tokens, 5 positions, two prefixes, a rotary and an OPT model, plain and hybrid; generations follow one another without end | the cache of each row holds its own sequence, and nothing else is seen, whatever was shared, copied or rearranged (`CacheTrue`); logits belong to their row (`LogitsTrue`); no write passes the activation buffer (`BufferFits`) |
| `attention` | 5 threads; 1 and 2 sharded heads (5 and 2 splits, with a thread to spare, fewer keys than splits, more keys), heads in groups and alone, prompts of 4 and 5 in tiles of 2 by 3; calls follow one another | the weights are those of the softmax in every order of the threads (`WeightsTrue`), every call returns (`EveryCallReturns`) |

The bounds are the smallest in which the cases that matter occur: four ranks
have a first, a last and two ranks between them that hand blocks over; three
calls have a reset behind and before each; the IDs wrap after two; six rows have
every shape of cycle, repetition and loss that the side buffer must survive;
two ranks of unequal parts have an edge and a remainder; a third rank can wait
for a second that rank 0 has already left; five threads leave splits of unequal
length and one idle.

Runs that are expected to fail, each with an entry under `findings` that quotes
the comment or test that says otherwise:

| Run | The code ... |
|---|---|
| `shm_resize_race` | clears the state words in `ShmResize` while the last rank may still wait for them, if no collective lies between the calls: both ranks then wait for ever |
| `beam_hybrid` | rearranges nothing for the lines that the second model of a `HybridModel` has added |
| `attn_int8_scale` | multiplies the int8 keys of every split but the first with the scales of the first keys of the head |

Fairness:

- `ShmReduction`: each rank is a process and each block the work of one of its
  threads, and neither is stopped for ever (`WF` of a rank's step and of its
  step on a block). Nothing is assumed of the order or speed of ranks.
- `ModelRanks`: `WF` of each rank's step. A rank inside a collective that has
  not returned has no step, and one inside a call that was lost never has.
- `AttentionKernels`: weak fairness of each thread of the team, because OpenMP
  gives every thread of a parallel region its part of the loop and the operating
  system runs them all. `ENABLED` is written out (`Ready`), which TLC evaluates
  faster. No fairness between calls: nobody is obliged to call.

The other modules are sequential and state safety. Deadlock is not checked where
behaviours end by themselves: all calls made, all groups created, all lines done,
the generation or the one forward of `TensorParallel` finished. It is checked in
`ranks`, `decoder_prefix` and `attention`.

## 4. Proofs

**ShmReduction_proofs**, for any number of ranks from 2, calls, blocks, buffer
sizes and splits into threads:

- `TypeCorrect`: `Spec => []TypeOK`;
- `Correct`: `Spec => []ReductionCorrect`;
- `NoRace`: `Spec => []RaceFree`;
- `Refinement`: `Spec => AR!Spec`, the all-reduce of `AllReduce`.

The last three assume `ResizesSynced`: a call that enlarges the mapping follows
a collective. Without it they are false, as `shm_resize_race` shows.

`ReductionCorrect` alone is not inductive: that a receive buffer is right says
nothing about the words and blocks it will be filled from. The last rank is the
last to return from a call, so its returns number the *rounds* of the protocol,
and `IInv` describes one round: ranks are at most one call apart (`InvRounds`);
a rank's word follows from its place (`InvWords`); a rank that has left can only
wait (`InvLeft`), nobody starts before rank 0 (`InvGate`), the last rank resets
only when all have left (`InvCollect`); a block has passed all ranks before the
one that works on it (`InvChain`) and its flags say where it is (`InvFlags`);
block, register and receive buffer hold the sum so far (`InvData`, `InvReg`,
`InvOut`); the mapping is large enough (`InvCap`). There is one lemma per
action.

**KVCacheTensor_proofs**, for any number of rows, beams and lines and any
contents:

- `TypeCorrect`: `Spec => []TypeOK`, in which `reorder` never needs more than
  the `batchSize - 1` rows of its side buffer;
- `Reordered`: `Spec => []ReorderCorrect`, if rows that differ do so in their
  first eight bytes (`HeadsDistinguish`): `skippableCopy` compares no more and skips the copy
  when these agree, with a TODO on the risk, so the assumption is needed;
- `Expanded`: `Spec => []ExpandCorrect`.

The strengthening is `IInv`: rows before `i` are final (`RowsFilled`) and the
map leads from each later row to where its source is now (`MapLeads`), in the
line or in the side buffer; lines ahead are untouched (`LinesAhead`). Each of
the four cases of `reorder` keeps `MapLeads`, which is the argument that no row
is lost.

**ContinuousBatching_proofs**, for any number of IDs, groups, positions, any batch
sizes, lengths and sets of rules a client keeps:

- `TypeCorrect`, `CachesHaveOneOwner` (`OneOwner`), `MapsAlwaysAgree` (`MapsAgree`)
  and `LengthsBounded` (`LengthBounded`), for every client;
- `HeldAreCached` (`SequencesHeld`), `PastIsOwn` (`CacheHoldsPast`),
  `StoresInBounds` (`InBounds`) and `OthersAreUntouched` (`OthersUntouched`), for
  the client that keeps every rule.

`OneOwner` needs nothing but itself and the counts (`InvCounts`): caches move
between the map and the stack, one at a time. What a sequence reads back needs
more: that the lengths of a group agree with its step (`InvLengths`), that the
groups of the working batch are those the pool has under their IDs
(`InvWorking`) and stay so while a batch is being added (`InvFresh`: the IDs
still to come are not held), that there is room for what a sequence may grow to
(`InvRoom`), and that whoever may send the next token has all tokens before it
cached (`InvFed`). In the middle of a call the caches are those held and those
still to be freed (`InvHeld`).

**TokenSearch_proofs**, for any vocabulary, number of ranks and threads, batch,
prompts, set of stop words and any logits:

- `TypeCorrect`; `OutputIsShaped` (`OutputShape`); `StopWordsAreFound`
  (`StopWordsFound`); `RowsOnlyGrow` (`RowsGrow`);
- `BestIsPicked` (`TokenIsBest`) and `DrawnFromTopK` (`TokenInTopK`), if the penalty
  is 1 or no prompt has the first token of a part (`EdgesUnused`). For other
  prompts they are false: `upper_bound` leaves that token out
  (`search_utils.cpp:43`).

`IInv` adds to the properties where a row stands (`InvRows`) and how far a stop
word is matched (`InvTracked`): the number matched is a suffix of the row, and
the only one that follows a foreign token, so that setting it back to 0 on a
mismatch loses no such word. That the insertions of `syncToken` leave the rows
in place is an induction over the samples: after b insertions the output is
given in closed form (`Inserted`), and the recursive function that the model
defines is shown to be that form. `TokenIsBest` rests on three facts: the parts
of the ranks follow on one another and cover the vocabulary (`PartsCover`), the
first of the largest of all is the first of the largest of the parts
(`FirstOfFirsts`, used for threads and again for ranks), and what the ranks
penalise are the tokens of the row (`InvSeen`). For `TokenInTopK`
(`GreatestOfParts`): take the greatest element that a part left out although it beats a
token drawn; its part has kept TopK that beat it, and these beat the token too.

**BeamSearch_proofs**, for any number of samples, beams (from 2) and tokens (from
twice the beams), any prompts of one length, tables and configurations:

- `ScoresAreTrue` (`ScoresTrue`), `BestAreKept` (`BestKept`), `BeamsAreEnough`
  (`EnoughBeams`), `BestIsReturned` (`OutputBest`);
- `CacheIsOwn` (`CacheAgrees`) if the decoder is not a `HybridModel`, for which
  `beam_hybrid` shows that it fails.

The model picks candidates and hypotheses by their rank, so the base is a theory of
ranks in a finite strict order: every number below the size is the rank of exactly
one element (`RankExists`, `RankUnique`). With it: a beam offers `2 * numBeams`
different tokens, so there are as many candidates (`CandidatesAre`); at most one of
a beam's candidates is `eosTokenId`, so at least `numBeams` go on (`EnoughGoOn`) and
the `exit(-1)` of `process` is dead; in the first step the first beam alone fills
the candidates, since those at `-1e9` sort behind (`FirstBeamOnly`). The last needs
that real scores stay above `-1e9`, which `InvScores` carries as a bound that falls
with every token. A candidate's score is its beam's plus one table entry, which is
how the log probability of the tokens is defined (`LogProbIs`); `Recursion` shows
that the recursive functions of the model are what their equations say.
`BestKept` is not inductive: `InvHyps` says that what was found is kept, or that the
list is full and its `worstScore` no smaller (`AddKeeps`), and that each entry has its
tokens' score. `IInv` describes the search; what `finalize` leaves (`FinalTrue`) is
established in that step from it.

**TensorParallel_proofs**, for any number of ranks, model shape and order of the
ranks' steps:

- `LogitsAreInPlace` (`LogitsInPlace`) without condition;
- `ColumnsAreOnce` (`ColumnsOnce`) if the columns of an MLP with biases divide
  evenly (`ColumnsAligned`);
- `HeadsAreServed` (`HeadsServed`) if no group of query heads is cut unevenly
  (`HeadsAligned`). Section 5 says what happens in the cases excluded.

`IInv` says that everything a rank has is the closed form of its part (`InvLayout`,
`InvAttention`, `InvFeedForward`, `InvPredict`), so the order in which ranks run
drops out and what is left is arithmetic: that the ranges are adjacent and cover.

**CommonDecoder_proofs**, for any batch, beams, lengths, prefixes and models:

- `CacheIsTrue` (`CacheTrue`) and `LogitsAreTrue` (`LogitsTrue`);
- `BuffersFit` (`BufferFits`) if no prompt has fewer tokens than beams, which
  the sizing at step 0 needs (section 5).

The cache is true only as far as the counters of two decoder objects are:
`InvLengths` ties them to the step, `InvPrompts` says that the beams of a sample
share the prompt that `reorder` does not move, `InvPrefix` and `InvPrefixCache`
what a shared prefix may be put under.

**ModelRanks_proofs**, for any number of ranks from 2, any scripts that
`ScriptAssumption` allows, any tokens drawn, logits, timings, sizes of the shared
memory and modes of communication:

- `Invariance`: `Spec => []OneHistory`;
- `CollectivesAgree` (`CollectivesMatch`), `ShmIsMappedAlike` (`ShmMappedAlike`),
  `OnlyPrefixIsWiped` (`WipedOnlyInPrefix`) and `RanksAlwaysAgree` (`RanksAgree`);
- `StopWordsRestored`: `Restore` undoes the two broadcasts of `setStopWords`, for
  every list of words.

That ranks agree when they meet is not inductive, and comparing the present states
of two ranks does not make it so: rank 0 returns from its broadcasts at once and may be
many collectives, a whole call even, ahead of a rank that will need the
configuration or the words that rank 0 has since replaced. `OneHistory` says instead
that there is a history of *views* `t[0], t[1], ..., t[N]` and that every rank is at
some position of it. A view is what the ranks have in common: the place in the
code, the operations and sizes of the collectives entered, the calls left, the
`Messenger` and the `Model`. It leaves out the data of the broadcasts, which only
rank 0 has. The history is deterministic: `t[n+1]` is `After(t[n], v)`, where v is
what rank 0 sent in the last broadcast of `t[n]`, which it must have entered by
then. So it suffices that every action, on rank 0 with the arguments and on the
others with what they receive, takes the step `After` (one lemma per action, put
together in `StepOutcome`); the rank that is in front makes the history longer
(`Extend`), any other moves along it (`Move`). A view is *later* than another when
more collectives are entered, fewer calls are left, or the place has more weight
(`Later`); hence equal collectives and calls at the same place mean the same
position, and one rank's collectives are a prefix of the other's. `Sound` bounds
the values that guards look at, `Master` says that rank 0 still has the words that
it announced by their number and their lengths, and `Sent` what is in a
configuration and a size, so that only the last call of the other ranks sees the
sign to exit. A resize is a step of the history like any other, which each rank
takes when it gets there; hence equal collectives mean equal mappings, except for
a rank that has just taken it.

`WipedOnlyInPrefix` compares rank 0 with ranks that are behind it, and needs a second
invariant (`Met`): a collective that a rank has behind it and that is not a
broadcast was entered by every rank. Between the last sum of a `generate` or a
`forward` and the next sum of rank 0 the history has an `allgatherv`
(`AfterSearch`); rank 0 has it behind it, so every rank has entered it and none is
in the sum.

`ScriptAssumption` says what a program calls: a `generate` has a configuration with
at least one beam and lists of integers, and a program generates or batches by
itself, not both, because `exitSlaves` sends what one of the two loops waits for
(section 5). TLC has checked `OneHistory`, with the history kept in variables, on an
instance with two ranks before it was proved.

The modules state assumptions on their constants (`ASSUME`, evaluated by TLC in
the runs): sizes are natural numbers, prompts of a call have one length, splits
are not finer than what is split. The library's induction rules cannot be used
here, but induction over a set can (`InductionOnNat`, from `WFMin`): a property P
is the set of numbers that have it. A recursive function is shown to be a closed
form by that rule, and `RECURSIVE` operators occur in no module with a proof.

Only model-checked: liveness (`AllCallsReturn`, `EveryRankExits`,
`EveryCallReturns`), which needs fairness and `ENABLED`; and `WeightsTrue` of
`AttentionKernels`, whose sums are folds over an operator and whose quotients of powers
of 2 are exact by nonlinear arithmetic with remainders, neither of which the
provers do.

## 5. Known divergences

Places met while modelling where the code falls short of what it means to do and
which no run exercises; the inputs of the runs stay clear of them where the
properties would fail.

- Heads that do not divide over the ranks: `common_decoder.h:844` sizes the cache
  with the rounded-up number of heads per rank, `attention_kernels.h:696` divides
  local indices by a ratio of rounded numbers and `attention.h:173` takes biases
  from `rank * own width`; a rank can then use another head's keys or bias.
  `mlp_standard.h:49` takes the bias of uneven columns from the same kind of
  offset.
- `transformer_ctx.h:278` estimates the columns of a buffer from an even split.
- `OptDecoder::embeddingForward` (`opt_decoder.cpp:105`) numbers the positions of a
  batch as if it were one sequence, and those of a shared prefix from the
  prefix's length on.
- `common_decoder.h:304` enlarges the activation buffer at step 0 only, from the
  rows of the prompt; a prompt with fewer tokens than beams leaves it too small
  for later steps. With a shared prefix and the logits of all tokens lines 483
  and 500 count rows of the whole prompt.
- int8 caches: `expandPrefixCache` and `expandOneSequence` copy `headNum` adjacent
  scales although scales are laid out [batch, head, position], and
  `KVCacheTensor::reorder` moves rows and leaves their scales.
- `newGroupMeta` (`sequence.h:299`) ignores that the ID of a new group is in use.
- A prompt that is as long as `maxLen` gets one token all the same: `stopCheck`
  looks at the length after the token (`sampling.cpp`).
- `generate` (`models.cpp:875`) extends sequences that are done past `maxLen` while
  others of the batch run.
- The repetition penalty (`search_utils.cpp:43`) drops the first token of each
  rank's part of the vocabulary from the prompt.
- `beam_search.cpp:188` looks for the best candidate of sample i at
  `i * numBeams` in rows that are `2 * numBeams` wide, so when the second and later
  samples are done depends on the candidates of others. The model has this index;
  nothing in the repository says when such a sample has to end, so no property
  does, and those of `beam_batch` hold all the same.
- `exitSlaves` (`models.cpp:82`) sends four integers when there is no searcher,
  which fits one form of `set_input` only; and a program that has made a searcher
  and then batches by itself gets the twelve of a configuration sent to ranks
  that wait for four.
- `setStopWords` (`models.cpp:942`) erases from the list it iterates over.
- `finalize` of beam search adds the open beams to the hypotheses and must be
  called once.

## 6. Not modelled

- **Pipeline parallelism.** At this commit nothing pushes to `InputQueue`, the
  sequence ID by which stages match messages is never assigned in the decoder's
  context and a flag of the background thread is read uninitialised: there is no
  behaviour of the program to translate.
- **Matrix multiplication, norms, activations, rotary embedding**: vectorised
  arithmetic and dispatch on types, without state or control of its own.
- **Weight loading, model classes, factory, environment**: input and construction.
- **Memory pool and allocators**: a map from names to buffers that grow. That a
  caller may hold a pointer across growth depends on every call in every layer.
- **Bindings, serving, benchmarks**: conversion of tensors and passing on of calls.
- In the modelled parts: TopP and temperature only narrow or weight a choice that
  the model leaves free; beam search runs in one process (a group of ranks
  merges the same candidates); two older forms of `set_input`
  (`models.cpp:176-340`) have no caller; the masks and slopes of ChatGLM,
  Baichuan and YaRN; `selfAttention` in BF16.

Nine tenths of the C++ lines of the repository are two tables of vocabulary
(`examples/cpp/vocab_qwen.cpp` and `vocab_opt.cpp`, 202 000 of 228 600 lines), so
the share of mapped lines of the whole is small by construction; of the rest the
larger part is vector intrinsics.

## 7. Left to do

The parts of `WeightsTrue` that are not arithmetic, for any number of threads: that a
split that is merged has been finished, and that the keys of the splits are disjoint
and together all keys.
