---------------------------- MODULE MCModelRanks ----------------------------
(* Instances of ModelRanks for TLC. *)
EXTENDS ModelRanks

MCModes ==
  {[tunedComm |-> TRUE, localRanksFlag |-> TRUE], [tunedComm |-> FALSE, localRanksFlag |-> TRUE],
   [tunedComm |-> TRUE, localRanksFlag |-> FALSE]}

Conf(maxLen, numBeams, doSample) == [maxLen |-> maxLen, numBeams |-> numBeams, doSample |-> doSample]
Generation(ids, config, words) == [call |-> "generate", ids |-> ids, config |-> config, stopWords |-> words]
Prefix(ids) == [call |-> "setPrefix", ids |-> ids]
Prompts(ids, lens, maxLen) ==
  [call |-> "setInput", ids |-> ids, seqLens |-> lens, seqIDs |-> <<>>, maxLen |-> maxLen]
Decode(ids, seqIDs) ==
  [call |-> "setInput", ids |-> ids, seqLens |-> [i \in DOMAIN ids |-> 1], seqIDs |-> seqIDs, maxLen |-> <<>>]
Run == [call |-> "forward"]
Free(seqIDs) == [call |-> "freeSeqs", seqIDs |-> seqIDs]

MCScripts ==
  { \* greedy with stop words of one and two tokens and words that are removed, then beams
    <<Generation(<<5, 5, 5>>, Conf(6, 1, FALSE), <<<<>>, <<5, 7>>, <<7>>, <<-1>>, <<2>>>>),
      Generation(<<5>>, Conf(4, 2, TRUE), <<>>)>>,
    \* two draws, with a stop word, and a prompt too long for the shared memory
    <<Generation(<<5, 5, 5>>, Conf(5, 1, TRUE), <<<<7>>>>)>>,
    \* a prefix, set and unset
    <<Generation(<<5, 5, 5>>, Conf(4, 1, FALSE), <<>>), Prefix(<<5, 5>>),
      Generation(<<5, 5, 5>>, Conf(4, 1, FALSE), <<>>), [call |-> "unsetPrefix"],
      Generation(<<5>>, Conf(2, 1, FALSE), <<>>)>>,
    \* the memory is used, then too small: by longer prompts, after a prefix
    <<Generation(<<5>>, Conf(2, 1, FALSE), <<>>), Generation(<<5, 5, 5>>, Conf(4, 1, FALSE), <<>>)>>,
    <<Prefix(<<5, 5>>), Generation(<<5, 5, 5, 5, 5>>, Conf(6, 1, FALSE), <<>>)>>,
    \* continuous batching: two prompts, both go on, one is freed, the other goes on with a new
    \* and longer one; what is not there is not freed, and cannot go on
    <<Prompts(<<5, 5>>, <<1, 1>>, <<9, 8>>), Run, Decode(<<5, 7>>, <<0, 1>>), Run, Free(<<0>>),
      Decode(<<7>>, <<1>>), Run, Prompts(<<5, 5, 5>>, <<3>>, <<>>), Run, Free(<<>>), Free(<<2, 0, 1>>),
      Decode(<<7>>, <<1>>), Run, Decode(<<7>>, <<2>>), Run>>,
    \* as many lengths as prompts, or one, or none
    <<Prompts(<<5, 5, 5>>, <<1, 1, 1>>, <<9, 8>>), Run>> }

MCLogits == {<<5, 7, 5>>, <<7, 5, 5>>, <<2, 5, 5>>, <<2, 2, 5>>, <<5, 5, 5>>}
=============================================================================
