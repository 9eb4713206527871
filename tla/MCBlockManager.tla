--------------------------- MODULE MCBlockManager ---------------------------
EXTENDS BlockManager, TLC

CONSTANTS x, y

MCTokens == {x, y}

\* The continuous scheduler, with two prompts that share a first block and part
\* of the second one, one of which ends at a block boundary.
Continuous == [chunked |-> FALSE, prompts |-> {<<x, x, x>>, <<x, x, x, y>>}, sampled |-> {x, y}]

\* The chunked-prefill scheduler, with prompts of one token id, inside a block
\* and at its boundary: three sequences and two embedding ids stay small.
Chunked == [chunked |-> TRUE, prompts |-> {<<x, x, x>>, <<x, x, x, x>>}, sampled |-> {x}]

BothSchedulers == {Continuous, Chunked}

\* One long prompt: two sequences that compute it in chunks meet in the cache.
LongPrompt == {[chunked |-> TRUE, prompts |-> {<<x, x, x, x, x, x, x>>}, sampled |-> {x}]}

\* Blocks and sequences are interchangeable; tokens are not (the prompts).
Perms == Permutations(Blocks) \cup Permutations(Seqs)
=============================================================================
