-------------------------- MODULE MCHierarchyCache --------------------------
\* Two requests that share their first block; the first one may grow by a block,
\* and the store has the blocks of its prompt.
EXTENDS HierarchyCache, TLC

CONSTANTS s1, s2

MCPath == (s1 :> <<"a", "b", "g">>) @@ (s2 :> <<"a", "c">>)
MCPromptBlocks == (s1 :> 2) @@ (s2 :> 2)

Symmetric == Permutations(Workers)
=============================================================================
