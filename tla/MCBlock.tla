------------------------------ MODULE MCBlock ------------------------------
EXTENDS Block, TLC

\* The handles are interchangeable: no operation tells one from another.
HandleSymmetry == Permutations(Handles)
=============================================================================
