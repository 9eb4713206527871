------------------------------- MODULE Queues -------------------------------
(***************************************************************************)
(* Queues (std::deque, std::list, a linked list of cache nodes): what is   *)
(* left when some of their elements are erased, and the order of two       *)
(* elements.  Filtering is defined by ranks, not by recursion, so that the *)
(* proofs can reason about it.                                             *)
(***************************************************************************)
EXTENDS Integers, Sequences, FiniteSets, Functions

\* The elements of seq that are in s, in their order: the n-th of them is the
\* one with n - 1 others before it.
Only(seq, s) ==
    LET at == {i \in DOMAIN seq : seq[i] \in s}
        Rank(i) == Cardinality({j \in at : j <= i})
    IN  [n \in 1 .. Cardinality(at) |-> seq[CHOOSE i \in at : Rank(i) = n]]

Without(seq, s) == Only(seq, Range(seq) \ s)

\* q is somewhere before r.
Before(seq, q, r) == \E i, j \in DOMAIN seq : i < j /\ seq[i] = q /\ seq[j] = r
=============================================================================
