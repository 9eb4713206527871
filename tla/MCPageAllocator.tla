--------------------------- MODULE MCPageAllocator ---------------------------
\* Two models on two workers: m1 runs on both, m2 shares the first with it.
\* m1 starts awake; both can be awake at once only when m1's reserve is small.
EXTENDS PageAllocator, TLC

CONSTANTS m1, m2, w1, w2, r1, r2

MCModelOrder == <<m1, m2>>
MCWorkersOf == (m1 :> {w1, w2}) @@ (m2 :> {w1})
MCPhyPerVirt == (m1 :> 2) @@ (m2 :> 2)
MCWeightPages == (m1 :> 1) @@ (m2 :> 1)
MCModelOf == (r1 :> m1) @@ (r2 :> m1)
=============================================================================
