----------------------------- MODULE MCDisaggPD -----------------------------
\* Two prefill instances; the decode instance has memory for two of the three
\* requests.
EXTENDS DisaggPD, TLC

CONSTANTS p1, p2, r1, r2, r3, b1, b2

MCPrefillOf == (r1 :> p1) @@ (r2 :> p1) @@ (r3 :> p2)
MCNeed == (r1 :> 2) @@ (r2 :> 1) @@ (r3 :> 1)
=============================================================================
