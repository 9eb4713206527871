--------------------------- MODULE RequestService ---------------------------
(***************************************************************************)
(* What the serving engine promises about a request, whatever scheduler    *)
(* runs it: it is answered exactly once, generates tokens only between its *)
(* submission and its answer, and never waits forever.  A request that the *)
(* bounded request queue cannot take is answered at once.                  *)
(***************************************************************************)
EXTENDS Naturals

CONSTANT Requests

VARIABLES
    status,     \* "new", "open" or "closed"
    generated   \* tokens generated so far

vars == <<status, generated>>

Init ==
    /\ status = [r \in Requests |-> "new"]
    /\ generated = [r \in Requests |-> 0]

Open == {r \in Requests : status[r] = "open"}

Submit(r) ==
    /\ status[r] = "new"
    /\ status' = [status EXCEPT ![r] = "open"]
    /\ UNCHANGED generated

Reject(r) ==
    /\ status[r] = "new"
    /\ status' = [status EXCEPT ![r] = "closed"]
    /\ UNCHANGED generated

\* One forward pass: every request of a batch gets one token.
Generate(batch) ==
    /\ batch # {} /\ batch \subseteq Open
    /\ generated' = [r \in Requests |-> generated[r] + (IF r \in batch THEN 1 ELSE 0)]
    /\ UNCHANGED status

\* Requests are answered: finished, cancelled or failed.
Close(done) ==
    /\ done # {} /\ done \subseteq Open
    /\ status' = [r \in Requests |-> IF r \in done THEN "closed" ELSE status[r]]
    /\ UNCHANGED generated

Next ==
    \/ \E r \in Requests : Submit(r) \/ Reject(r)
    \/ \E s \in SUBSET Requests : Generate(s) \/ Close(s)

CloseIncluding(r) == \E s \in SUBSET Requests : r \in s /\ Close(s)

Spec ==
    /\ Init /\ [][Next]_vars
    /\ \A r \in Requests : WF_vars(CloseIncluding(r))
=============================================================================
