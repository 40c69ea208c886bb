-------------------------- MODULE AbstractAllReduce --------------------------
(* What the fused collective promises the ranks, whatever its chunks, shards *)
(* and pads: a rank comes out of its k-th collective only after every rank   *)
(* has gone into its own k-th, and what it comes out with is complete.       *)
EXTENDS Naturals

CONSTANTS
    Ranks,
    Collectives     \* collectives of one behaviour

VARIABLES
    entered,    \* entered[r]: collectives rank r has gone into
    left,       \* left[r]: collectives rank r has come out of
    result      \* result[r]: the collective whose sum r's buffer holds, 0 if none

vars == << entered, left, result >>

Init ==
    /\ entered = [r \in Ranks |-> 0]
    /\ left = [r \in Ranks |-> 0]
    /\ result = [r \in Ranks |-> 0]

\* Rank r starts over in its buffer; the old result is gone.
Enter(r) ==
    /\ left[r] = entered[r]
    /\ entered[r] < Collectives
    /\ entered' = [entered EXCEPT ![r] = @ + 1]
    /\ result' = [result EXCEPT ![r] = 0]
    /\ UNCHANGED left

\* The sum may be there before r leaves, never after.
Complete(r) ==
    /\ result[r] = 0
    /\ left[r] < entered[r]
    /\ \A q \in Ranks : entered[q] >= entered[r]
    /\ result' = [result EXCEPT ![r] = entered[r]]
    /\ UNCHANGED << entered, left >>

Leave(r) ==
    /\ left[r] < entered[r]
    /\ result[r] = entered[r]
    /\ left' = [left EXCEPT ![r] = entered[r]]
    /\ UNCHANGED << entered, result >>

Next == \E r \in Ranks : Enter(r) \/ Complete(r) \/ Leave(r)

Spec == Init /\ [][Next]_vars

=============================================================================
