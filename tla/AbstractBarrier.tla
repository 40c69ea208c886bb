--------------------------- MODULE AbstractBarrier ---------------------------
(* What the software barriers of moe_grid_barrier.h promise their callers,   *)
(* with no counter in sight.  The blocks of a group make the same sequence   *)
(* of barrier calls; a block may leave its k-th call only when every block   *)
(* of its group has entered its own k-th call.                               *)
EXTENDS Naturals

CONSTANTS
    Blocks,     \* thread blocks of the grid
    IdOf,       \* IdOf[b]: the barrier id (group) block b arrives on
    Calls       \* barrier calls of one launch

VARIABLES
    round,      \* round[b]: the call block b is making or will make next
    inside      \* the blocks that have entered call round[b] and not left it

vars == << round, inside >>

Group(b) == {c \in Blocks : IdOf[c] = IdOf[b]}

\* Block c has entered (or already left) its k-th call.
Reached(c, k) == round[c] > k \/ (round[c] = k /\ c \in inside)

Retired == inside = {} /\ \A b \in Blocks : round[b] = Calls + 1

Init ==
    /\ round = [b \in Blocks |-> Calls + 1]
    /\ inside = {}

Arrive(b) ==
    /\ b \notin inside
    /\ round[b] \in 1..Calls
    /\ inside' = inside \cup {b}
    /\ UNCHANGED round

Leave(b) ==
    /\ b \in inside
    /\ \A c \in Group(b) : Reached(c, round[b])
    /\ round' = [round EXCEPT ![b] = @ + 1]
    /\ inside' = inside \ {b}

\* A block alone in its group has nobody to wait for.
PassAlone(b) ==
    /\ b \notin inside
    /\ round[b] \in 1..Calls
    /\ Group(b) = {b}
    /\ round' = [round EXCEPT ![b] = @ + 1]
    /\ UNCHANGED inside

\* The next launch starts when every block of this one has made all its calls.
Restart ==
    /\ Retired
    /\ round' = [b \in Blocks |-> 1]
    /\ UNCHANGED inside

Next ==
    \/ \E b \in Blocks : Arrive(b) \/ Leave(b) \/ PassAlone(b)
    \/ Restart

Spec == Init /\ [][Next]_vars

=============================================================================
