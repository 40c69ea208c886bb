---------------------------- MODULE MCGridBarrier ----------------------------
(* The two barriers of the prefill kernel, each checked while the other      *)
(* rests.                                                                    *)
(*                                                                           *)
(* The grid barrier as the kernels use it: every call site has a zeroed      *)
(* counter pair of its own and uses slot 0 of it once per launch.  A second  *)
(* id with a single block exercises the degenerate arrival set.              *)
(*                                                                           *)
(* The barriers of block 0 in its scan: four experts, and every histogram    *)
(* that an accepted launch of tokens with two experts each can leave, in     *)
(* tiles of one and two rows.  With seven tile entries one token fits in     *)
(* tiles of one row and three in tiles of two rows, where an expert chosen   *)
(* by all three has a full and a ragged tile; four tokens are refused.       *)
EXTENDS GridBarrier, BlockScan

CONSTANTS b0, b1, b2, b3, b4

MCBlocks == {b0, b1, b2, b3, b4}
MCIds == {1, 2}
MCIdOf == [b \in MCBlocks |-> IF b = b4 THEN 2 ELSE 1]
MCSeedOf == [i \in MCIds |-> IF i = 2 THEN b4 ELSE b0]
MCSlots == (1..Calls) \X {0, 1}
MCSlotOf == [k \in 1..Calls |-> << k, 0 >>]
MCGarbage == {0, HighBit, 2 * HighBit - 1}
MCSMCounts == {3, 5}
MCBlockMs == {1, 2}

GridRests ==
    /\ Init
    /\ sms = 5
    /\ counter = [i \in Ids |-> [s \in Slots |-> 0]]
ScanRests ==
    /\ ScanInit
    /\ tokens = 1 /\ blockM = 2
    /\ counts = [e \in Experts |-> 0]

\* The part that moves: "grid" or "scan".
VARIABLE part
barrierVars == << part, vars, scanVars >>

BarriersInit ==
    \/ part = "grid" /\ Init /\ ScanRests
    \/ part = "scan" /\ GridRests /\ ScanInit
BarriersNext ==
    /\ UNCHANGED part
    /\ \/ part = "grid" /\ Next /\ UNCHANGED scanVars
       \/ part = "scan" /\ ScanNext /\ UNCHANGED vars

\* The warps of a resident block are all scheduled, a block that is on an SM runs
\* and a block waiting for an SM gets a free one.
BarriersSpec ==
    /\ BarriersInit /\ [][BarriersNext]_barrierVars
    /\ \A b \in Blocks :
        WF_barrierVars(part = "grid" /\ Step(b) /\ UNCHANGED << part, scanVars >>)
    /\ \A e \in Experts :
        WF_barrierVars(part = "scan" /\ Thread(e) /\ UNCHANGED << part, vars >>)

=============================================================================
