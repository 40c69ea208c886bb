------------------------------ MODULE TilePipeline ------------------------------
(* Phase 2 of the prefill kernel in detail: the tile loop of a block, and in it *)
(* up_phase and down_phase (kernel/*/src/prefill_mono_final_nb.cu).  MonoKernel *)
(* has a tile as the one step RunTile.                                          *)
(*                                                                              *)
(* Two warpgroups compute side by side, each its own feature passes.  They      *)
(* share the blocks of A, which all threads copy with cp.async into a ring of   *)
(* shared memory.  The tiles of B each group has to itself: its leader orders   *)
(* them from the TMA engine into a second ring, and an mbarrier a slot, of      *)
(* which a thread keeps the parity, says when one has come.                     *)
(*                                                                              *)
(* What a place in memory holds is named by the tile, pass and k-block it was   *)
(* computed or fetched for.  Where threads write or copy their shares of an     *)
(* array, the share of a warp is one place.                                     *)
EXTENDS Integers, FiniteSets, Sequences

CONSTANTS
    NumWg,          \* NUM_WG, warpgroups
    WgWarps,        \* warps of a warpgroup
    NKblk,          \* N_KBLK, k-blocks of the up projection
    GatePasses,     \* GATE_PASSES, feature passes of the gate, and of the up half
    DownPasses,     \* N_FEAT_DOWN, feature passes of the down projection
    MSubs,          \* M_SUBS, sub-tiles that one resident B tile serves
    AStages,        \* A_STAGES, slots of the A ring
    UpPipe, DnPipe, \* UP_PIPE and DN_PIPE, slots of a B ring
    BlockTiles      \* bound: tiles of the block

\* Two feature passes of 64 columns share a block of 128 columns, which has one scale
\* and is one k-block of the down projection.
ASSUME PipelineAssumption ==
    /\ {NumWg, WgWarps, NKblk, GatePasses, DownPasses, MSubs, UpPipe, DnPipe}
            \subseteq Nat \ {0}
    /\ BlockTiles \in Nat
    /\ AStages \in Nat /\ AStages >= 3 /\ AStages <= NKblk
    /\ NumWg % 2 = 0 /\ GatePasses % NumWg = 0 /\ DownPasses % NumWg = 0

Groups == 0..(NumWg - 1)
Members == Groups \X (0..(WgWarps - 1))         \* warps: group, and place in it
Group(g) == {w \in Members : w[1] = g}
Stripes == 0..(WgWarps - 1)     \* the rows of a sub-tile that a warp of a group has
DKblk == GatePasses \div 2

VARIABLES
    tile,       \* warp -> its tile
    phase,      \* warp -> up or down
    at,         \* warp -> the code it runs next
    held,       \* warp -> what it waits in: block, group, wgmma, or no
    lin,        \* warp -> lin, the step of its loops
    sub,        \* warp -> sb, the sub-tile
    parity,     \* warp -> slot -> the parity it waits for
    rowIds,     \* warp -> the tile whose rows are in its share of row_fi and row_rw
    copies,     \* warp -> its cp.async groups in flight, in order
    aRing,      \* slot -> warp -> the block in its share
    bRing,      \* group -> slot -> the tile
    bar,        \* group -> slot -> the parity of the mbarrier's phase
    fetching,   \* group -> slot -> the tile under way, or Junk
    scale,      \* inter_scales: block -> stripe -> share -> the passes in its maximum
    inter,      \* fp8_inter: pass -> stripe -> share -> the passes its scale covers
    staged,     \* wb_stage: warp -> what its rows hold
    written     \* sub-tiles of passes written to output_accum, each by a warp

place == << tile, phase, at, held, lin, sub >>
rings == << parity, copies, aRing, bRing, bar, fetching >>
results == << rowIds, scale, inter, staged, written >>
pipeVars == << place, rings, results >>

Junk == << >>

-----------------------------------------------------------------------------
(* Steps, passes and tiles.                                                  *)

BSlots == 0..((IF UpPipe > DnPipe THEN UpPipe ELSE DnPipe) - 1)
Pipe(f) == IF f = "up" THEN UpPipe ELSE DnPipe

\* Steps of a pass, or of a gate pass and its up pass; and of the whole phase.
PassSteps(f) == IF f = "up" THEN 2 * NKblk ELSE DKblk
PhaseSteps(f) ==
    (IF f = "up" THEN GatePasses \div NumWg ELSE DownPasses \div NumWg) * PassSteps(f)

\* The pass of a group's step n, of the gate in the up phase.
Pass(f, g, n) == g + (n \div PassSteps(f)) * NumWg

\* The tile of B that is used in step n.
BTile(t, f, g, n) ==
    IF f = "down" THEN << t, f, Pass(f, g, n), n % DKblk >>
    ELSE LET within == n % (2 * NKblk)
             half == within \div NKblk
         IN  << t, f, half * GatePasses + Pass(f, g, n), within % NKblk >>

\* The block of A.
ABlock(t, n) == << t, n % NKblk >>

-----------------------------------------------------------------------------
(* Barriers, copies and the TMA engine.                                      *)

Runs(w, label) == at[w] = label /\ held[w] = "no"
Goes(w, label, wait) ==
    /\ at' = [at EXCEPT ![w] = label]
    /\ held' = [held EXCEPT ![w] = wait]

\* __syncthreads, and wg_bar_sync of one group.
SyncThreads ==
    /\ \A w \in Members : held[w] = "block"
    /\ held' = [w \in Members |-> "no"]
    /\ UNCHANGED << tile, phase, at, lin, sub, rings, results >>
WgSync(g) ==
    /\ \A w \in Group(g) : held[w] = "group"
    /\ held' = [w \in Members |-> IF w \in Group(g) THEN "no" ELSE held[w]]
    /\ UNCHANGED << tile, phase, at, lin, sub, rings, results >>

\* stage_A: the copies of one group, committed.  The rows are looked up in row_fi.
Copy(w, n) ==
    [slot |-> n % AStages,
     block |-> IF \A v \in Members : rowIds[v] = tile[w] THEN ABlock(tile[w], n) ELSE Junk]

\* cpa_wait<n>: all groups but the last n have landed.  Until then what they copy is
\* not to be read; two of them on one slot land in any order.
LeftInFlight(w, n) == SubSeq(copies[w], Len(copies[w]) - n + 1, Len(copies[w]))
Landed(w, n) ==
    [s \in DOMAIN aRing |->
        LET onto == {i \in DOMAIN copies[w] : copies[w][i].slot = s}
        IN  [aRing[s] EXCEPT ![w] =
                IF onto = {} THEN @
                ELSE IF \E i \in onto : onto = {i} /\ i <= Len(copies[w]) - n
                THEN copies[w][CHOOSE i \in onto : TRUE].block
                ELSE Junk]]

\* mbarrier_init by the first thread, of all barriers; each thread's parities.
InitBars(w) ==
    /\ bar' = IF w = << 0, 0 >> THEN [g \in Groups |-> [s \in BSlots |-> 0]] ELSE bar
    /\ parity' = [parity EXCEPT ![w] = [s \in BSlots |-> 0]]

Leads(w) == w[2] = 0

\* arm_tile, arm: steps S of the leader's group are ordered, each into its slot.
Arms(w, S) ==
    LET f == phase[w]
        into == {n % Pipe(f) : n \in S}
        StepInto(s) == CHOOSE n \in S : n % Pipe(f) = s
    IN  /\ fetching' = [fetching EXCEPT ![w[1]] = [s \in BSlots |->
                IF s \in into THEN BTile(tile[w], f, w[1], StepInto(s)) ELSE @[s]]]
        /\ bRing' = [bRing EXCEPT ![w[1]] = [s \in BSlots |->
                IF s \in into THEN Junk ELSE @[s]]]
FirstSteps(w) ==
    IF Leads(w) THEN {n \in 0..(Pipe(phase[w]) - 1) : n < PhaseSteps(phase[w])} ELSE {}

\* The TMA engine: the tile is there and the barrier's phase complete.  In the down
\* phase the ring lies where the A ring was.
Fetched(g, s) ==
    /\ fetching[g][s] # Junk
    /\ bRing' = [bRing EXCEPT ![g][s] =
            IF fetching[g][s][2] = "down" /\ \E w \in Members : copies[w] # << >> THEN Junk
            ELSE fetching[g][s]]
    /\ bar' = [bar EXCEPT ![g][s] = 1 - @]
    /\ fetching' = [fetching EXCEPT ![g][s] = Junk]
    /\ UNCHANGED << place, parity, copies, aRing, results >>

-----------------------------------------------------------------------------
(* Up phase.                                                                 *)

\* The barriers, and the tile's rows; __syncthreads.
EnterUp(w) ==
    /\ Runs(w, "enter") /\ phase[w] = "up"
    /\ InitBars(w)
    /\ rowIds' = [rowIds EXCEPT ![w] = tile[w]]
    /\ Goes(w, "clear", "block")
    /\ UNCHANGED << tile, phase, lin, sub, copies, aRing, bRing, fetching,
                    scale, inter, staged, written >>

\* A warp's shares of inter_scales and fp8_inter are zeroed; __syncthreads.
Clear(w) ==
    /\ Runs(w, "clear")
    /\ scale' = [d \in DOMAIN scale |-> [v \in Stripes |-> [scale[d][v] EXCEPT ![w] =
            [of |-> {}, final |-> FALSE]]]]
    /\ inter' = [p \in DOMAIN inter |-> [v \in Stripes |-> [inter[p][v] EXCEPT ![w] = {}]]]
    /\ Goes(w, "prime", "block")
    /\ UNCHANGED << tile, phase, lin, sub, rings, rowIds, staged, written >>

\* The first B tiles and all but one of the A slots are ordered.  The rings lie where
\* the write-back of the tile before had its staging buffer.
PrimeUp(w) ==
    /\ Runs(w, "prime") /\ phase[w] = "up"
    /\ Arms(w, FirstSteps(w))
    /\ copies' = [copies EXCEPT ![w] = @ \o [n \in 1..(AStages - 1) |-> Copy(w, n - 1)]]
    /\ aRing' = [s \in DOMAIN aRing |->
            IF s < AStages - 1 THEN [aRing[s] EXCEPT ![w] = Junk] ELSE aRing[s]]
    /\ staged' = [v \in Members |-> Junk]
    /\ Goes(w, "await", "no")
    /\ UNCHANGED << tile, phase, lin, sub, parity, bar, rowIds, scale, inter, written >>

\* cpa_wait<A_STAGES-2>; __syncthreads.
MutInFlight == AStages - 1
InFlight == AStages - 2

AwaitCopies(w) ==
    /\ Runs(w, "await")
    /\ aRing' = Landed(w, InFlight)
    /\ copies' = [copies EXCEPT ![w] = LeftInFlight(w, InFlight)]
    /\ Goes(w, "refill", "block")
    /\ UNCHANGED << tile, phase, lin, sub, parity, bRing, bar, fetching, results >>

\* The slot that was read in the step before is ordered anew, at the end in vain.
Refill(w) ==
    LET copy == Copy(w, lin[w] + AStages - 1)
    IN  /\ Runs(w, "refill")
        /\ copies' = [copies EXCEPT ![w] = Append(@, copy)]
        /\ aRing' = [aRing EXCEPT ![copy.slot][w] = Junk]
        /\ Goes(w, "wait", "no")
        /\ UNCHANGED << tile, phase, lin, sub, parity, bRing, bar, fetching, results >>

\* After both halves of a pass: the rows' maxima enter the scale that the pass shares
\* with its neighbour (atomicMax); __syncthreads.
ScaleBlock(p) == p \div 2
LastPass(w) == Pass(phase[w], w[1], lin[w] - 1)

TakeMax(w) ==
    LET d == ScaleBlock(LastPass(w))
    IN  /\ Runs(w, "max")
        /\ scale' = [scale EXCEPT ![d][w[2]] = [u \in Members |->
                [@[u] EXCEPT !.of = @ \cup {<< tile[w], LastPass(w) >>}]]]
        /\ Goes(w, "quantize", "block")
        /\ UNCHANGED << tile, phase, lin, sub, rings, rowIds, inter, staged, written >>

\* The pass is quantized by that scale; __syncthreads.
QuantizePass(w) ==
    LET p == LastPass(w)
    IN  /\ Runs(w, "quantize")
        /\ inter' = [inter EXCEPT ![p][w[2]] =
                [u \in Members |-> scale[ScaleBlock(p)][w[2]][u].of]]
        /\ Goes(w, IF lin[w] < PhaseSteps("up") THEN "await" ELSE "finish", "block")
        /\ UNCHANGED << tile, phase, lin, sub, rings, rowIds, scale, staged, written >>

\* cpa_wait<0>; the maxima become scales; __syncthreads, here and in the tile loop.
Finish(w) ==
    /\ Runs(w, "finish")
    /\ aRing' = Landed(w, 0)
    /\ copies' = [copies EXCEPT ![w] = LeftInFlight(w, 0)]
    /\ scale' = [d \in DOMAIN scale |-> [v \in Stripes |->
            [scale[d][v] EXCEPT ![w].final = TRUE]]]
    /\ Goes(w, "return", "block")
    /\ UNCHANGED << tile, phase, lin, sub, parity, bRing, bar, fetching,
                    rowIds, inter, staged, written >>
Return(w) ==
    /\ Runs(w, "return")
    /\ IF phase[w] = "up"
       THEN phase' = [phase EXCEPT ![w] = "down"] /\ UNCHANGED tile
       ELSE phase' = [phase EXCEPT ![w] = "up"] /\ tile' = [tile EXCEPT ![w] = @ + 1]
    /\ lin' = [lin EXCEPT ![w] = 0]
    /\ Goes(w, IF tile'[w] <= BlockTiles THEN "enter" ELSE "done", "block")
    /\ UNCHANGED << sub, rings, results >>

-----------------------------------------------------------------------------
(* A step of either phase: the B tile is there, the sub-tiles are multiplied,  *)
(* and the slot is ordered anew.                                               *)

AwaitTile(w) ==
    LET slot == lin[w] % Pipe(phase[w])
    IN  /\ Runs(w, "wait")
        /\ bar[w[1]][slot] # parity[w][slot]
        /\ parity' = [parity EXCEPT ![w][slot] = 1 - @]
        /\ sub' = [sub EXCEPT ![w] = 0]
        /\ Goes(w, "multiply", "no")
        /\ UNCHANGED << tile, phase, lin, copies, aRing, bRing, bar, fetching, results >>

\* wgmma, commit and wait_group<0>: the warps of a group multiply together, and are
\* done together.
Multiply(w) ==
    /\ Runs(w, "multiply")
    /\ Goes(w, "multiply", "wgmma")
    /\ UNCHANGED << tile, phase, lin, sub, rings, results >>

Drained(g) ==
    /\ \A w \in Group(g) : held[w] = "wgmma"
    /\ held' = [w \in Members |-> IF w \in Group(g) THEN "no" ELSE held[w]]
    /\ at' = [w \in Members |->
            IF w \in Group(g) /\ sub[w] = MSubs - 1 THEN "rearm" ELSE at[w]]
    /\ sub' = [w \in Members |-> IF w \in Group(g) THEN sub[w] + 1 ELSE sub[w]]
    /\ UNCHANGED << tile, phase, lin, rings, results >>

NextStep(w) == lin[w] + Pipe(phase[w])

Rearm(w) ==
    LET f == phase[w]
    IN  /\ Runs(w, "rearm")
        /\ Arms(w, IF Leads(w) /\ NextStep(w) < PhaseSteps(f) THEN {NextStep(w)} ELSE {})
        /\ lin' = [lin EXCEPT ![w] = @ + 1]
        /\ sub' = [sub EXCEPT ![w] = 0]
        /\ Goes(w, IF (lin[w] + 1) % PassSteps(f) # 0
                   THEN IF f = "up" THEN "await" ELSE "wait"
                   ELSE IF f = "up" THEN "max" ELSE "stage", "no")
        /\ UNCHANGED << tile, phase, parity, copies, aRing, bar, results >>

-----------------------------------------------------------------------------
(* Down phase.                                                               *)

EnterDown(w) ==
    /\ Runs(w, "enter") /\ phase[w] = "down"
    /\ InitBars(w)
    /\ Goes(w, "prime", "block")
    /\ UNCHANGED << tile, phase, lin, sub, copies, aRing, bRing, fetching, results >>

\* The ring lies where the A ring was.
PrimeDown(w) ==
    /\ Runs(w, "prime") /\ phase[w] = "down"
    /\ Arms(w, FirstSteps(w))
    /\ aRing' = [s \in DOMAIN aRing |-> [v \in Members |-> Junk]]
    /\ Goes(w, "wait", "no")
    /\ UNCHANGED << tile, phase, lin, sub, parity, copies, bar, results >>

\* The write-back of a pass, sub-tile by sub-tile: a warp stages its rows, the group
\* meets, and the staged rows are written by whichever warp; the group meets again.
SubTile(w) == << tile[w], LastPass(w), sub[w] >>

StageRows(w) ==
    /\ Runs(w, "stage")
    /\ staged' = [staged EXCEPT ![w] = SubTile(w)]
    /\ Goes(w, "store", "group")
    /\ UNCHANGED << tile, phase, lin, sub, rings, rowIds, scale, inter, written >>

StoreRows(w) ==
    /\ Runs(w, "store")
    /\ written' = written \cup {<< SubTile(w), w >>}
    /\ sub' = [sub EXCEPT ![w] = @ + 1]
    /\ Goes(w, IF sub[w] < MSubs - 1 THEN "stage"
               ELSE IF lin[w] < PhaseSteps("down") THEN "wait" ELSE "return", "group")
    /\ UNCHANGED << tile, phase, lin, rings, rowIds, scale, inter, staged >>

-----------------------------------------------------------------------------
(* The tile loop.                                                            *)

PipeInit ==
    /\ tile = [w \in Members |-> 1] /\ phase = [w \in Members |-> "up"]
    /\ at = [w \in Members |-> IF BlockTiles = 0 THEN "done" ELSE "enter"]
    /\ held = [w \in Members |-> "no"]
    /\ lin = [w \in Members |-> 0] /\ sub = [w \in Members |-> 0]
    /\ parity = [w \in Members |-> [s \in BSlots |-> 0]]
    /\ rowIds = [w \in Members |-> 0]
    /\ copies = [w \in Members |-> << >>]
    /\ aRing = [s \in 0..(AStages - 1) |-> [w \in Members |-> Junk]]
    /\ bRing = [g \in Groups |-> [s \in BSlots |-> Junk]]
    /\ bar = [g \in Groups |-> [s \in BSlots |-> 0]]
    /\ fetching = [g \in Groups |-> [s \in BSlots |-> Junk]]
    /\ scale = [d \in 0..(DKblk - 1) |-> [v \in Stripes |-> [w \in Members |->
            [of |-> {}, final |-> FALSE]]]]
    /\ inter = [p \in 0..(GatePasses - 1) |-> [v \in Stripes |-> [w \in Members |-> {}]]]
    /\ staged = [w \in Members |-> Junk]
    /\ written = {}

AllDone == \A w \in Members : at[w] = "done" /\ held[w] = "no"

PipeNext ==
    \/ \E w \in Members :
        \/ EnterUp(w) \/ Clear(w) \/ PrimeUp(w) \/ AwaitCopies(w) \/ Refill(w)
        \/ TakeMax(w) \/ QuantizePass(w) \/ Finish(w) \/ Return(w)
        \/ AwaitTile(w) \/ Multiply(w) \/ Rearm(w)
        \/ EnterDown(w) \/ PrimeDown(w) \/ StageRows(w) \/ StoreRows(w)
    \/ \E g \in Groups : Drained(g) \/ WgSync(g) \/ \E s \in BSlots : Fetched(g, s)
    \/ SyncThreads
    \/ AllDone /\ UNCHANGED pipeVars

-----------------------------------------------------------------------------
(* Properties.                                                               *)

\* The A and B operands of a multiplication that warp w has issued.
UpOperands(w) ==
    /\ \A v \in Members : aRing[lin[w] % AStages][v] = ABlock(tile[w], lin[w])
    /\ bRing[w[1]][lin[w] % UpPipe] = BTile(tile[w], "up", w[1], lin[w])

\* The passes of a block of 128 columns, which have a common scale.
Covering(t, d) == {<< t, p >> : p \in {q \in 0..(GatePasses - 1) : ScaleBlock(q) = d}}
DownOperands(w) ==
    LET d == lin[w] % DKblk
    IN  /\ \A v \in Stripes, u \in Members :
            /\ scale[d][v][u] = [of |-> Covering(tile[w], d), final |-> TRUE]
            /\ \A p \in 0..(GatePasses - 1) :
                ScaleBlock(p) = d => inter[p][v][u] = Covering(tile[w], d)
        /\ bRing[w[1]][lin[w] % DnPipe] = BTile(tile[w], "down", w[1], lin[w])

\* From its issue to its end a multiplication has the operands of its own step in
\* front of it: of A every thread's share, landed and not yet ordered anew, of B the
\* group's tile, and in the down phase activations quantized by the scale they are
\* multiplied with again, which is the maximum over all its passes.  What is written
\* back is one sub-tile, by the rows of its tile; and at the end every sub-tile of
\* every pass is.
OperandsRight ==
    /\ \A w \in Members :
        /\ held[w] = "wgmma" => IF phase[w] = "up" THEN UpOperands(w) ELSE DownOperands(w)
        /\ Runs(w, "store") =>
            /\ \A v \in Group(w[1]) : staged[v] = SubTile(w)
            /\ \A v \in Members : rowIds[v] = tile[w]
    /\ AllDone => written =
        {x \in ((1..BlockTiles) \X (0..(DownPasses - 1)) \X (0..(MSubs - 1))) \X Members :
            x[1][2] % NumWg = x[2][1]}

PipeSpec == PipeInit /\ [][PipeNext]_pipeVars

=============================================================================
