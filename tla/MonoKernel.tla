------------------------------ MODULE MonoKernel ------------------------------
(* One persistent MoE prefill kernel (kernel/*/src/prefill_mono_final_nb.cu) *)
(* from the launcher's memset to the reduced output, launch after launch, on *)
(* one rank without the fused collective:                                    *)
(*                                                                           *)
(*   round 1  Phase 0   route each token, histogram the chosen experts;      *)
(*            Phase 0.5 quantize each token's row                            *)
(*   round 2  Phase 1b  block 0 turns the histogram into a tile schedule     *)
(*   round 3  Phase 1c  scatter the routed slots into per-expert regions     *)
(*   round 4  Phase 2   one tile at a time, up / SiLU / down per routed slot *)
(*   round 5  Phase 3   sum the TOP_K slots of each token                    *)
(*                                                                           *)
(* Between two rounds stands a grid barrier, here the abstract one that      *)
(* GridBarrier is shown to implement.  A slot is an index into the flattened *)
(* top-k array, token * TopK + k.  Expert parallelism is the case of an      *)
(* ExpertMap with -1 entries; the tensor-parallel builds map every expert.   *)
(*                                                                           *)
(* The feature dimension is left out: a token's row of an array is one cell, *)
(* and a cell holds what produced it: the launch and the expert's weights.   *)
EXTENDS Integers, FiniteSets, FiniteSetsExt

CONSTANTS
    Grid,           \* number of thread blocks, GRID_SIZE
    Warps,          \* WARPS_PER_BLOCK
    Threads,        \* BLOCK_SIZE
    MaxTokens,      \* bound: tokens of a launch
    TopK,           \* TOP_K
    KBlocks,        \* N_KBLK, separately quantized parts of a token's row
    NumExperts,     \* NUM_EXPERTS
    ExpertMap,      \* global expert -> local index, -1 when not on this rank
    BlockM,         \* BLOCK_M, rows of a tile
    MaxTiles,       \* MAX_TILES
    Routings,       \* routings considered: slot -> expert, distinct per token
    MaxLaunches     \* bound: launches in one behaviour

Blocks == 0..(Grid - 1)
Experts == 0..(NumExperts - 1)
Tokens == 0..(MaxTokens - 1)
Slots == 0..(MaxTokens * TopK - 1)
Rows == 0..(MaxTokens * KBlocks - 1)
SlotsOf(t) == (t * TopK)..(t * TopK + TopK - 1)

ASSUME KernelAssumption ==
    /\ {Grid, Warps, Threads, MaxTokens, TopK, KBlocks, NumExperts, BlockM}
            \subseteq Nat \ {0}
    /\ {MaxTiles, MaxLaunches} \subseteq Nat
    /\ ExpertMap \in [Experts -> Experts \cup {-1}]
    /\ \A e, f \in Experts : e # f /\ ExpertMap[e] = ExpertMap[f] => ExpertMap[e] = -1
    /\ Routings \subseteq [Slots -> Experts]
    /\ \A r \in Routings : \A t \in Tokens : \A i, j \in SlotsOf(t) :
            i # j => r[i] # r[j]

Cells == [launch : 0..MaxLaunches, expert : Experts \cup {-1}]
NoCell == [launch |-> 0, expert |-> -1]

VARIABLES
    round, inside,      \* the grid barrier's abstract state
    launch,             \* launches so far
    tokens,             \* num_tokens of this launch
    logits,             \* the experts the logits of this launch select
    routed,             \* tokens routed
    act,                \* act_fp8: the launch that quantized each row part
    topkIds,            \* topk_ids: local expert of a slot, or -1
    counts,             \* expert_counts
    scheduled,          \* block 0 has run Phase 1b
    offsets,            \* expert_offsets, one more entry than experts
    cursors,            \* write_ptrs
    tiles,              \* tile_expert, tile_row_start for 0..total_tiles-1
    fetched,            \* slot -> position its thread's atomicAdd returned
    stored,             \* slots written to sorted_token_ids
    sorted,             \* sorted_token_ids
    nextTile,           \* block -> the next tile of its loop
    partial,            \* output_accum, one cell per slot
    summed,             \* tokens whose output is written
    output              \* bf16_output: the (slot, cell) pairs summed per token

barrier == << round, inside >>
phase0 == << routed, act, topkIds, counts >>
phase1 == << scheduled, offsets, tiles >>
scatter == << cursors, fetched, stored, sorted >>
phase2 == << nextTile, partial >>
phase3 == << summed, output >>
input == << launch, tokens, logits >>
vars == << barrier, input, phase0, phase1, scatter, phase2, phase3 >>

GB == INSTANCE AbstractBarrier
    WITH Blocks <- Blocks, IdOf <- [b \in Blocks |-> 0], Calls <- 4

-----------------------------------------------------------------------------
(* Grid-stride loops: item i of a loop with `per` workers in every block is  *)
(* done by one worker, which takes its items in increasing order.            *)

Worker(i, per) == i % (Grid * per)

Owner(i, per) == Worker(i, per) \div per

Earlier(i, per) == {j \in 0..(i - 1) : Worker(j, per) = Worker(i, per)}

LiveTokens == 0..(tokens - 1)
LiveSlots == 0..(tokens * TopK - 1)
LiveRows == 0..(tokens * KBlocks - 1)

\* Block b is running the code of round r.
Running(b, r) == round[b] = r /\ b \notin inside

-----------------------------------------------------------------------------
(* The launcher.                                                             *)

\* numel / block_m + NUM_EXPERTS > MAX_TILES is refused (-102).
Accepts(n) == (n * TopK) \div BlockM + NumExperts <= MaxTiles

MutZeroCounts == counts
ZeroCounts == [e \in Experts |-> 0]

\* Scratch and outputs start with whatever the allocator returned.
Init ==
    /\ GB!Init
    /\ launch = 0
    /\ tokens = 0
    /\ logits \in Routings
    /\ routed = {}
    /\ act = [q \in Rows |-> 0]
    /\ topkIds = [i \in Slots |-> 0]
    /\ counts = [e \in Experts |-> 0]
    /\ scheduled = FALSE
    /\ offsets = [e \in 0..NumExperts |-> 0]
    /\ tiles = << >>
    /\ cursors = [e \in Experts |-> 0]
    /\ fetched = [i \in Slots |-> -1]
    /\ stored = {}
    /\ sorted = [p \in Slots |-> 0]
    /\ nextTile = [b \in Blocks |-> b]
    /\ partial = [i \in Slots |-> NoCell]
    /\ summed = {}
    /\ output = [t \in Tokens |-> {}]

Over == GB!Retired /\ summed = LiveTokens

\* A launch on the stream: the workspace is zeroed, then the kernel runs.  The
\* scratch outside the workspace (act_fp8, topk_ids, sorted_token_ids,
\* output_accum) keeps what the previous launch left in it.
Launch ==
    /\ Over
    /\ launch < MaxLaunches
    /\ \E n \in 1..MaxTokens : Accepts(n) /\ tokens' = n
    /\ logits' \in Routings
    /\ launch' = launch + 1
    /\ GB!Restart
    /\ routed' = {}
    /\ counts' = ZeroCounts
    /\ scheduled' = FALSE
    /\ offsets' = [e \in 0..NumExperts |-> 0]
    /\ tiles' = << >>
    /\ cursors' = [e \in Experts |-> 0]
    /\ fetched' = [i \in Slots |-> -1]
    /\ stored' = {}
    /\ nextTile' = [b \in Blocks |-> b]
    /\ summed' = {}
    /\ UNCHANGED << act, topkIds, sorted, partial, output >>

-----------------------------------------------------------------------------
(* Round 1.                                                                  *)

\* The single point where a global expert becomes a local one, or -1.
LocalId(i) == ExpertMap[logits[i]]

\* Phase 0, one warp per token: the TOP_K experts go to topk_ids and the owned
\* ones into the histogram.
Route(t) ==
    /\ t \in LiveTokens \ routed
    /\ Running(Owner(t, Warps), 1)
    /\ Earlier(t, Warps) \subseteq routed
    /\ routed' = routed \cup {t}
    /\ topkIds' = [i \in Slots |-> IF i \in SlotsOf(t) THEN LocalId(i) ELSE topkIds[i]]
    /\ counts' = [e \in Experts |->
                    counts[e] + Cardinality({i \in SlotsOf(t) : LocalId(i) = e})]
    /\ UNCHANGED << act, barrier, input, phase1, scatter, phase2, phase3 >>

\* Phase 0.5, one warp per (token, K-block), after the warp's Phase 0 loop.
Quantize(q) ==
    /\ q \in LiveRows
    /\ act[q] # launch
    /\ Running(Owner(q, Warps), 1)
    /\ \A r \in Earlier(q, Warps) : act[r] = launch
    /\ \A t \in LiveTokens : Worker(t, Warps) = Worker(q, Warps) => t \in routed
    /\ act' = [act EXCEPT ![q] = launch]
    /\ UNCHANGED << routed, topkIds, counts, barrier, input, phase1, scatter, phase2, phase3 >>

Phase0Done(b) ==
    /\ \A t \in LiveTokens : Owner(t, Warps) = b => t \in routed
    /\ \A q \in LiveRows : Owner(q, Warps) = b => act[q] = launch

-----------------------------------------------------------------------------
(* Round 2: Phase 1b, on block 0 alone.                                      *)

TilesOf(e) == (counts[e] + BlockM - 1) \div BlockM

SumBelow(f, e) == MapThenSumSet(LAMBDA x : f[x], 0..(e - 1))
Offset(e) == SumBelow(counts, e)
TileBase(e) == SumBelow([x \in Experts |-> TilesOf(x)], e)

\* Entry i of the tile list: the expert whose range of entries holds i, and
\* the first sorted row of the tile.
TileAt(i) ==
    LET e == CHOOSE x \in Experts : TileBase(x) <= i /\ i < TileBase(x) + TilesOf(x)
    IN  [expert |-> e, row0 |-> Offset(e) + (i - TileBase(e)) * BlockM]

MutFirstCursors == [e \in Experts |-> 0]
FirstCursors == [e \in Experts |-> Offset(e)]

Schedule ==
    /\ Running(0, 2)
    /\ ~ scheduled
    /\ scheduled' = TRUE
    /\ offsets' = [e \in 0..NumExperts |-> Offset(e)]
    /\ cursors' = FirstCursors
    /\ tiles' = [i \in 0..(TileBase(NumExperts) - 1) |-> TileAt(i)]
    /\ UNCHANGED << fetched, stored, sorted, barrier, input, phase0, phase2, phase3 >>

TotalTiles == Cardinality(DOMAIN tiles)

-----------------------------------------------------------------------------
(* Round 3: Phase 1c.                                                        *)

\* A slot routed to an expert on another rank is skipped.
Owned(i) == topkIds[i] >= 0

ScatterTurn(i) ==
    /\ i \in LiveSlots
    /\ Running(Owner(i, Threads), 3)
    /\ Owned(i)
    /\ \A j \in Earlier(i, Threads) : Owned(j) => j \in stored

\* pos = atomicAdd(&write_ptrs[e], 1)
Fetch(i) ==
    /\ ScatterTurn(i)
    /\ fetched[i] = -1
    /\ fetched' = [fetched EXCEPT ![i] = cursors[topkIds[i]]]
    /\ cursors' = [cursors EXCEPT ![topkIds[i]] = @ + 1]
    /\ UNCHANGED << stored, sorted, barrier, input, phase0, phase1, phase2, phase3 >>

\* sorted_token_ids[pos] = i
Store(i) ==
    /\ ScatterTurn(i)
    /\ fetched[i] # -1
    /\ i \notin stored
    /\ sorted' = [sorted EXCEPT ![fetched[i]] = i]
    /\ stored' = stored \cup {i}
    /\ UNCHANGED << cursors, fetched, barrier, input, phase0, phase1, phase2, phase3 >>

ScatterDone(b) ==
    \A i \in LiveSlots : Owner(i, Threads) = b /\ Owned(i) => i \in stored

-----------------------------------------------------------------------------
(* Round 4: Phase 2.                                                         *)

\* The sorted rows of a tile: cut where the expert's region ends.
MutRowsOf(tile) == tile.row0..(tile.row0 + BlockM - 1)
RowsOf(tile) ==
    tile.row0..(tile.row0 + Min({BlockM, offsets[tile.expert + 1] - tile.row0}) - 1)

\* What up and down leave in the cell of slot i: garbage unless the token's
\* whole row was quantized in this launch.
Computed(i, e) ==
    IF \A k \in 0..(KBlocks - 1) : act[(i \div TopK) * KBlocks + k] = launch
    THEN [launch |-> launch, expert |-> e]
    ELSE NoCell

MutFollowing(tile) == tile
Following(tile) == tile + Grid

RunTile(b) ==
    /\ Running(b, 4)
    /\ nextTile[b] < TotalTiles
    /\ LET tile == tiles[nextTile[b]]
       IN  partial' = [i \in Slots |->
                IF \E p \in RowsOf(tile) \cap Slots : sorted[p] = i
                THEN Computed(i, tile.expert)
                ELSE partial[i]]
    /\ nextTile' = [nextTile EXCEPT ![b] = Following(@)]
    /\ UNCHANGED << barrier, input, phase0, phase1, scatter, phase3 >>

-----------------------------------------------------------------------------
(* Round 5: Phase 3, which re-reads the ownership of every slot because      *)
(* output_accum is never cleared.                                            *)

MutSummands(t) == SlotsOf(t)
Summands(t) == {i \in SlotsOf(t) : Owned(i)}

Sum(t) ==
    /\ t \in LiveTokens \ summed
    /\ Running(Owner(t, Threads), 5)
    /\ Earlier(t, Threads) \subseteq summed
    /\ output' = [output EXCEPT ![t] = {<< i, partial[i] >> : i \in Summands(t)}]
    /\ summed' = summed \cup {t}
    /\ UNCHANGED << barrier, input, phase0, phase1, scatter, phase2 >>

-----------------------------------------------------------------------------
(* Barriers: a block arrives when its share of the round is done.            *)

WorkDone(b) ==
    CASE round[b] = 1 -> Phase0Done(b)
      [] round[b] = 2 -> b = 0 => scheduled
      [] round[b] = 3 -> ScatterDone(b)
      [] round[b] = 4 -> nextTile[b] >= TotalTiles
      [] OTHER -> FALSE

SyncArrive(b) ==
    /\ WorkDone(b)
    /\ GB!Arrive(b)
    /\ UNCHANGED << input, phase0, phase1, scatter, phase2, phase3 >>

SyncLeave(b) ==
    /\ GB!Leave(b)
    /\ UNCHANGED << input, phase0, phase1, scatter, phase2, phase3 >>

\* The stream has no further launch, or the launcher refuses every shape.
Finished ==
    /\ Over
    /\ launch = MaxLaunches \/ \A n \in 1..MaxTokens : ~ Accepts(n)
    /\ UNCHANGED vars

Kernel ==
    \/ \E t \in Tokens : Route(t) \/ Sum(t)
    \/ \E q \in Rows : Quantize(q)
    \/ Schedule
    \/ \E i \in Slots : Fetch(i) \/ Store(i)
    \/ \E b \in Blocks : RunTile(b) \/ SyncArrive(b) \/ SyncLeave(b)

Next == Launch \/ Kernel \/ Finished

Spec == Init /\ [][Next]_vars

\* Every block is resident on an SM of its own and runs, and so does every
\* thread of it: each can always take its next step.  The host need not launch.
Fairness ==
    /\ \A t \in Tokens : WF_vars(Route(t)) /\ WF_vars(Sum(t))
    /\ \A q \in Rows : WF_vars(Quantize(q))
    /\ WF_vars(Schedule)
    /\ \A i \in Slots : WF_vars(Fetch(i)) /\ WF_vars(Store(i))
    /\ \A b \in Blocks : WF_vars(RunTile(b)) /\ WF_vars(SyncArrive(b)) /\ WF_vars(SyncLeave(b))
FairSpec == Spec /\ Fairness

-----------------------------------------------------------------------------
(* Properties.                                                               *)

TypeOK ==
    /\ round \in [Blocks -> 1..5]
    /\ inside \subseteq Blocks
    /\ launch \in 0..MaxLaunches
    /\ tokens \in 0..MaxTokens
    /\ logits \in Routings
    /\ routed \subseteq Tokens
    /\ act \in [Rows -> 0..MaxLaunches]
    /\ topkIds \in [Slots -> Experts \cup {-1}]
    /\ counts \in [Experts -> 0..(MaxTokens * TopK)]
    /\ scheduled \in BOOLEAN
    /\ offsets \in [0..NumExperts -> 0..(MaxTokens * TopK)]
    /\ cursors \in [Experts -> 0..(MaxTokens * TopK)]
    /\ \A i \in DOMAIN tiles : tiles[i].expert \in Experts /\ tiles[i].row0 \in Slots
    /\ fetched \in [Slots -> Slots \cup {-1}]
    /\ stored \subseteq Slots
    /\ sorted \in [Slots -> Slots]
    /\ nextTile \in [Blocks -> Nat]
    /\ partial \in [Slots -> Cells]
    /\ summed \subseteq Tokens
    /\ \A t \in Tokens : output[t] \subseteq SlotsOf(t) \X Cells

\* The slots of this launch whose expert is on this rank.
ToServe == {i \in LiveSlots : LocalId(i) # -1}

\* However the threads' atomicAdds interleave, a slot's position lies in the
\* region of its expert and no two slots share one ("packed back to back over
\* the OWNED rows only").
ScatterInRegion ==
    /\ \A i \in Slots : fetched[i] # -1 =>
            /\ i \in ToServe
            /\ fetched[i] \in offsets[LocalId(i)]..(offsets[LocalId(i) + 1] - 1)
    /\ \A i, j \in Slots : fetched[i] # -1 /\ fetched[i] = fetched[j] => i = j

\* The schedule fits the tile arrays, and every routed row of this launch is in
\* exactly one tile, of its own expert: no slot is computed twice or left out.
TilesPartitionRows ==
    scheduled =>
        /\ TotalTiles <= MaxTiles
        /\ \A i \in DOMAIN tiles : RowsOf(tiles[i]) \subseteq
                offsets[tiles[i].expert]..(offsets[tiles[i].expert + 1] - 1)
        /\ \A p \in 0..(Cardinality(ToServe) - 1) :
                Cardinality({i \in DOMAIN tiles : p \in RowsOf(tiles[i])}) = 1

\* What Phases 0 and 1 leave to the later ones is a schedule: well-typed, with every
\* routed slot in its expert's region and in one tile.
ScheduleRight == TypeOK /\ ScatterInRegion /\ TilesPartitionRows

\* The barriers carry every hand-over: Phase 3 adds, for each token, the cells
\* of its owned slots, each computed in this launch with the expert the router
\* chose.  Nothing unowned, stale, half-scattered or unquantized gets in
\* although no scratch but the workspace is ever cleared.
OutputExact ==
    \A t \in summed :
        output[t] = {<< i, [launch |-> launch, expert |-> LocalId(i)] >> :
                        i \in ToServe \cap SlotsOf(t)}

\* Every launch ends, with an output for each of its tokens.
LaunchEnds == (~ Over) ~> Over

=============================================================================
