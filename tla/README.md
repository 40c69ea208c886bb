# A TLA+ model of the MoE prefill monokernel and its integration

The repository replaces the MoE layer of vLLM's prefill by one persistent CUDA
kernel per rank (`kernel/*/src/prefill_mono_final_nb.cu`, one build per model and
parallelism), and wires it into vLLM (`vllm_integration/vllm/`). A launch routes
the tokens, quantizes them, sorts the routed slots by expert, runs the experts
tile by tile and sums the result; in the tensor-parallel builds the sum over the
ranks can be fused into the last phase. Where the monokernel does not apply, vLLM's
modular kernel runs, with the repository's changes for expert parallelism. The
phases are held together by software barriers, the ranks by flag words in shared
memory, the streams by events, and the decision to run fused by one vote at weight
load. None of that can be seen in a unit test of the numbers, and all of it is what
these modules are about.

Paths below are relative to `src/`; `FM/` stands for
`vllm_integration/vllm/model_executor/layers/fused_moe/`.

## 1. Inventory

| Component | State | Operations | Interacts with |
|---|---|---|---|
| Grid barrier, `kernel/moe_monokernel/src/moe_grid_barrier.h` | counter words, a phase number per block | `grid_barrier`, `partial_barrier` | every phase of the kernel, the launcher's memset |
| Kernel phases 0 to 3, `prefill_wgmma_kernel` in the three `.cu` files | workspace (barrier words, histogram, offsets, cursors, tile list), scratch (`act_fp8`, `topk_ids`, `sorted_token_ids`, `output_accum`) | route, quantize, schedule, scatter, tiles, reduce | barrier, scan, epilogue |
| Phase 1b scan | shared arrays `sc`, `st` | Hillis-Steele scan, tile list | histogram in, schedule out |
| Tile pipelines `up_phase`, `down_phase`, `ptx_utils.h` | cp.async and TMA rings, mbarriers | load, arm, wait, wgmma | a tile of Phase 2 |
| Fused TP epilogue, the `tp` half of Phase 3 | `tp_ready`, `tp_done_local`, `tp_done_flag`, sequence counter, pads on every rank | chunk loop of compute and communication blocks, `tp_rank_barrier`, `tp_mm_reduce` | the peers' kernels, the pool |
| Chunk, shard and pad arithmetic | none | bounds, `prefill_wgmma_tp_pad_words` | epilogue, launcher, pool |
| Launcher, `launch_prefill_moe_*` | stream order | shape and co-residency checks, memset, launch | kernel |
| Op loader, the monokernel part of `vllm_integration/vllm/_custom_ops.py` | the loaded library and what it exports | load, geometry, capabilities, checks and argument list of a call | quant method, kernel |
| Fused plan, `FM/monokernel_tp.py` | `_plan`: `usable`, `fold_shared`, chunk table, pool | capability, vote, rendezvous, `fused_tp_launch` | peers, `.so`, environment, pool |
| Environment, `vllm_integration/vllm/envs.py` | the cache of the getters | getters, `validate_environ`, `compile_factors` | plan, compiled graphs kept across restarts |
| Symmetric pool, `FM/symm_output_pool.py` | output buffers, pads, sequence counter | allocate, rendezvous, views, `assert_stable` | plan, kernel, graph replay |
| FP8 quant methods, `.../quantization/fp8.py` | parameters and scales of a layer, `_use_moe_monokernel` | choose a method, create, load, process; gate at weight load; `try_moe_monokernel` | plan, op loader, checkpoint |
| MoE runner, `FM/runner/moe_runner.py` | none of its own; the layer index of the forward context | forward: shared half, routed half, reduce, scale, add; the op and its fake | quant method, shared experts |
| Shared experts, `FM/runner/shared_experts.py` | `_output` per microbatch | run, peek, pop | runner, aux stream |
| Modular kernel and Triton experts, `FM/modular_kernel.py`, `FM/experts/triton_moe.py` | workspaces that stages share | prepare, two GEMMs, activation, reduce, finalize | prepare and finalize |
| Fast SiLU, `FM/fast_silu_quant.py` | none | masked activation and quantization | Triton experts |
| DeepEP HT, naive DP/EP, `FM/prepare_finalize/` | dispatch handles per microbatch | dispatch, receive, combine | managers, streams |
| All2all managers, `vllm_integration/vllm/distributed/device_communicators/all2all.py` | buffers, handle caches, masks, workspace bounds | get a handle, grow, stage, commit, query and clean faults, gather and scatter | external libraries |
| EP timer, `FM/_ep_timer.py` | open spans, phase of the wait | wrap, begin, end, barrier | DeepEP, modular kernel |
| Validation, `validation/` | | soak, fold gate, A/B gate, SiLU gate | the fused launch, the masked activation |
| Patch, build, benchmarks, archive, docs | | | aids |

The behaviours that are hard, and what being correct means for each component:

* **Barrier.** Blocks arrive in any order around a seeder that overwrites the
  counter. No arrival may be lost, nobody may pass early, nobody may wait for
  ever. Counter words start dirty and must not be used twice.
* **Phases.** Every array is written by some blocks and read by others after a
  barrier, and most are never cleared. The output of a launch must be the sum of
  exactly the slots this rank owns, each computed in this launch.
* **Scan.** In place, by as many threads as there are experts. It must equal
  the serial prefix sums, whichever warp is ahead.
* **Epilogue.** Ranks run unsynchronised but for the pads, which are never
  cleared. A shard must be summed from finished partials of one launch, once; a
  rank may leave only when its buffer is complete and no store is still coming.
* **Arithmetic.** Two sides compute the same bounds by different formulas.
* **Gate and call.** A build is compiled for one geometry and the call goes through
  a flat argument array that nothing checks. Whatever runs must have been built for
  the layer, and be handed what it reads where it reads it.
* **Plan.** A rank that waits in a collective its peers do not join waits for
  ever, so the decision must be the same everywhere without asking anybody; and
  a compiled graph that outlives the process must not be told another answer.
* **Pool.** Two microbatches share pads and a counter, and a replayed graph repeats
  the pointers it captured. An output must be intact as long as it may be read.
* **Runner.** Six places may sum, scale or add the two halves of an output, the
  choice depends on the configuration and the token count, and half of it is traced
  once for all token counts. Each half must be summed, scaled and added once. Behind
  the op, which one graph shares by all layers, each call must find its own layer
  and its own widths.
* **Weights.** Weights and scales are cut separately; each weight must keep its scale.
* **Experts of an EP rank.** Three optimizations leave memory unwritten or narrow
  the routing, each safe only because of what another stage skips.
* **EP layers.** Two streams, two microbatches and a host that never waits: a kernel
  must read what was made for its own layer, and the ranks must queue the same
  collectives.
* **Managers.** State that outlives its users is shared by layers with different
  needs, and changed with the peers of a group that must do the same.

`PROJECT.json` lists these hazards line by line, with the properties that cover
each.

## 2. Modules

| Module | Models | Checked by |
|---|---|---|
| `AbstractBarrier` | what a barrier promises: a block leaves its k-th call only when its group has entered theirs | implemented by `GridBarrier`; used by `MonoKernel` and `BlockScan` |
| `GridBarrier` | the counter protocol, launches, SM residency | `MCGridBarrier`, `GridBarrier_proofs` |
| `BlockScan` | Phase 1b, thread by thread | `MCGridBarrier`, `GridBarrier_proofs` |
| `MonoKernel` | the five rounds of a launch, launch after launch | `MCMonoKernel`, `MonoKernel_proofs` |
| `TilePipeline` | the tiles of a block, warp by warp: rings, barriers, scales, write-back | `MCMonoKernel` |
| `AbstractAllReduce` | what the fused collective promises | implemented by `TPEpilogue` |
| `TPEpilogue` | Phase 3 on all ranks with the fused all-reduce | `MCTPEpilogue`, `TPEpilogue_proofs` |
| `ChunkPartition` | the index arithmetic under `TPEpilogue` | `MCLaunch`, `Launch_proofs` |
| `HostGate` | loading a library, the gate at weight load, the call | `MCLaunch`, `MCGroups`, `Launch_proofs` |
| `SymmPool` | the pool over the launches of several layers, microbatches and a replay | `MCLaunch`, `Launch_proofs` |
| `Trials` | the soak, the fold gate and the A/B gate as programs of three ranks | `MCLaunch` |
| `FusedPlan` | capability, vote, rendezvous, and the decision of every forward | `MCFusedPlan`, `Setup_proofs` |
| `CompileCache` | restarts that keep the compiled graph | `MCFusedPlan`, `Setup_proofs` |
| `MoERunner` | one layer's forward on one rank: kernels, shared experts, reductions | `MCMoERunner`, `Forward_proofs` |
| `LayerOps` | the op between the traced forward and the layer | `MCMoERunner`, `Forward_proofs` |
| `Fp8Weights` | from the checkpoint to the kernel's weights and scales | `MCMoERunner`, `Launch_proofs` |
| `EPExperts` | one EP rank's experts, from what arrives to what goes back | `MCEPExperts`, `Forward_proofs` |
| `EPLayer` | EP ranks layer after layer: two streams, microbatches, timer | `MCEPLayer`, `EPLayer_proofs` |
| `NixlManager`, `Workspace`, `NaiveDispatch`, `Handles` | the managers of the dispatch backends | `MCManagers`, `Setup_proofs` |
| `NumberLemmas` | nothing: division, induction over a set, sums and prefix sums | proved; cited by `MonoKernel_proofs`, `GridBarrier_proofs`, `Launch_proofs`, `Forward_proofs`, `Setup_proofs` |

The modules stack. `GridBarrier` is shown to implement `AbstractBarrier`, from which
`MonoKernel` and `BlockScan` take their barriers; `BlockScan` is the detail of
`MonoKernel`'s step `Schedule`, `TilePipeline` that of its `RunTile`; `TPEpilogue` is Phase 3 when the all-reduce is fused,
in place of `MonoKernel`'s `Sum`, rests on the tiling that `ChunkPartition` checks, and
implements `AbstractAllReduce`, whose two barriers are a launch in `SymmPool` and
`Trials`. `HostGate` decides whether a layer runs the kernel at all, `FusedPlan` which
of the two Phase 3 a forward gets, and that all ranks get the same; `CompileCache`
what the traced graph was told of it. `MoERunner` is the caller, which must do what
the chosen kernel has left undone. `EPExperts` is one step of `EPLayer`, and
`NaiveDispatch` the other way to the same experts.

An `MC` module may host several components. A variable `part`, chosen initially and
never changed, says which one moves; the others rest in one initial state. Their
state spaces add up, they do not multiply, and one run answers one question about a
layer of the system.

### How the state and the actions correspond to the code

**GridBarrier.** `counter[i][s]` is the counter word `s` of barrier id `i`;
`grid_barrier` is the case of one id. `Arrive`, `Seed` and `FoldBack` are the three
atomic operations of the code (`atomicAdd`, `atomicExch`, the conditional
`atomicAdd`), `Exit` is the spin that sees bit 31. Between the seeder's exchange
and its fold other blocks may move. A block's threads act together: thread 0
arrives and `__syncthreads` gathers the rest. `SlotOf` says which word a call
uses: the kernel gives each call site a fresh one. `Launch` is the memset and the
kernel launch with the launcher's residency check; `Place` and `Resident` are the
hardware's block scheduler, modelled from its use.

**BlockScan.** Threads run `Start`, then alternate `Load` and `Add`, each ended
by a `__syncthreads` (the abstract barrier again), then `Publish`. A partial sum
is the set of experts it adds up, so that counting an expert twice or not at all
shows, and the same run stands for both scanned arrays.

**MonoKernel.** One step is one warp's token, one K-block, one atomic of the
scatter, one tile, or one token's sum. `Earlier` keeps the order of a grid-stride
loop. The feature dimension is left out; a cell of `output_accum` holds the launch
and the expert that produced it, which is enough to tell a stale, foreign or
half-quantized value from a right one. `Launch` clears what the memset clears and
leaves the rest of the scratch stale. `LocalId` is the `expert_map` lookup, -1 for
an expert on another rank. Four barriers stand between the five rounds.

**TilePipeline.** A block's tile loop with `up_phase` and `down_phase`; one step is a warp's
code from one wait to the next. `tile`, `phase` and `at` say where a warp is, `held` in
which wait: `__syncthreads`, the named barrier of its warpgroup, or a `wgmma` it has issued.
`lin` and `sub` are the loops' counters. `copies` are a warp's `cp.async` groups in flight;
a share of an A slot is `Junk` from the order of its copy until the wait that covers it
(`Landed`). `Arms` orders a B tile, `Fetched` is the TMA engine, which flips the parity of
the slot's barrier; `AwaitTile` compares that with the warp's own. A multiplication is two
steps, `Multiply` and `Drained`, and reads in between. `scale` and `inter` keep, for each
block of 128 columns, which passes entered the maximum, and with which of them a pass was
quantized. The shared memory that the phases use one after the other is overlaid: priming
one phase's rings leaves nothing of what the other kept there, and a tile fetched into a
slot where a copy may still land is junk. The three builds have the same text here. That a
`wgmma` is over for the four warps of a group at once is what the comment of the removed
barriers says of the hardware (`kernel/qwen_ep/src/prefill_mono_final_nb.cu:658-667`).

**TPEpilogue.** `Enter` is the memset, phases 0 to 2 and block 0's advance of the
device sequence counter; `Write` and `Signal` are a compute block's chunk;
`AwaitReady`, `ArriveAt`, `AwaitPeers`, `Reduce`, `CountDone`, `SetFlag` and
`AwaitFlag` a communication block's, in program order. An arrival is one remote
store per peer, each a step. The stores of a reduced shard are in flight until
`Perform`, in any order; the system fence waits for a block's own. Buffers hold
the launch and whether they hold a partial, a right sum or a wrong one.

**ChunkPartition.** A behaviour is the chunk loop of one accepted launch; all the
operators are the code's formulas with integer division.

**HostGate.** A build is the set of symbols it exports and the constants it was
compiled with, whether reported or not. `Load` is what `fp8.py` does at weight load:
geometry, capabilities, the comparison with the layer, the expert map. `Call` is one
forward's `try_moe_monokernel`: eligibility, the fused plan's answer, the wrapper's
checks, the choice among the C entry points, the argument list, the division by the
sum of weights, and the fall-back or the raise when a check fails. `Parameters` is
what the C function reads; that the list matches is a property, not an assumption.

**SymmPool.** A rank is its compute stream. A program is generated from the turns of
the microbatches: zero the pads, then per layer a launch and the residual add that
reads its output, forward after forward, the second a replay. Inside a launch only the
two rank barriers and the sums remain.

**Trials.** Each trial of the three scripts is a program: launches, clones, compares,
votes, barriers, captures and replays, in the scripts' order. `Alone` is a step of one
stream, `Together` a collective. `fails` collects the votes that did not come out as the
script asks.

**FusedPlan.** `Load` is `process_weights_after_loading` up to the vote, on each
rank; `Vote` and `Rendezvous` complete when every rank is in them. `Forward` is the
decision of `fused_tp_launch` and `Return` the completion of whichever collective
the ranks are in. `Local` names the inputs that may differ between ranks.

**CompileCache.** `SetVariable` and `Replace` change the environment and the library
between processes; `Start` validates the names, loads, plans, and takes the graph kept
under the key of the environment or traces one; `RunLayer` is the op's half of the
work by the live plan and the graph's half by the traced answers. A sum, a scaling or
an addition done twice or never shows in `output`.

**MoERunner.** A tensor is what has happened to its two halves: how often each was
added in, summed over the tensor- and over the data-parallel ranks, and scaled. The
actions are the places of `_apply_quant_method` in order (`SharedBefore`, one of
`Fused`, `Ordinary`, `Standard`, then `SharedAfter`, `PopAndReduce`, `Combine`), and
`Traced` is the rest of `forward`, which contains no choice of its own and reads
the same predicates. `pending` is `SharedExperts._output` and lives on between
forwards; the failure of an assertion and the raise marked unreachable are places
of `pc`. The configuration is a set of flags; `Possible` says which combinations
vLLM excludes.

**LayerOps.** `Register` is the construction of the layers; a stream's stages are the
traced side before the op, the op, and the traced side behind it. `served` is the layer
that the op found, by the name in the graph or by the counter of the forward context;
`width` the tensors' last dimension as it is padded, transformed and cut.

**Fp8Weights.** `Configure` and `GetQuantMethod` pick the method, the `Create` actions
check the partition and make parameters, `LoadWeights` fills in this rank's slice,
the `Process` actions requantize, normalise and reduce the scales, `Reload` starts
over with the processed method. A scale is the block or shard it came from.

**EPExperts.** One step per stage: `Receive` (with compaction), `Allocate`, `Gemm1`,
`Activate`, `Gemm2`, `MoeSum`. A cell of the shared workspaces holds the term that was
computed into it, or junk; views of one workspace overlap as in the code. `setting` is the
environment, including what `ep_silu_gate.py` poisons.

**EPLayer.** `Host` is a thread between two yields, which only queues; `Local` runs the
head of a stream, `Joint` a collective at the head of all ranks' streams. An event is a
position of the other stream. A buffer holds the layer it was filled for, or `Bad` once
an operation has found it otherwise.

**NixlManager, Workspace, NaiveDispatch, Handles.** One action per method of the
manager and one for the library's own moves (a kernel that gives up on a rank). The
calls of the external libraries are modelled from how the managers use them.

## 3. Runs

| Run | Shows | Instance |
|---|---|---|
| `grid_barrier` | no early pass, no lost arrival, implements the abstract barrier, every launch retires; the scan equals the serial sums and ends | 4 blocks in one arrival set and 1 alone, 3 call sites, 2 launches, 3 kinds of garbage, devices with 3 and 5 SMs; 4 experts, every histogram of 1 to 3 tokens, tile heights 1 and 2 |
| `mono_kernel` | schedule and outputs are exact on stale scratch; every launch ends; a multiplication has its own step's operands | 2 blocks of one warp, 3 experts (one remote), top-2, tiles of 2, up to 3 tokens, 2 launches; 2 tiles, 2 warpgroups of 2 warps, 4 k-blocks on 3 slots, 4 passes a phase, 2 sub-tiles |
| `tp_epilogue` | pads never release on an old arrival, shards are summed from finished partials, a retired rank is complete, implements an all-reduce, all retire | 2 ranks, 3 launches; 1+1 blocks with 1 or 2 chunks in every order, and 2+2 blocks with one |
| `launch` | what runs was built for the layer and gets its own arguments; both sides cut alike; the pool keeps every output; the trials pass on every schedule and end | 11 builds of five generations, layers that differ from them in one field, 4 token counts; compiled constants, 20 token counts, chunk counts 0 to 17; 2 ranks, 2 microbatches, 2 layers, 2 forwards; 18 trials of 3 ranks |
| `fused_plan` | one path on all ranks, nobody stranded; a restart never pairs a graph with a plan that answers otherwise | 3 ranks with any enable flags and any of 4 binaries, 2 tables, 3 sizes, 2 forwards; 2 library paths, 3 builds, 2 starts with any variables |
| `moe_runner` | each half summed, scaled and added once, the shared half taken once, one collective with the fold; every call its own layer and widths; every weight its scale | all possible configurations, 2 thresholds, 4 token counts, any number of forwards; 2 layers, 2 microbatches, 3 ways of naming; every config, slices up to 6 with blocks 1 to 3 |
| `ep_experts` | every row exactly what it is owed under every flag; nothing syncs under capture | 2 ranks of 2 experts, top-3, up to 2 rows, 2 shapes |
| `ep_layer` | no buffer of another layer is read, same collectives everywhere, spans match, every layer ends | 2 ranks, 2 layers, 12 setups with and without microbatches, timer, dry ranks |
| `managers` | faults exact, staged ranks apart and committed ones in, workspaces and buffers fit every layer, tokens come home | groups of up to 4; 2 stages of 2 with up to 3 layers; 2x2 ranks, up to 2 tokens; 2 layers of 3 kinds, 3 settings of the SMs |
| `gate_groups` | violated: a build for another number of groups is accepted | one build, two layers |
| `mono_dp` | violated: the monokernel in a data-parallel layer yields a partial sum | the layer of `moe_runner`, data parallelism allowed |
| `stale_graph` | violated: a restart under another value of an unlisted variable keeps the old graph | one service, 2 starts, names not enforced |

Why the bounds are enough:

* `grid_barrier`: with four blocks up to three arrivals can precede the seeder
  and one can fall between its exchange and its fold. Two launches are needed for
  the memset to matter. `HighBit = 8` stands for 2^31; only that it exceeds the
  number of blocks is used, and the proofs have it as an assumption. The device
  with 3 SMs makes the launcher refuse; without the check three blocks would wait
  for a fourth that never gets an SM. Four experts need two doublings of the scan,
  which is where reading a neighbour that is ahead would show.
* `mono_kernel`: the routings have a full tile with a ragged one after it, a tile
  that serves two tokens, an expert with nothing, and slots owned in one launch
  and not in the other, so that a stale cell is within reach. Four tokens are
  refused by the tile bound, so its edge is crossed. `ScheduleRight` and `OutputExact` are
  proved for every instance. In the tile pipeline each group has two passes a phase, so that
  every loop ends once inside and once at the end of a phase; all rings turn several times;
  the A ring has fewer slots than a row has k-blocks, so that a slot not filled anew holds
  another block. A second tile meets what the first left in flight. With one slot fewer to
  wait for, without the final wait, with a slot ordered a step early or a barrier less where
  one is needed, the run fails; without any one of those after `EnterUp`, `Clear` and
  `QuantizePass` it does not, because another one follows before anything is read.
* `tp_epilogue`: three launches let one rank be a launch ahead and try a second;
  differing chunk counts make a pad the final one of a launch and an inner one of
  the next. The second grid has the counts that one block a side makes trivial.
  What of it does not depend on the bounds is proved (section 4).
* `launch`: each library generation adds the symbols of one change in the source's
  history, so every branch on a missing symbol is taken; each layer field is off by
  one in turn. The chunk arithmetic uses the compiled values of the DeepSeek build, with
  odd and even token counts around a tile, chunk counts 0 to 17 around the cap and 131
  of the 132 blocks as the largest split. Two forwards are a capture and a replay. Three
  ranks let a trial's skewed rank be first, last and between.
* `fused_plan`: the binaries are one without the entry, one with a cap below the
  table's, one that cannot fold and one that can; one size is below the threshold at which
  the shared experts run first. Two starts are one restart.
* `moe_runner`: the sizes are one below both thresholds, one that is fused and lies
  below one threshold and above the other, one in no table, and one above the
  monokernel's cap; nothing else about a size is read. In the slices many blocks do not
  divide the partition.
* `ep_experts`: rows with one and with two owned slots in every order, padding rows,
  and a hidden size on either side of the up projection's width, so that either
  workspace is the larger.
* `ep_layer`: two layers let the communication of one overlap the computation of
  the other; all properties relate neighbours. A rank that receives nothing, and one that
  receives as many rows as it sent, are setups.
* `managers`: the third layer of a stage can be smaller than the first and larger than
  the second in either measure. Four ranks let a group grow by two while one is staged and
  fail on either side of the boundary.

Deadlock is checked in all passing runs. A behaviour that has nothing left to do
stutters by an explicit disjunct (`Finished`, `Served`, `Over`, `Raised`, `Left`, ...), so
a deadlock is a system that is stuck. Two violation runs turn the check off: in `gate_groups`
and `stale_graph` the one service or call simply ends.

### Fairness

Safety is checked without it. Liveness assumes weak fairness of each thread of
control (a block's step, a stream's head, a rank's forward, the delivery of a store, a
collective that every rank has joined), and nothing of the host: a further launch need
never come. It is justified for blocks because the grid never exceeds the SM count (the
launcher's check, which `grid_barrier` needs: without it the run hangs) and a block
stays resident until it retires; for warps of a resident block because the hardware
schedules all of them (Volta and later); for stores because NVLink delivers what was
issued; for streams because CUDA runs the head of a stream whose events have happened.
In `ep_layer` a microbatch's thread is fair only when it has the turn, which the other
one hands over at its yields. No strong fairness is assumed: every awaited condition
here stays true once it is true.

### Findings

Each is a passage of the source that says more than the code does.

* `gate_groups`: the gate compares every field of the geometry, and the geometry
  leaves out the two group counts that the grouped builds export.
* `mono_dp`: the gate of the monokernel and its caller do not look at data
  parallelism, and the kernel neither gathers the tokens of the other ranks nor
  combines its partial sums with theirs. Two data-parallel by two tensor-parallel ranks
  hold the local experts of the four-way build. No launcher of the repository runs
  the monokernel that way.
* `stale_graph`: what the traced graph is told is kept under a key of the environment
  table, and two of the variables that decide it (the fold and the number of
  communication blocks) are not in the table. `validate_environ`
  with its strict setting refuses to start with a name it does not know, and then the
  property holds (`fused_plan`).

Seen while reading, each true of the models when the named constant is changed, but
not given a run:

* The header of the barrier (`moe_grid_barrier.h:76-78`, `:118-119`) describes two words
  used alternately. With `SlotOf` alternating, a third call is let through early; the
  kernel's own comment says so, and gives each site a fresh pair, for which the property
  is proved.
* Inputs of the decision that can differ between ranks and are not voted on: the chunk
  table (`Local` with `"table"`, the very assumption of `PathsUniform`), a library that
  does not load on one rank, a variable that parses on some ranks only. Peers then wait in
  a collective. An operator who sets the same environment and installs the same files
  everywhere never meets them.
* A library rebuilt at the same path keeps the graph compiled for the old one
  (`Rebuilds = TRUE`).
* A NIXL growth that is staged and then gives way to a larger one, committed without a
  stage of its own, leaves the ranks of the first masked: the connection makes all of
  them active and the unmasking then has nothing to do (`Regrows = TRUE`,
  `all2all.py:502-508`).
* The LoRA input that `triton_moe.py:395-416` falls back to is guarded by its number of
  rows only; dispatched rows can be as many as the local ones and be others
  (`WeightOnly = TRUE`).
* A refusal of the launcher by return code, or a missing attribute, inside the fused path
  raises where the ordinary path falls back. A softmax layer with a bias passes the gate
  and every call of it is refused.
* Under dual-batch overlap the timer's `_open` is a stack, so it swaps the spans of
  two microbatches; and a rank that received nothing records no reduce span, which shifts
  the reader's chunking. `SpansMatch` is therefore stated without overlap.
* In the soak, a rank whose launch returns an error or whose capture is refused skips
  a vote that its peers are in. The trials are modelled with launches that succeed.
* The low-latency DeepEP manager remembers the handle it gave last, in which alone it
  looks for faults, and the mask's old world size; v2 fixes its SM count by the first layer. The instance of `managers` is
  the use the code makes of them: alike layers.
* Shards are aligned relative to the start of their chunk, which is itself not
  aligned, so not 'every shard starts on a 512-B boundary'
  (`kernel/qwen_tp/src/prefill_mono_final_nb.cu:1478-1479`); only speed depends on it. The
  comment above the host API that `output_accum` is zeroed before the launch is
  out of date; `OutputExact` is checked on scratch that is never zeroed.
* The pool's zeroing has no barrier behind it, and what orders it before a peer's
  first launch is the all-reduce of the attention that happens to lie between: in `SymmPool`
  without it the run deadlocks.

## 4. Proofs

| Module | Theorem | Statement |
|---|---|---|
| `GridBarrier_proofs` | `TypeCorrect` | `Spec => []TypeOK` |
| | `Barrier` | `FreshSlots` implies `Spec => []BarrierSafe` |
| | `Exact` | `FreshSlots` implies `Spec => []CounterExact` |
| | `NobodyExitsEarly` | `FreshSlots` implies `Spec => []NoEarlyHighBit` |
| | `Implementation` | `FreshSlots` implies `Spec => ImplementsBarrier` |
| | `ScanIsSerial` | `ScanSpec => []ScanExact` |
| `MonoKernel_proofs` | `SchedulesRight` | `Spec => []ScheduleRight` |
| | `OutputsExact` | `Spec => []OutputExact` |
| `TPEpilogue_proofs` | `PadsNeverStale` | `Spec => []PadsSafe` |
| | `RetiredHoldsTheSum` | `Spec => []RetiredComplete` |
| | `EpilogueImplements` | `Spec => ImplementsAllReduce` |
| `Launch_proofs` | `CutsOfOnePartition` | `WholeVectors` implies `Spec => []CutsAgree` |
| | `BuildsCutWholeVectors` | `OfABuild` implies `WholeVectors` |
| | `WeightsKeepTheirScales` | `WeightsSpec => []WeightsRight` |
| | `GateFits` | `RealBuilds` and `RealLayers` imply `HostSpec => []WeightsFit` |
| | `CallsRight` | `HostSpec => []CallRight` |
| | `PoolKeepsOutputs` | `PoolSpec => []OutputIntact` |
| `Forward_proofs` | `ForwardsRight` | `~MonoWithDP` implies `Spec => []ForwardRight` |
| | `OutputsRight` | `~MonoWithDP` implies `Spec => []OutputRight` |
| | `OpsServeTheirLayers` | `RealModels` implies `OpsSpec => []OpsRight` |
| | `ExpertsExact` | `~WeightOnly` implies `ExpertsSpec => []OutputExact` |
| | `CapturesNeverSync` | `ExpertsSpec => []CaptureNeverSyncs` |
| `EPLayer_proofs` | `RanksAgree` | `Spec => []CollectivesAgree` |
| | `SpansRight` | `Spec => []SpansMatch` |
| | `ReadsRight` | `Spec => []ReadsOwnLayer` |
| `Setup_proofs` | `PathsUniform` | `"table" \notin Local` implies `Spec => []PathsAgree` |
| | `RestartsKeepOutput` | `Strict` and `~Rebuilds` imply `CacheSpec => []RestartKeepsOutput` |
| | `FaultsReported` | `~Regrows` implies `NixlSpec => []FaultsExact` |
| | `WorkspacesGrowTogether` | `WorkspaceSpec => []WorkspaceFits` |
| | `HandlesSuit` | `LayersAlike` implies `HandlesSpec => []HandlesRight` |
| | `RoundTrips` | `DispatchSpec => []RoundTrip` |

`NumberLemmas` holds what several of them cite: division, the least member of a set of
naturals, induction, and the laws of sums over finite sets and of prefix sums. Induction
is there over a *set* of naturals (`SetInduction`), from which the sums are built up, so
that it needs no operator as a parameter; in this way the folds and counts of the models
can be reasoned about. The components that an `MC` module hosts side by side have their
`Spec` in the proof module when their own module has none (`NixlSpec`, `HostSpec`, ...).

Every hypothesis is a property of the constants, is met by the instance on which the
runs check the same property; what is known to fail without one is listed under the
findings above.

**GridBarrier**, for every set of blocks, arrival sets, seeders, number of calls and
launches, garbage and device. Assumptions: `BarrierAssumption` (the sets are finite,
seeders belong to their arrival sets, there are at most 2^31 blocks), and for all but
the first theorem `FreshSlots`, that two call sites of a launch do not share a word:
the kernel's use. `BarrierSafe` is not inductive: that nobody is past call k says
nothing of the counter. The inductive invariant says in addition, for every arrival
set and call, what the word is: the number of arrivals before the seeder, then the seed
plus the arrivals less what the seeder has still to add back (`WordExact`); that
a block in the fold is the seeder; and that a block has spun only on a call it
has entered. Since the seed plus all arrivals is exactly 2^31 and one less is
not, bit 31 means that everybody has come. The lemmas on cardinalities of
`ArrivedSet` carry this from one step to the next; each action has one step in the
proof, and under it one per conjunct that it can disturb.

**BlockScan**, for any number of experts the host's test admits, a power of two or not, any
counts and any tile height, from `ScanAssumption` alone. A thread is where the number of
`__syncthreads()` it has arrived at puts it: two with equal counts execute the same
statement with the same d, and nobody is more than one ahead (`InStep`, `Paced`). So at
the start of a round of the scan every thread's partial is the sum over the last d
experts up to its own (`NoDoubleCount`), a thread that has loaded holds the window before
that, whatever the others have added since, and after the last round the window
reaches expert 0. `ResultRight` says that what a thread then writes is what
the serial loop over the experts would have written in the same place.

**MonoKernel**, for any grid, warps, threads, experts, expert map, top-k, routing, tile
height and number of launches, from `KernelAssumption` alone. Two things have to be
carried from the router to the outputs. One is arithmetic: with the histogram that
Phase 0 leaves, the offsets and tile bases are the prefix sums of the counts and of
the rounded-up counts, the regions of two experts do not meet, each row of a region is
in one tile and each tile's rows are in one region, and the host's test of the shape
bounds the number of tiles (`TilingRight`, `TilesBounded`). The other is the order of
the rounds: the invariant says for each array what it holds in each round, of what
has been done so far. `RoundsDone` says that a block behind a barrier has all blocks'
work of the earlier rounds behind it; `RoutingRight` that the histogram counts exactly
the slots routed in this launch; `Planned` that offsets, cursors and tiles are the plan
of that histogram; `ScatterRight` that a cursor stands at its offset plus the slots
already placed, whatever the order of the atomics, so that no two slots get one
row; `TilesRight` what a finished tile has written in `output_accum`; `SumsRight` the
output. `OutputExact` is not inductive because it is silent about everything but the
last round; and the scratch before its round holds anything at all.

**TPEpilogue**, for any number of ranks, compute and communication blocks, chunks and
launches, from `EpilogueAssumption` (positive numbers) alone. `PadsSafe` is type
correctness, that no rank gets two launches ahead, and that no rank is let past a pad
by an arrival it does not wait for. Why a rank cannot run ahead: its kernel retires
when all its communication blocks are done; a block that is done has been let through
a pad in this launch; it saw there, from every rank, a sequence number that is not
below its own; and a rank writes only the number of a launch it has started. `Met` is
that chain as an invariant, `Numbered` says what the words on the pads are worth,
`BlocksPlaced` where a block can be in a launch of n chunks, and `CountsRight` that
`tp_ready` and `tp_done_local` are the numbers of blocks they count, which type
correctness needs. All steps of a communication block are instances of one lemma,
`BlockMoves`; the compute blocks and the stores go through `BlocksRest`.

`RetiredComplete` needs to know what an arrival is a proof of. A second invariant,
`SInv`, says it: who arrives at a chunk's pad has all compute blocks' partials of the
chunk behind it, who arrives at the final pad has all stores fenced (`ArrivalsRight`);
the number on a pad keeps saying so as long as it stands there (`PadsRight`); and so a
block that was let through may rely on it for every rank (`ThroughRight`). With it
`BufferRight` gives every cell of every buffer: an old launch's, the partial, or, when
its shard has been reduced and the store has arrived, the sum. `StoresRight` bounds what
is under way. For the refinement each step of a block is then a stutter of the collective
or the one step that it stands for.

**Launch_proofs.** `CutsAgree`, for every accepted launch: the launcher checks that
chunks consist of whole units of TP_MM, and the compute blocks cut vectors of W. That
the former implies the latter (`WholeVectors`) is not true of every width; it is proved
for the widths the repository builds for, for any number of tokens, because both have
more factors of two than a chunk count up to TP_MAX_C can take away. `WeightsRight` has
the invariant that a layer past the loader's checks fits them (`Fits`), and what unit
and scale are at each step; the rest is division: a row of a rank's slice and its block
of scales are cut at the same place when the slice is a multiple of the block.
`WeightsFit` assumes that a build reports its geometry and router, and none without a
local number of experts was compiled for a part of them (`RealBuilds`), and that an
expert map is a map or a mask (`RealLayers`): vLLM makes no other. `HostIInv` links what
is enabled to what was compared, and an output that is used to the call that made it.

**SymmPool**, for any number of ranks, microbatches, layers and replays, any order of the
turns and whatever the pads held before: from `PoolAssumption` alone. Launches are told by their
place in the program, and sequence numbers by the count of launches before it; a number
on a pad that is not below a launch's own was put there for that launch or a later
one (`NumberTells`). So who is let through a pad knows how far all ranks are (`LetThrough`):
a launch is behind a rank only when all have stored their shards, and nobody has stored one
before all have announced their terms (`LaunchesMeet`). `Rendezvous` says why no number is
lost when the pads are zeroed with no barrier behind it: before its first launch a rank
has been through an all-reduce, which the others reach with their pads zeroed. With that a
slot holds the terms of the latest launch its microbatch has begun on the rank and
every shard stored for it (`SlotHolds`), and the launch just before a residual add is that
one (`LaunchBeforeUse`).

**FusedPlan**, for any ranks, sizes, tables, binaries, number of forwards, and
whatever else may differ between the ranks. The assumption names the one input that
is read locally in a forward and not voted on. The invariant adds that all ranks
have the same plan, that only capable ranks come to the rendezvous, and that a rank
in a forward is where its decision would send it; `SameDecision` does the rest.

**CompileCache**, for any paths, files and number of restarts. The invariant is on the
cache: every graph in it holds the answers that *some* environment, with nothing set that
is not listed, gives under the graph's key (`CacheFaithful`). Two such environments with
one key agree on all that the answers are made of, which is what the key is for. `Strict`
is vLLM's setting to refuse unknown names, `~Rebuilds` that the library files stay.

**MoERunner**, for every configuration that vLLM admits, any thresholds and chunk
tables. The invariant gives, for each place of a forward, the shared tensor, the one
pending, the output slot and the number of collectives, in terms of what the traced side
has been told: `Claimed` when the pool's address says that it is reduced, and what a
kernel leaves otherwise. The two sides decide from the same predicates at different
times, and the proof is that they decide alike. `MonoWithDP` is the subject of a finding.

**LayerOps**, for any model of any number of layers and widths: that the counter of a
forward context is the place of its microbatch (`PlaceRight`), however the
microbatches interleave, and which width each tensor has between the stages
(`WidthRight`). `RealModels` asks for at least one layer and positive widths.

**EPExperts**, for any number of rows, slots, experts and ranks, any widths and every
feasible setting. Two things are shown. Routing: of a row that is cut to fewer columns every
owned slot is left, once, with its own weight, and whatever else is left is foreign
(`Keeps`); that the packed row has each owned slot in the place of its rank, and that the
stable sort has the owned ones in front (`PlaceOnto`), is counting. Memory: what each
stage leaves in the cells of the slots that the next one reads, `Up`, `Activated` and
`Worth`, in views of one stride over what was a view of another (`WrittenReads`); cells of
other slots may hold anything. `OutputExact` itself speaks of the last stage only, and is
not inductive. `WeightOnly` lets LoRA meet dispatched tokens that are not quantized,
which the run leaves out too. `CaptureNeverSyncs` needs no more than the flags.

**EPLayer**, for any set of ranks, any number of layers and every configuration, from
`LayerAssumption` and `SetupAssumption`: overlap implies asynchronous steps and excludes the
timer's synchronous mode; a rank without rows skips its experts only where steps are
asynchronous and shapes are not static. The three invariants build on
each other. `EPIInv`: where a rank's two threads can be, and whose turn it is (`InTurn`), fixes
how many collectives the rank has queued (`Complete`), and the i-th one is the one a round of
the layer has in that place (`InCourse`); two ranks can differ only in how far they
are. `SpanIInv`: a span is open exactly between the places that begin and end it. For
`ReadsOwnLayer` the operations of a microbatch are numbered through all layers, six main
ones to a layer and the shared experts beside them. `Good` says that there are numbers, one
of the operations already run and one of those queued, such that the two queues hold exactly
what is between them (`Listed`, `Covered`), each queue in order (`Ordered`), and each
operation on one stream waits, by its event or through one before it, for its predecessor in the
other (`Waiting`). So the operation a stream is free to run is always the next in number; and
that number gives the layer of every buffer (`Filled`), because each buffer is written and
read at fixed places of a layer. `Args` and `ThreadSuits` carry what the host hands over: the
handle, the rows and the mark of the event. The streams, the threads and the other ranks are
then told apart: a step of one rank's stream leaves alone what the others rely on
(`Undisturbed`), but for the collectives, which run on all ranks in one step.

**NixlManager**, for any number of ranks and any history. Among the active ranks the mask
is exactly the history of failures (`MaskIsHistory`), the staged ones are masked
(`StagedMasked`), and a manager larger than what is connected meets no stage of another
(`NoForeignStage`), which is what `Regrows` breaks.
**Workspace**, for any stages, group sizes and models: the ranks of a stage move through
the layers at different paces, so the invariant is on pairs: two that build are at the
same layer with the same bounds, and one that lags behind a builder will come to build the
same (`ComesToBuild`), since all layers in between fit what it has and that one does not.
**Handles**: a handle was made with its layer's own arguments; for low-latency buffers
and v2's SM count that holds only when the layers are alike in them (`LayersAlike`), as the
layers of a model are.
**NaiveDispatch**, for any numbers of data-parallel, context-parallel and tensor-parallel
ranks, any layouts that `DispatchAssumption` admits, any batches and number of layers.
`RoundTrip` speaks of a rank that is home and is not inductive. `DispatchInv` says what
every rank holds at every stage (`RankRight`): the columns it sends, all rows of its group in
the order of the peers, those rows answered by itself, its own rows answered by its group,
its own rows answered by all. And it says that the ranks of a group of experts have
been through equally many exchanges and those of a reduction through equally many
reductions (`InStep`), so that ranks that meet in a collective are in the same layer
(`OneLayer`). The lemmas before it are on three things. Groups: a group is its
numbered peers, numbered alike by every member (`Peers`), and every rank shares its group of
experts with exactly one rank of each reduction (`Reducers`), hence one answer from each.
Rows: the sizes that the forward context keeps are what the ranks of the group send
(`SizesTyped`), so that the rows lie at prefix sums and each has one owner (`Owners`,
`OwnRows`). Columns: what is appended in one order is taken apart by name again
(`SheetOfNames`, `UnpackedNamed`).

TLC evaluates the constant assumptions on the instances of the runs, and the inductive
invariants were checked on them before they were proved.

Left to TLC: liveness (`EveryLaunchRetires`, `ScanEnds`, `LaunchEnds`, `AllRetire`,
`AllServed`, `TrialsEnd`, `NobodyStranded`, `EveryLayerEnds`, `EveryoneBuilds`), since
fairness and ENABLED are out of the prover's reach; and two invariants. `OperandsRight`
is checked on one geometry; a proof needs the place of every warp relative to the next
barrier of its block and of its group, and what that says of each slot of the rings.
`TrialsRight` is about given programs of some dozens of steps; what can go wrong is in how
the ranks interleave them, which the run explores completely for three ranks. A proof for
any number of ranks and repeats would need the state at every step of each of the 18
programs. Neither has been attempted.

## 5. What is not modelled

* `TilePipeline` leaves out the numbers, and the rows of a ragged tile that are zeroed in
  place of being copied. It is not composed with `MonoKernel`, where a tile is one step.
* Weak memory. Steps are sequentially consistent, but for the multicast stores
  of the epilogue, which are delayed until a fence. The release and acquire
  fences of the barriers are taken to do what their comments say. `__syncthreads` is taken
  to order the set-up of an mbarrier before the copies of the TMA engine, for which
  `ptx_utils.h:286-294` asks for a fence that no kernel issues.
* Numerics: scores, scales, FP8 rounding, NaN logits (for which the selection
  loop yields the index INT32_MAX). Routings are distinct experts per token.
* The wrap of the launch sequence after 2^32 launches, which the source names as
  a limit.
* `_custom_ops.py` but for the monokernel, and the table of `envs.py` but for one
  variable of each sort: some 7000 lines of wrappers and getters, one like the other.
* The selection of a kernel from tables of supported devices and formats
  (`modular_kernel.py`, `triton_moe.py`); the layout a backend repacks weights into.
* In the runner: the zero expert, the fused gate, the route probe. In DeepEP: token
  quantization. The two-sided FlashInfer manager.
* The patch (the same changes as a diff), the build script, benchmarks, archive, docs.

## 6. Plan

Next, in this order:

1. Proof of `TrialsRight`.
2. Proof of `OperandsRight`, and `TilePipeline` as an implementation of `RunTile`.
3. `Router`: the group-limited top-k selection of a warp against its definition.
4. Composition of `TPEpilogue` with the grid barriers before Phase 3.
