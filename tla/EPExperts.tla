------------------------------- MODULE EPExperts -------------------------------
(* The experts of one expert-parallel rank, from what DeepEP delivers to the *)
(* rows that go back: the receiver (prepare_finalize/deepep_ht.py), the      *)
(* buffers (modular_kernel.py), TritonExperts.apply (experts/triton_moe.py)  *)
(* and the pad-aware activation (fast_silu_quant.py), together with the gate *)
(* that compares the arms (validation/ep_silu_gate.py).                      *)
(*                                                                           *)
(* Three optimizations leave memory unwritten or narrow the routing: the     *)
(* compaction of the top-k slots, the ragged grid, and the masked            *)
(* activation.  Each is safe only because of what another stage skips, and   *)
(* the buffers of the stages share memory.  A cell of memory holds what was  *)
(* computed into it, or junk.                                                *)
EXTENDS Integers, Sequences, FiniteSets

CONSTANTS
    MaxRows,    \* bound: received tokens
    TopK,       \* slots per token
    LocalE,     \* experts per rank
    NumRanks,
    Dims,       \* << N, K, activation_out_dim >> considered, in units of memory
    WeightOnly  \* LoRA may meet dispatched tokens that are not quantized

ASSUME ExpertsAssumption ==
    /\ {TopK, LocalE} \subseteq Nat \ {0} /\ MaxRows \in Nat
    /\ NumRanks \in Nat \ {0, 1}
    /\ Dims \subseteq (Nat \ {0}) \X (Nat \ {0}) \X (Nat \ {0})
    /\ WeightOnly \in BOOLEAN

VARIABLES
    setting,        \* environment and shapes, fixed
    recv,       \* what arrived: row -> slot -> local expert or -1
    doing,
    cols,      \* columns of topk_ids
    ids, wts,   \* slot -> global expert id; slot -> the source column of its weight
    ws13, ws2,  \* workspace13 and workspace2
    q,          \* the quantized activation, slot -> value
    fused_out,        \* fused_out when it aliases the caller's output
    synced      \* the host waited for the device in this call

expertsVars == << setting, recv, doing, cols, ids, wts, ws13, ws2, q, fused_out, synced >>

-----------------------------------------------------------------------------
(* Configuration.                                                            *)

Configs ==
    [compact : 0..2,        \* VLLM_EP_TOPK_COMPACT
     worst : BOOLEAN,       \* VLLM_EP_CG_WORST
     masked : BOOLEAN,      \* VLLM_EP_MASKED_SUM
     silu : 0..2,           \* VLLM_EP_FAST_SILU
     fused : BOOLEAN,       \* SiLU and block quantization in one kernel
     supported : BOOLEAN,   \* the shape suits the Triton kernel
     mapped : BOOLEAN,      \* tokens are dispatched, and there is an expert_map
     lora : BOOLEAN,        \* a LoRA context is set
     quantized : BOOLEAN,   \* activations are (quant_dtype)
     wna16 : BOOLEAN,       \* TritonWNA16Experts
     capturing : BOOLEAN,   \* a CUDA graph is being captured
     alias : BOOLEAN,       \* as many rows as the caller has tokens
     rank : 0..(NumRanks - 1),
     dims : Dims,
     gate : {"no", "skipped", "written"}]   \* the arm of the gate, if it runs

\* The import refuses these pairs of flags.
MutAdmissible(c) == c.worst => c.masked
Admissible(c) == (c.worst => c.masked) /\ ~ (c.worst /\ c.compact # 0)

\* The gate's Chain: apply's stages over a routing of its own, on either grid.
GateChain(c) ==
    /\ c.mapped /\ c.compact = 0 /\ ~ c.worst
    /\ c.silu = 2 /\ c.fused /\ c.supported

\* A dispatch of dynamic width spins on the host, so nobody captures it; without
\* expert parallelism there is no dispatch; LoRA needs the unfused activation; the
\* gate runs the masked kernel alone.
Feasible(c) ==
    /\ c.capturing => c.worst
    /\ ~ c.mapped => c.compact = 0 /\ ~ c.worst /\ c.rank = 0 /\ c.alias
    /\ c.fused => c.quantized /\ ~ c.lora /\ ~ c.wna16
    /\ ~ c.fused => c.silu = 0 /\ c.supported
    /\ c.lora => ~ c.wna16 /\ (c.quantized \/ WeightOnly)
    /\ c.quantized \/ c.lora \/ c.wna16
    /\ c.gate # "no" => GateChain(c)

N == setting.dims[1]
K == setting.dims[2]
ActDim == setting.dims[3]

NumExperts == LocalE * NumRanks
Offset == setting.rank * LocalE

\* The rows a rank can receive: distinct experts, at least one of them here.  A
\* capture pads with rows that own nothing.
Injective(f) == \A i, j \in DOMAIN f : i # j /\ f[i] # -1 => f[i] # f[j]
RowsOf(c) ==
    LET experts == IF c.mapped THEN -1..(LocalE - 1) ELSE 0..(NumExperts - 1) IN
    {f \in [0..(TopK - 1) -> experts] :
        /\ Injective(f)
        /\ (c.worst /\ c.capturing) \/ \E k \in DOMAIN f : f[k] # -1}

-----------------------------------------------------------------------------
(* Values.  A number is junk, the gate's poison, or the sum of the experts'  *)
(* answers in "terms"; a term has a weight when the down projection is done, *)
(* and names the token that LoRA saw.                                        *)

Junk == [kind |-> "junk", terms |-> {}]
Poison == [kind |-> "poison", terms |-> {}]
Sum0(terms) == [kind |-> "value", terms |-> terms]
Zero == Sum0({})
Term(r, e, w, x) == [row |-> r, expert |-> e, weight |-> w, lora |-> x]

Weighted(v, w) ==
    [v EXCEPT !.terms = {[t EXCEPT !.weight = w] : t \in @}]

\* A sum with a bad summand is bad.
SumOf(vs) ==
    IF Poison \in vs THEN Poison
    ELSE IF Junk \in vs THEN Junk
    ELSE Sum0(UNION {v.terms : v \in vs})

\* Slot s of a view with the given stride over a workspace.
Cells(s, stride) == (s * stride)..((s + 1) * stride - 1)
Read(ws, s, stride) ==
    LET vs == {ws[i] : i \in Cells(s, stride)}
    IN  IF Cardinality(vs) = 1 THEN CHOOSE v \in vs : TRUE ELSE Junk
Write(ws, S, stride, V(_)) ==
    [i \in DOMAIN ws |-> IF i \div stride \in S THEN V(i \div stride) ELSE ws[i]]

-----------------------------------------------------------------------------
(* The receiver.                                                             *)

NumRows == Len(recv)
Row(r) == recv[r + 1]
Slots == 0..(NumRows * cols - 1)

Fake == IF Offset = 0 THEN NumExperts - 1 ELSE 0
Global(id) == IF id = -1 THEN Fake ELSE id + Offset

\* The columns of a row that this rank owns, and how many of S come before k.
OwnedCols(r) == {k \in 0..(TopK - 1) : Row(r)[k] # -1}
Rank(S, k) == Cardinality({i \in S : i < k})

\* _ep_amax_kernel: the widest row.
NumOwned(r) == Cardinality(OwnedCols(r))
Widest == CHOOSE w \in 0..TopK :
    /\ \E r \in 0..(NumRows - 1) : NumOwned(r) = w
    /\ \A r \in 0..(NumRows - 1) : NumOwned(r) <= w

NoWeight == -1

\* _ep_pack_kernel, column j of row r: the owned slot of rank j, or filler.
Hits(r, j) == {k \in OwnedCols(r) : Rank(OwnedCols(r), k) = j}
MutPacked(r, j) ==
    IF Hits(r, j) = {} THEN [id |-> Fake, wt |-> NoWeight]
    ELSE LET k == CHOOSE k \in Hits(r, j) : TRUE
         IN  [id |-> Row(r)[k] + Offset, wt |-> j]
Packed(r, j) ==
    IF Hits(r, j) = {} THEN [id |-> Fake, wt |-> NoWeight]
    ELSE LET k == CHOOSE k \in Hits(r, j) : TRUE
         IN  [id |-> Row(r)[k] + Offset, wt |-> k]

\* The eager version gathers by a stable sort, so a tail keeps its weight.
Place(r, k) ==
    IF k \in OwnedCols(r) THEN Rank(OwnedCols(r), k)
    ELSE NumOwned(r) + Rank(0..(TopK - 1) \ OwnedCols(r), k)
Sorted(r, j) ==
    LET col == CHOOSE k \in 0..(TopK - 1) : Place(r, k) = j
    IN  [id |-> Global(Row(r)[col]), wt |-> col]

Default(r, j) == [id |-> Global(Row(r)[j]), wt |-> j]
Unmapped(r, j) == [id |-> Row(r)[j], wt |-> j]

Compacts == setting.mapped /\ setting.compact # 0 /\ NumRows > 0

\* _compact_expert_topk and its eager version.
Narrow == IF setting.compact = 1 THEN (IF Widest = 0 THEN 1 ELSE Widest)
          ELSE IF Widest = 0 THEN TopK ELSE Widest

Slot(r, j) ==
    IF ~ setting.mapped THEN Unmapped(r, j)
    ELSE IF ~ Compacts \/ Narrow >= TopK THEN Default(r, j)
    ELSE IF setting.compact = 1 THEN Packed(r, j) ELSE Sorted(r, j)

\* A static dispatch does not wait for the counts; the compaction reads its
\* width back.
Dispatched == IF setting.worst /\ setting.capturing THEN FALSE ELSE setting.mapped

Receive ==
    /\ doing = "receive"
    /\ cols' = IF Compacts THEN Narrow ELSE TopK
    /\ ids' = [s \in 0..(NumRows * cols' - 1) |-> Slot(s \div cols', s % cols').id]
    /\ wts' = [s \in 0..(NumRows * cols' - 1) |-> Slot(s \div cols', s % cols').wt]
    /\ synced' = (Dispatched \/ Compacts)
    /\ doing' = IF NumRows = 0 THEN "empty" ELSE "allocate"
    /\ UNCHANGED << setting, recv, ws13, ws2, q, fused_out >>

-----------------------------------------------------------------------------
(* Buffers and stages.                                                       *)

Larger(a, b) == IF a > b THEN a ELSE b
Size2 == NumRows * cols * Larger(N, K)
Size13 == Larger(NumRows * cols * Larger(ActDim, K), NumRows * K)

\* _allocate_buffers: workspace13 is the output too, unless the caller's fits.
\* Neither workspace is cleared; _resize_cache insists that a view fits.
Allocate ==
    /\ doing = "allocate"
    /\ ws13' = [i \in 0..(Size13 - 1) |-> Junk]
    /\ ws2' = [i \in 0..(Size2 - 1) |-> Junk]
    /\ fused_out' = [i \in 0..(NumRows * K - 1) |-> Junk]
    /\ doing' = IF NumRows * cols * N <= Size2 /\ NumRows * cols * K <= Size2
                /\ NumRows * cols * ActDim <= Size13 THEN "gemm1" ELSE "assertion"
    /\ UNCHANGED << setting, recv, cols, ids, wts, q, synced >>

\* expert_map, -1 for an expert of another rank.
MutExpertMap(g) == IF g \in Offset..(Offset + LocalE - 2) THEN g - Offset ELSE -1
ExpertMap(g) == IF g \in Offset..(Offset + LocalE - 1) THEN g - Offset ELSE -1
Owned(s) == setting.mapped => ExpertMap(ids[s]) # -1

\* The WNA16 experts know neither the ragged grid nor the pad-aware sum.
WholeRectangle == setting.wna16
Ragged == setting.mapped /\ setting.masked /\ ~ WholeRectangle

\* The unquantized activations for the LoRA shrink: the dispatched ones, if their
\* quantization was deferred to here; otherwise the caller's, if the number of
\* rows is the same; otherwise what there is.
NoLora == -1
Foreign == -2
Stash(r) == IF setting.mapped THEN Foreign ELSE r
Deferred == setting.mapped /\ setting.quantized
LoraInput(r) ==
    IF ~ setting.lora THEN NoLora
    ELSE IF ~ Deferred /\ setting.alias THEN Stash(r) ELSE r

\* The grid of both GEMMs (moe_align_block_size): owned slots, or the rectangle.
\* A block of a foreign expert writes zeros and reads nothing.
Grid == IF Ragged THEN {s \in Slots : Owned(s)} ELSE Slots

\* intermediate_cache1 lies in workspace2.
RowOf(s) == s \div cols
Up(s) == IF Owned(s) THEN Sum0({Term(RowOf(s), ids[s], NoWeight, LoraInput(RowOf(s)))}) ELSE Zero

Gemm1 ==
    /\ doing = "gemm1"
    /\ ws2' = Write(ws2, Grid, N, Up)
    /\ doing' = "activation"
    /\ UNCHANGED << setting, recv, cols, ids, wts, ws13, q, fused_out, synced >>

Cache1(s) == Read(ws2, s, N)

\* The rows that the activation writes: all, or the owned ones when it is masked.
Masked == setting.silu = 2 /\ setting.supported /\ setting.mapped
Written == IF setting.fused /\ Masked THEN {s \in Slots : Owned(s)} ELSE Slots

Fresh == IF setting.gate = "skipped" THEN Poison ELSE Junk
Quantized(s) ==
    IF setting.gate = "written"
    THEN IF Owned(s) THEN Poison ELSE Zero
    ELSE IF s \in Written THEN Cache1(s) ELSE Fresh

\* In one kernel, or through intermediate_cache2, which lies in workspace13.
Activate ==
    /\ doing = "activation"
    /\ ws13' = IF setting.fused THEN ws13 ELSE Write(ws13, Slots, ActDim, Cache1)
    /\ q' = [s \in Slots |->
                IF setting.fused THEN Quantized(s) ELSE Read(ws13', s, ActDim)]
    /\ doing' = "gemm2"
    /\ UNCHANGED << setting, recv, cols, ids, wts, ws2, fused_out, synced >>

\* intermediate_cache3 lies in workspace2 again.  LoRA reads the activation that
\* was not quantized, which must still be there.
Activation(s) ==
    IF setting.lora /\ Read(ws13, s, ActDim) # q[s] THEN Junk ELSE q[s]

Down(s) == IF Owned(s) THEN Weighted(Activation(s), wts[s]) ELSE Zero

Gemm2 ==
    /\ doing = "gemm2"
    /\ ws2' = Write(ws2, Grid, K, Down)
    /\ doing' = "sum"
    /\ UNCHANGED << setting, recv, cols, ids, wts, ws13, q, fused_out, synced >>

\* moe_sum, which skips foreign slots in its pad-aware form.
SummedSlots(r) == {s \in Slots : RowOf(s) = r /\ (Ragged => Owned(s))}

RowSum(r) == SumOf({Read(ws2, s, K) : s \in SummedSlots(r)})

MoeSum ==
    /\ doing = "sum"
    /\ LET rows == 0..(NumRows - 1)
       IN  IF setting.alias THEN fused_out' = Write(fused_out, rows, K, RowSum) /\ UNCHANGED ws13
           ELSE ws13' = Write(ws13, rows, K, RowSum) /\ UNCHANGED fused_out
    /\ doing' = "done"
    /\ UNCHANGED << setting, recv, cols, ids, wts, ws2, q, synced >>

ExpertsInit ==
    /\ setting \in {c \in Configs : Feasible(c) /\ Admissible(c)}
    /\ recv \in UNION {[1..m -> RowsOf(setting)] : m \in 0..MaxRows}
    /\ doing = "receive"
    /\ cols = TopK
    /\ ids = << >> /\ wts = << >> /\ ws13 = << >> /\ ws2 = << >>
    /\ q = << >> /\ fused_out = << >>
    /\ synced = FALSE

Answered == doing \in {"done", "empty"} /\ UNCHANGED expertsVars

ExpertsNext == Receive \/ Allocate \/ Gemm1 \/ Activate \/ Gemm2 \/ MoeSum \/ Answered

ExpertsSpec == ExpertsInit /\ [][ExpertsNext]_expertsVars

-----------------------------------------------------------------------------
(* Properties.                                                               *)

Result(r) == IF setting.alias THEN Read(fused_out, r, K) ELSE Read(ws13, r, K)

\* What row r owes its sender: every slot of this rank, with its own weight.
Owed(r) ==
    {Term(r, IF setting.mapped THEN Row(r)[k] + Offset ELSE Row(r)[k], k,
          IF setting.lora THEN r ELSE NoLora) :
        k \in {c \in 0..(TopK - 1) : Row(r)[c] # -1}}

\* Whatever was skipped, narrowed or left unwritten, every row goes back with
\* exactly what it is owed: no stale or poisoned memory, no foreign slot, no
\* weight paired with another expert, no other token's LoRA; and no view outgrows
\* its workspace.  Nor is the gate's first direction vacuous: poison in the rows
\* that the masked kernel writes does reach the output.
OutputExact ==
    /\ doing # "assertion"
    /\ doing = "done" => \A r \in 0..(NumRows - 1) :
        Result(r) = IF setting.gate # "written" THEN Sum0(Owed(r))
                    ELSE IF Owed(r) = {} THEN Zero ELSE Poison

\* Nothing waits for the device while a graph is captured.
CaptureNeverSyncs == setting.capturing => ~ synced

=============================================================================
