----------------------------- MODULE Fp8Weights ------------------------------
(* From the checkpoint to the kernel (quantization/fp8.py).  Fp8Config picks *)
(* a method for each layer; Fp8LinearMethod and Fp8MoEMethod make the        *)
(* parameters, the loader fills them with this rank's slice, and             *)
(* process_weights_after_loading brings them into the form the kernel takes. *)
(*                                                                           *)
(* A weight is worth what is stored times a scale, and the product must      *)
(* survive.  With block scales the weights and the scales of a rank are cut  *)
(* separately, and the kernel finds a weight's scale by dividing its place in *)
(* the stacked matrix.  Without, the shards of a fused matrix come with a    *)
(* scale each, while the kernel takes one.                                   *)
EXTENDS Naturals, FiniteSetsExt

CONSTANTS
    Checkpoints,    \* what the checkpoint's config says of a layer
    Slices          \* shapes, ranks and platforms

Checkpoint == [kind : {"linear", "experts", "attention"}, ignored : BOOLEAN,
               serialized : BOOLEAN, static : BOOLEAN, block : BOOLEAN, mxfp4 : BOOLEAN]
\* inter is intermediate_size_per_partition; shards are gate and up, or the parts
\* of a fused linear layer; cut says that the linear layer is cut along its input.
Slice == [tp : Nat, rank : Nat, inter : Nat, blockN : Nat, blockK : Nat, shards : Nat,
          fnuz : BOOLEAN, marlin : BOOLEAN, cutlass : BOOLEAN, invariant : BOOLEAN]

\* Batch invariance is for devices with FP8 arithmetic, Marlin for those without.
ASSUME WeightsAssumption ==
    /\ Checkpoints \subseteq Checkpoint
    /\ \A s \in Slices : /\ s \in Slice /\ s.rank < s.tp
                         /\ s.blockN > 0 /\ s.blockK > 0
                         /\ s.marlin => ~ s.invariant /\ ~ s.cutlass

VARIABLES
    file,       \* fixed
    slice,      \* fixed
    step,       \* how far the layer is
    method,     \* the quant method
    unit,       \* matrix -> shard -> what a stored 1 is worth
    scale,      \* matrix -> shard -> scale, or block -> block of the checkpoint
    inputs      \* expert, or shard -> activation scale, or the one for all

weightVars == << file, slice, step, method, unit, scale, inputs >>

Nil == << >>
Shards == 0..(slice.shards - 1)
Steps == {"config", "method", "create", "load", "process", "ready", "raised", "elsewhere"}

WeightsInit ==
    /\ file \in Checkpoints
    /\ slice \in Slices
    /\ step = "config" /\ method = "none"
    /\ unit = Nil /\ scale = Nil /\ inputs = Nil

-----------------------------------------------------------------------------
(* The method.                                                               *)

\* Fp8Config: block scales only in an FP8 checkpoint with dynamic activations.
Contradicts == file.block /\ (~ file.serialized \/ file.static)

Configure ==
    /\ step = "config"
    /\ step' = IF Contradicts THEN "raised" ELSE "method"
    /\ UNCHANGED << file, slice, method, unit, scale, inputs >>

Method ==
    IF file.kind = "attention" THEN "kv cache"
    ELSE IF file.ignored THEN "unquantized"
    ELSE IF file.kind = "experts" /\ file.mxfp4 THEN "mxfp4"
    ELSE IF file.serialized THEN "offline" ELSE "online"

GetQuantMethod ==
    /\ step = "method"
    /\ method' = Method
    /\ step' = IF Method = "offline" THEN "create" ELSE "elsewhere"
    /\ UNCHANGED << file, slice, unit, scale, inputs >>

-----------------------------------------------------------------------------
(* The parameters.                                                           *)

CeilDiv(a, b) == (a + b - 1) \div b
RowBlocks == CeilDiv(slice.inter, slice.blockN)
ColumnBlocks == CeilDiv(slice.inter, slice.blockK)

\* validate_fp8_block_shape: the shards of a linear layer that is fused or split
\* must not share a block, and a rank's columns must begin with one.
Misplaced == slice.tp > 1 /\ slice.inter % slice.blockK # 0
LinearMismatch ==
    \/ slice.inter % slice.blockN # 0 /\ (slice.tp > 1 \/ slice.shards > 1)
    \/ Misplaced

CreateLinearWeights ==
    /\ step = "create" /\ file.kind = "linear"
    /\ step' = IF file.block /\ LinearMismatch THEN "raised" ELSE "load"
    /\ UNCHANGED << file, slice, method, unit, scale, inputs >>

\* gate and up of the experts are always stacked.
MutUnaligned == slice.tp > 1 /\ slice.inter % slice.blockN # 0
Unaligned == slice.inter % slice.blockN # 0

CreateMoEWeights ==
    /\ step = "create" /\ file.kind = "experts"
    /\ step' = IF file.block /\ (Unaligned \/ Misplaced) THEN "raised" ELSE "load"
    /\ UNCHANGED << file, slice, method, unit, scale, inputs >>

\* The scales on disk: one for each shard of the first matrix, and one for the
\* second; the activations have one for each expert, or shard.
OnDisk == [first |-> [s \in Shards |-> 3 + 2 * s], second |-> [s \in {0} |-> 7]]
InputsOnDisk == [i \in {0, 1} |-> 4 + i]

\* The loader gives a rank the rows of its rank in every shard, and as many
\* blocks of scales as its parameter holds.
Loaded ==
    [first |-> [q \in 0..(slice.shards * RowBlocks - 1) |->
                    << q \div RowBlocks, (slice.rank * RowBlocks) + (q % RowBlocks) >>],
     second |-> [q \in 0..(ColumnBlocks - 1) |-> << 0, slice.rank * ColumnBlocks + q >>]]

LoadWeights ==
    /\ step = "load"
    /\ unit' = OnDisk
    /\ scale' = IF file.block THEN Loaded ELSE OnDisk
    /\ inputs' = IF file.static THEN InputsOnDisk ELSE Nil
    /\ step' = "process"
    /\ UNCHANGED << file, slice, method >>

-----------------------------------------------------------------------------
(* process_weights_after_loading.                                            *)

Twice(f) == [m \in DOMAIN f |-> [s \in DOMAIN f[m] |-> 2 * f[m][s]]]
Largest(f) == Max({f[s] : s \in DOMAIN f})
Level(f) == [s \in DOMAIN f |-> Largest(f)]

\* process_fp8_weight_tensor_strategy(_moe): the shards are quantized again with
\* the largest scale.  process_fp8_input_tensor_strategy_moe, and input_scale.max().
Requantized(f) == IF file.block THEN f ELSE [f EXCEPT !.first = Level(@)]
MutOneInput(f) == [i \in {0} |-> f[0]]
OneInput(f) == [i \in {0} |-> Largest(f)]

\* Marlin takes a scale for each shard and leaves the activations as they are.
Marlin == file.kind = "linear" /\ slice.marlin

ProcessLinearWeights ==
    /\ step = "process" /\ file.kind = "linear"
    /\ unit' = IF Marlin THEN unit ELSE Requantized(unit)
    /\ scale' = IF Marlin THEN scale ELSE Requantized(scale)
    /\ inputs' = IF file.static /\ ~ Marlin THEN OneInput(inputs) ELSE inputs
    /\ step' = "ready"
    /\ UNCHANGED << file, slice, method >>

\* normalize_e4m3fn_to_e4m3fnuz: the same bits are worth half of what they were.
Worth == IF slice.fnuz THEN Twice(unit) ELSE unit
Normal == IF slice.fnuz /\ ~ file.block THEN Twice(scale) ELSE scale
InputsNormal == IF slice.fnuz THEN [i \in DOMAIN inputs |-> 2 * inputs[i]] ELSE inputs

ProcessMoEWeights ==
    /\ step = "process" /\ file.kind = "experts"
    /\ unit' = Requantized(Worth)
    /\ scale' = Requantized(Normal)
    /\ inputs' = IF file.static THEN OneInput(InputsNormal) ELSE inputs
    /\ step' = "ready"
    /\ UNCHANGED << file, slice, method >>

\* The weights are loaded anew, into parameters that replace_parameter has kept
\* loadable.
Reload ==
    /\ step = "ready"
    /\ step' = "load"
    /\ UNCHANGED << file, slice, method, unit, scale, inputs >>

\* The config or the partition is refused, or the layer goes to another method.
Left == step \in {"raised", "elsewhere"}

WeightsNext ==
    \/ Left /\ UNCHANGED weightVars
    \/ Configure \/ GetQuantMethod
    \/ CreateLinearWeights \/ CreateMoEWeights \/ LoadWeights
    \/ ProcessLinearWeights \/ ProcessMoEWeights \/ Reload

-----------------------------------------------------------------------------
(* Properties.                                                               *)

\* The blocks that the kernel reads for row i of shard s, and for column i.
RowBlock(s, i) == scale.first[(s * slice.inter + i) \div slice.blockN]
ColumnBlock(i) == scale.second[i \div slice.blockK]
OwnRow(s, i) == << s, (slice.rank * slice.inter + i) \div slice.blockN >>
OwnColumn(i) == << 0, (slice.rank * slice.inter + i) \div slice.blockK >>

\* apply without a kernel for it multiplies by the one scale there is.
Dequantizes ==
    file.kind = "linear" /\ slice.invariant /\ ~ file.block /\ ~ slice.cutlass

\* Whatever the shape, the rank, the scheme and the platform, and after a reload
\* too: a layer that is not refused multiplies every weight of its slice by the
\* scale that this weight was stored with, in its own shard and its own block; one
\* scale serves where the path takes one; and no activation scale is below that of
\* any expert.
WeightsRight ==
    step = "ready" =>
        IF file.block
        THEN \A i \in 0..(slice.inter - 1) :
                /\ \A s \in Shards : RowBlock(s, i) = OwnRow(s, i)
                /\ ColumnBlock(i) = OwnColumn(i)
        ELSE /\ unit = scale
             /\ ~ Marlin \/ Dequantizes => \A s \in Shards : scale.first[s] = scale.first[0]
             /\ file.static /\ ~ Marlin =>
                    \A i \in DOMAIN InputsOnDisk : inputs[0] >= InputsOnDisk[i]

=============================================================================
