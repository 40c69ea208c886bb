------------------------------- MODULE MoERunner -------------------------------
(* One MoE layer of one rank, forward after forward: MoERunner (fused_moe/   *)
(* runner/moe_runner.py), SharedExperts (runner/shared_experts.py) and the   *)
(* monokernel part of Fp8MoEMethod (quantization/fp8.py).                    *)
(*                                                                           *)
(* The output is the routed half, scaled, plus the shared half, and either   *)
(* half must be summed over the ranks that hold parts of it exactly once.    *)
(* Which of six places sums, scales and adds depends on the configuration    *)
(* and on the token count, and the places are in two functions of which one  *)
(* is traced once for all token counts.  A tensor is represented by what has *)
(* happened to its halves.                                                   *)
EXTENDS Integers

CONSTANTS
    Sizes,          \* token counts of a forward
    MaxTokens,      \* MOE_MONOKERNEL_PREFILL_MAX_TOKENS
    FusedSizes,     \* token counts in the fused plan's chunk table
    Thresholds,     \* VLLM_SHARED_EXPERTS_STREAM_TOKEN_THRESHOLD values considered
    MonoWithDP      \* the monokernel may be eligible in a data-parallel layer

ASSUME RunnerAssumption ==
    /\ Sizes \subseteq Nat /\ FusedSizes \subseteq Sizes
    /\ MaxTokens \in Nat /\ Thresholds \subseteq Nat
    /\ MonoWithDP \in BOOLEAN

VARIABLES
    cfg,        \* the layer's configuration, fixed
    threshold,  \* its stream threshold, fixed
    size,       \* token count of this forward
    pc,         \* the place in the forward
    pending,    \* SharedExperts._output: the shared half, or Nothing
    residual,   \* the shared half was there before the routed kernel ran
    pooled,     \* the routed output lies in the symmetric pool
    out,        \* the routed slot of the result
    shared,     \* the shared slot of the result
    collectives \* all-reduces of this forward

fixed == << cfg, threshold >>
vars == << fixed, size, pc, pending, residual, pooled, out, shared, collectives >>

Flags == {"tp", "dp", "ep", "sp", "deepep", "internal", "skip", "fp16", "transform",
          "shared", "overlap", "mono", "usable", "fold"}

\* What vLLM's configuration and the plan's constructor rule out.
\*   tp, dp      tensor- and data-parallel ranks, more than one of each
\*   ep, sp      expert parallelism, sequence parallelism
\*   deepep      an all-to-all backend that reduces, DeepEP
\*   internal    the quant method has a modular kernel (supports_internal_mk)
\*   overlap     the shared experts may overlap with the rest
\*   mono        _use_moe_monokernel;  usable, fold: the fused plan's answers
Possible(c) ==
    /\ c["sp"] => c["ep"] /\ c["tp"] /\ c["dp"]
    /\ c["deepep"] => c["ep"] /\ c["dp"] /\ c["internal"]
    /\ c["deepep"] /\ c["tp"] => c["sp"]
    /\ c["mono"] => c["internal"]
    /\ c["skip"] => ~ c["deepep"] /\ ~ c["transform"]
    /\ c["usable"] => c["tp"]
    /\ c["fold"] => c["tp"]
    /\ c["mono"] /\ c["dp"] /\ ~ c["deepep"] => MonoWithDP

-----------------------------------------------------------------------------
(* Tensors.  A half counts how often it was added in, its sums over the TP   *)
(* group and over the data-parallel ranks, its scalings, and says whether    *)
(* the output transform was applied: to a sum, or to a part.                 *)

Half == [copies : 0..1, tp : 0..1, dp : 0..1, scale : -1..1, xf : {"no", "whole", "part"}]
Raw == [copies |-> 1, tp |-> 0, dp |-> 0, scale |-> 0, xf |-> "no"]
Nothing == [Raw EXCEPT !.copies = 0]
Tensor == [routed : Half, shared : Half]

RoutedOnly(h) == [routed |-> h, shared |-> Nothing]

\* tensor_model_parallel_all_reduce: nothing to do in a group of one.
SummedHalf(h) == IF h = Nothing \/ ~ cfg["tp"] THEN h ELSE [h EXCEPT !.tp = @ + 1]
Summed(t) == [routed |-> SummedHalf(t.routed), shared |-> SummedHalf(t.shared)]

Scaled(t) == [t EXCEPT !.routed.scale = @ + 1]
Plus(t, h) == [t EXCEPT !.shared = [h EXCEPT !.copies = @ + t.shared.copies]]

-----------------------------------------------------------------------------
(* Predicates read by the code.                                              *)

MoETP == (cfg["tp"] \/ cfg["dp"]) /\ ~ cfg["ep"]
Parallel == cfg["tp"] \/ cfg["dp"]

FusedOutputIsReduced == cfg["deepep"]
CanOverlapShared == cfg["deepep"]

Eligible == cfg["mono"] /\ ~ CanOverlapShared /\ MoETP /\ ~ cfg["skip"]

ReduceFolded == Eligible /\ cfg["usable"]

MutFoldsShared == ReduceFolded /\ cfg["shared"] /\ cfg["fold"]
FoldsShared ==
    /\ cfg["shared"]
    /\ ReduceFolded
    /\ cfg["fold"]
    /\ ~ cfg["transform"] /\ ~ cfg["sp"] /\ ~ cfg["fp16"]

\* SharedExperts._determine_shared_experts_order.
Order ==
    IF ~ cfg["overlap"] THEN "none"
    ELSE IF CanOverlapShared THEN "kernel"
    ELSE IF size <= threshold THEN "stream" ELSE "none"

DoNaiveDispatchCombine == cfg["dp"] /\ ~ cfg["internal"]

-----------------------------------------------------------------------------
(* The forward.                                                              *)

Init ==
    /\ cfg \in [Flags -> BOOLEAN]
    /\ Possible(cfg)
    /\ threshold \in Thresholds
    /\ size \in Sizes
    /\ pc = "idle"
    /\ pending = Nothing /\ shared = Nothing
    /\ residual = FALSE /\ pooled = FALSE
    /\ out = RoutedOnly(Nothing)
    /\ collectives = 0

Begin ==
    /\ pc = "idle"
    /\ size' \in Sizes
    /\ pc' = "before"
    /\ shared' = Nothing /\ residual' = FALSE /\ pooled' = FALSE
    /\ out' = RoutedOnly(Nothing)
    /\ collectives' = 0
    /\ UNCHANGED << fixed, pending >>

\* SharedExperts.forward in one of its three places: it runs in the place its
\* order names, and insists that the last output was taken.
RunsShared(place) == cfg["shared"] /\ Order = place

MutPendingAfter(place) == IF cfg["shared"] THEN Raw ELSE pending
PendingAfter(place) == IF RunsShared(place) THEN Raw ELSE pending

ApplyShared(place, next) ==
    IF RunsShared(place) /\ pending # Nothing
    THEN pc' = "assertion" /\ UNCHANGED pending
    ELSE pc' = next /\ pending' = PendingAfter(place)

SharedBefore ==
    /\ pc = "before"
    /\ ApplyShared("none", "kernel")
    /\ UNCHANGED << fixed, size, residual, pooled, out, shared, collectives >>

\* The residual handed to the kernel: peeked, when the fold is on.
Residual == FoldsShared /\ pending # Nothing

Offered == cfg["mono"] /\ ~ CanOverlapShared /\ size <= MaxTokens

MutTakesFused == Eligible /\ cfg["usable"] /\ size \in FusedSizes
TakesFused ==
    /\ Eligible /\ cfg["usable"]
    /\ size \in FusedSizes
    /\ cfg["fold"] => Residual

\* The fused epilogue: summed over the TP group, with the shared half added and
\* the scale applied if there is a residual; it lies in the pool.
Folded(t) == Plus(Scaled(t), pending)
Fused ==
    /\ pc = "kernel"
    /\ Offered /\ TakesFused
    /\ out' = Summed(IF Residual THEN Folded(RoutedOnly(Raw)) ELSE RoutedOnly(Raw))
    /\ pooled' = TRUE
    /\ collectives' = collectives + 1
    /\ residual' = Residual
    /\ pc' = "after"
    /\ UNCHANGED << fixed, size, pending, shared >>

\* The ordinary monokernel: this rank's partial sum over its own tokens.
Ordinary ==
    /\ pc = "kernel"
    /\ Offered /\ ~ TakesFused
    /\ out' = RoutedOnly(Raw)
    /\ residual' = Residual
    /\ pc' = "after"
    /\ UNCHANGED << fixed, size, pending, pooled, shared, collectives >>

\* The modular or monolithic kernel, when the monokernel is not eligible or its
\* launch failed.  With data parallelism it gathers the tokens and combines;
\* DeepEP also runs the shared experts on the way.
KernelOutput == [Raw EXCEPT !.dp = IF cfg["dp"] /\ cfg["internal"] THEN 1 ELSE 0]
Standard ==
    /\ pc = "kernel"
    /\ ~ (Offered /\ TakesFused)
    /\ out' = RoutedOnly(KernelOutput)
    /\ residual' = Residual
    /\ IF CanOverlapShared THEN ApplyShared("kernel", "after")
       ELSE pc' = "after" /\ UNCHANGED pending
    /\ UNCHANGED << fixed, size, pooled, shared, collectives >>

SharedAfter ==
    /\ pc = "after"
    /\ ApplyShared("stream", "pop")
    /\ UNCHANGED << fixed, size, residual, pooled, out, shared, collectives >>

\* The in-op half of the reduction: where the layer is declared reduced and the
\* fused epilogue did not run, the sum is reduced here, once.
MutWasFused == FALSE
WasFused == pooled

Completed(t) == IF FoldsShared /\ ~ WasFused THEN Plus(Scaled(t), pending) ELSE t

\* The shared half is taken, and the routed one reduced if it is declared so.
PopAndReduce ==
    /\ pc = "pop"
    /\ shared' = pending /\ pending' = Nothing
    /\ pc' = IF cfg["shared"] /\ pending = Nothing THEN "assertion"
             ELSE IF ReduceFolded /\ ~ FusedOutputIsReduced
                     /\ FoldsShared /\ WasFused /\ ~ residual THEN "error"
             ELSE "combine"
    /\ IF ReduceFolded /\ ~ FusedOutputIsReduced
       THEN /\ out' = IF WasFused THEN out ELSE Summed(Completed(out))
            /\ collectives' = IF WasFused THEN collectives ELSE collectives + 1
       ELSE UNCHANGED << out, collectives >>
    /\ UNCHANGED << fixed, size, residual, pooled >>

\* _maybe_combine, for quant methods without a modular kernel.
Combine ==
    /\ pc = "combine"
    /\ out' = IF DoNaiveDispatchCombine THEN [out EXCEPT !.routed.dp = @ + 1] ELSE out
    /\ pc' = "traced"
    /\ UNCHANGED << fixed, size, pending, residual, pooled, shared, collectives >>

-----------------------------------------------------------------------------
(* The traced side: forward after the op, the same for every token count.    *)

MutKeptShared == shared
KeptShared == IF FoldsShared THEN Nothing ELSE shared

DeclaredReduced == FusedOutputIsReduced \/ ReduceFolded

\* _maybe_reduce_routed_output_before_transform
Early == cfg["transform"] /\ ~ cfg["sp"] /\ Parallel /\ ~ DeclaredReduced
Routed == IF Early THEN Summed(out) ELSE out
Reduced == DeclaredReduced \/ Early

\* _maybe_reduce_shared_expert_output
SharedAlone == KeptShared # Nothing /\ ~ cfg["sp"] /\ Reduced
SharedHalf == IF SharedAlone THEN SummedHalf(KeptShared) ELSE KeptShared

\* _maybe_apply_routed_scale_to_output
InverseScale == cfg["fp16"] /\ SharedHalf # Nothing
ScaledPair ==
    IF FoldsShared THEN << SharedHalf, Routed >>
    ELSE IF InverseScale THEN << [SharedHalf EXCEPT !.scale = @ - 1], Routed >>
    ELSE << SharedHalf, Scaled(Routed) >>

\* apply_routed_output_transform, which may be nonlinear
WantTP == IF cfg["tp"] /\ ~ cfg["sp"] /\ ~ cfg["skip"] THEN 1 ELSE 0
WantDP == IF cfg["dp"] THEN 1 ELSE 0
IsSum(h) == h.tp = WantTP /\ h.dp = WantDP
Transformed(t) ==
    IF cfg["transform"]
    THEN [t EXCEPT !.routed.xf = IF IsSum(t.routed) THEN "whole" ELSE "part"]
    ELSE t

\* The add, which keeps what the fold has already put there.
Added ==
    LET t == Transformed(ScaledPair[2])
    IN  IF ScaledPair[1] = Nothing THEN t ELSE Plus(t, ScaledPair[1])

\* _maybe_reduce_final_output
Late == ~ cfg["sp"] /\ ~ cfg["skip"] /\ Parallel /\ ~ Reduced

Traced ==
    /\ pc = "traced"
    /\ out' = IF Late THEN Summed(Added) ELSE Added
    /\ shared' = Nothing
    /\ collectives' = collectives + (IF Early THEN 1 ELSE 0)
                        + (IF SharedAlone THEN 1 ELSE 0) + (IF Late THEN 1 ELSE 0)
    /\ pc' = IF cfg["skip"] /\ FusedOutputIsReduced THEN "assertion" ELSE "done"
    /\ UNCHANGED << fixed, size, pending, residual, pooled >>

Return ==
    /\ pc = "done"
    /\ pc' = "idle"
    /\ UNCHANGED << fixed, size, pending, residual, pooled, out, shared, collectives >>

Next ==
    \/ Begin \/ SharedBefore \/ Fused \/ Ordinary \/ Standard \/ SharedAfter
    \/ PopAndReduce \/ Combine \/ Traced \/ Return

Spec == Init /\ [][Next]_vars

-----------------------------------------------------------------------------
(* Properties.                                                               *)

TypeOK ==
    /\ cfg \in [Flags -> BOOLEAN] /\ threshold \in Thresholds
    /\ size \in Sizes
    /\ pc \in {"idle", "before", "kernel", "after", "pop", "combine", "traced", "done",
               "assertion", "error"}
    /\ pending \in Half /\ shared \in Half
    /\ {residual, pooled} \subseteq BOOLEAN
    /\ out \in Tensor
    /\ collectives \in Nat

\* The result is right on every path: each half is summed exactly once over the
\* ranks that hold parts of it, the scale is on exactly one half (inverted and
\* on the shared half in fp16), the transform saw a sum, and the shared half is
\* there if the layer has one.
RightScale(routed, sh) ==
    IF cfg["fp16"] /\ cfg["shared"] THEN routed = 0 /\ sh = -1 ELSE routed = 1 /\ sh = 0
OutputRight ==
    pc = "done" =>
        /\ IsSum(out.routed)
        /\ out.routed.xf = (IF cfg["transform"] THEN "whole" ELSE "no")
        /\ RightScale(out.routed.scale, out.shared.scale)
        /\ IF cfg["shared"] THEN out.shared.copies = 1 /\ out.shared.tp = WantTP
           ELSE out.shared = Nothing

\* No assertion on the pending shared output fails, on any path and after any
\* forwards; the output is taken exactly once, so the next forward finds none.
SharedTakenOnce ==
    /\ pc # "assertion"
    /\ pc \in {"idle", "before"} => pending = Nothing

\* The branch that the code calls structurally unreachable is: the epilogue
\* never runs without the shared half when the caller counts on the fold.
FoldNeverMissed == pc # "error"

\* No assertion and no branch for an inconsistent claim is ever reached, and with
\* the fold on a forward costs one collective at every token count ("every branch
\* there ends with exactly one reduction of the sum").
ForwardRight ==
    /\ TypeOK /\ SharedTakenOnce /\ FoldNeverMissed
    /\ pc = "done" /\ FoldsShared => collectives = 1

=============================================================================
