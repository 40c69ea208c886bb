---------------------------- MODULE Forward_proofs ----------------------------
(* Proofs about a forward of one layer: the MoE runner, for any token counts, *)
(* thresholds and chunk tables and every configuration of a layer; the op     *)
(* that finds its layer again, for any models and streams; and the experts of *)
(* an expert-parallel rank, for any rows, experts, ranks and shapes.  Each of *)
(* the three machines is over variables of its own.                           *)
EXTENDS MoERunner, LayerOps, EPExperts, FiniteSetTheorems, NumberLemmas, TLAPS

-----------------------------------------------------------------------------
(* The forward: its inductive invariant.                                     *)

\* A half and a tensor, spelt out.
HalfOf(c, t, d, s, x) == [copies |-> c, tp |-> t, dp |-> d, scale |-> s, xf |-> x]
TensorOf(r, s) == [routed |-> r, shared |-> s]

\* The shared half as the experts leave it, before they have run and after.
SharedRaw == IF cfg["shared"] THEN Raw ELSE Nothing

\* What lies in the output slot at each place of a forward.  An output that is declared
\* reduced is the sum of the routed halves, scaled and with the shared half in it when
\* the fold is on, whoever summed it.
Claimed == IF FoldsShared THEN TensorOf(HalfOf(1, 1, 0, 1, "no"), HalfOf(1, 1, 0, 0, "no"))
           ELSE TensorOf(HalfOf(1, 1, 0, 0, "no"), Nothing)
Launched == IF pooled THEN Claimed ELSE RoutedOnly(KernelOutput)
Handed == IF ReduceFolded THEN Claimed ELSE RoutedOnly(KernelOutput)
Gathered == IF ReduceFolded THEN Claimed ELSE TensorOf(HalfOf(1, 0, WantDP, 0, "no"), Nothing)

PendingRight ==
    /\ pc \in {"idle", "before", "combine", "traced", "done"} => pending = Nothing
    /\ pc = "kernel" => pending = IF Order = "none" THEN SharedRaw ELSE Nothing
    /\ pc = "after" => pending = IF Order # "stream" THEN SharedRaw ELSE Nothing
    /\ pc = "pop" => pending = SharedRaw
SharedRight ==
    /\ pc \in {"before", "kernel", "after", "pop"} => shared = Nothing
    /\ pc \in {"combine", "traced"} => shared = SharedRaw
PoolRight ==
    /\ pc \in {"before", "kernel"} => ~ pooled /\ collectives = 0
    /\ pc \in {"after", "pop"} =>
        /\ pooled => ReduceFolded /\ residual = FoldsShared /\ (FoldsShared => Order = "none")
        /\ collectives = IF pooled THEN 1 ELSE 0
    /\ pc \in {"combine", "traced"} => collectives = IF ReduceFolded THEN 1 ELSE 0
OutRight ==
    /\ pc \in {"after", "pop"} => out = Launched
    /\ pc = "combine" => out = Handed
    /\ pc = "traced" => out = Gathered

RunnerIInv ==
    /\ TypeOK /\ Possible(cfg)
    /\ pc \notin {"assertion", "error"}
    /\ PendingRight /\ SharedRight /\ PoolRight /\ OutRight
    /\ OutputRight /\ (pc = "done" /\ FoldsShared => collectives = 1)

-----------------------------------------------------------------------------
(* Lemmas about halves and tensors.                                          *)

TP == IF cfg["tp"] THEN 1 ELSE 0

LEMMA HalfFacts ==
  /\ Raw = HalfOf(1, 0, 0, 0, "no") /\ Nothing = HalfOf(0, 0, 0, 0, "no")
  /\ \A c, t, d, s, x :
        /\ HalfOf(c, t, d, s, x).copies = c /\ HalfOf(c, t, d, s, x).tp = t
        /\ HalfOf(c, t, d, s, x).dp = d /\ HalfOf(c, t, d, s, x).scale = s
        /\ HalfOf(c, t, d, s, x).xf = x
  /\ \A t, d, s, x : HalfOf(1, t, d, s, x) # Nothing
<1>1. Raw = HalfOf(1, 0, 0, 0, "no")
  BY DEF Raw, HalfOf
<1>2. Nothing = HalfOf(0, 0, 0, 0, "no")
  BY DEF Raw, Nothing, HalfOf
<1>3. \A c, t, d, s, x :
        /\ HalfOf(c, t, d, s, x).copies = c /\ HalfOf(c, t, d, s, x).tp = t
        /\ HalfOf(c, t, d, s, x).dp = d /\ HalfOf(c, t, d, s, x).scale = s
        /\ HalfOf(c, t, d, s, x).xf = x
  BY DEF HalfOf
<1>4. ASSUME NEW t, NEW d, NEW s, NEW x PROVE HalfOf(1, t, d, s, x) # Nothing
  <2>1. HalfOf(1, t, d, s, x).copies = 1 /\ Nothing.copies = 0
    BY <1>2, <1>3
  <2> QED BY <2>1, SMT
<1> QED BY <1>1, <1>2, <1>3, <1>4

LEMMA HalfTyped ==
  ASSUME NEW c \in 0..1, NEW t \in 0..1, NEW d \in 0..1, NEW s \in -1..1,
         NEW x \in {"no", "whole", "part"}
  PROVE  HalfOf(c, t, d, s, x) \in Half
  BY DEF HalfOf, Half

LEMMA TensorFacts ==
  /\ \A r, h : TensorOf(r, h).routed = r /\ TensorOf(r, h).shared = h
  /\ \A r : RoutedOnly(r) = TensorOf(r, Nothing)
  /\ \A r \in Half, h \in Half : TensorOf(r, h) \in Tensor
  BY DEF TensorOf, RoutedOnly, Tensor

\* A sum over a group, of one or of more.
LEMMA SumFacts ==
  /\ SummedHalf(Nothing) = Nothing
  /\ \A d, s, x : SummedHalf(HalfOf(1, 0, d, s, x)) = HalfOf(1, TP, d, s, x)
  /\ \A r, h : Summed(TensorOf(r, h)) = TensorOf(SummedHalf(r), SummedHalf(h))
<1>1. SummedHalf(Nothing) = Nothing
  BY DEF SummedHalf
<1>2. ASSUME NEW d, NEW s, NEW x
      PROVE  SummedHalf(HalfOf(1, 0, d, s, x)) = HalfOf(1, TP, d, s, x)
  <2>1. [HalfOf(1, 0, d, s, x) EXCEPT !.tp = @ + 1] = HalfOf(1, 1, d, s, x)
    BY DEF HalfOf
  <2> QED BY <2>1, HalfFacts DEF SummedHalf, TP
<1>3. \A r, h : Summed(TensorOf(r, h)) = TensorOf(SummedHalf(r), SummedHalf(h))
  BY DEF Summed, TensorOf
<1> QED BY <1>1, <1>2, <1>3

\* The scale, the add of the one shared half, and the transform.
LEMMA StepFacts ==
  /\ \A t, d, x, h : Scaled(TensorOf(HalfOf(1, t, d, 0, x), h)) = TensorOf(HalfOf(1, t, d, 1, x), h)
  /\ \A r, t, d, s, x : Plus(TensorOf(r, Nothing), HalfOf(1, t, d, s, x))
                            = TensorOf(r, HalfOf(1, t, d, s, x))
  /\ \A t, d, s, x, y, h : [TensorOf(HalfOf(1, t, d, s, x), h) EXCEPT !.routed.xf = y]
                            = TensorOf(HalfOf(1, t, d, s, y), h)
  /\ \A t, d, x : [HalfOf(1, t, d, 0, x) EXCEPT !.scale = @ - 1] = HalfOf(1, t, d, -1, x)
<1>1. ASSUME NEW t, NEW d, NEW x, NEW h
      PROVE  Scaled(TensorOf(HalfOf(1, t, d, 0, x), h)) = TensorOf(HalfOf(1, t, d, 1, x), h)
  <2>1. [HalfOf(1, t, d, 0, x) EXCEPT !.scale = @ + 1] = HalfOf(1, t, d, 1, x)
    BY DEF HalfOf
  <2>2. Scaled(TensorOf(HalfOf(1, t, d, 0, x), h))
            = TensorOf([HalfOf(1, t, d, 0, x) EXCEPT !.scale = @ + 1], h)
    BY DEF Scaled, TensorOf
  <2> QED BY <2>1, <2>2
<1>2. ASSUME NEW r, NEW t, NEW d, NEW s, NEW x
      PROVE  Plus(TensorOf(r, Nothing), HalfOf(1, t, d, s, x)) = TensorOf(r, HalfOf(1, t, d, s, x))
  <2>1. [HalfOf(1, t, d, s, x) EXCEPT !.copies = @ + 0] = HalfOf(1, t, d, s, x)
    BY DEF HalfOf
  <2>2. TensorOf(r, Nothing).shared.copies = 0
    BY TensorFacts, HalfFacts
  <2>3. \A h : [TensorOf(r, Nothing) EXCEPT !.shared = h] = TensorOf(r, h)
    BY DEF TensorOf
  <2> QED BY <2>1, <2>2, <2>3 DEF Plus
<1>3. \A t, d, s, x, y, h : [TensorOf(HalfOf(1, t, d, s, x), h) EXCEPT !.routed.xf = y]
                            = TensorOf(HalfOf(1, t, d, s, y), h)
  BY DEF HalfOf, TensorOf
<1>4. \A t, d, x : [HalfOf(1, t, d, 0, x) EXCEPT !.scale = @ - 1] = HalfOf(1, t, d, -1, x)
  <2>1. 0 - 1 = -1
    BY SMT
  <2> QED BY <2>1 DEF HalfOf
<1> QED BY <1>1, <1>2, <1>3, <1>4

-----------------------------------------------------------------------------
(* Lemmas about the configuration.                                           *)

LEMMA FlagsBoolean ==
  ASSUME TypeOK
  PROVE  /\ cfg["tp"] \in BOOLEAN /\ cfg["dp"] \in BOOLEAN /\ cfg["ep"] \in BOOLEAN
         /\ cfg["sp"] \in BOOLEAN /\ cfg["deepep"] \in BOOLEAN /\ cfg["internal"] \in BOOLEAN
         /\ cfg["skip"] \in BOOLEAN /\ cfg["fp16"] \in BOOLEAN /\ cfg["transform"] \in BOOLEAN
         /\ cfg["shared"] \in BOOLEAN /\ cfg["overlap"] \in BOOLEAN /\ cfg["mono"] \in BOOLEAN
         /\ cfg["usable"] \in BOOLEAN /\ cfg["fold"] \in BOOLEAN
  BY DEF TypeOK, Flags

\* Where an output is declared reduced there is a group to sum over, and nothing else
\* that gathers, skips or splits; the monokernel is not offered beside data parallelism.
LEMMA ReducedConfig ==
  ASSUME TypeOK, Possible(cfg), ~ MonoWithDP
  PROVE  /\ ReduceFolded => /\ cfg["tp"] /\ ~ cfg["dp"] /\ ~ cfg["sp"] /\ ~ cfg["skip"]
                            /\ ~ cfg["deepep"] /\ cfg["internal"]
         /\ Offered => ~ cfg["dp"] /\ ~ cfg["deepep"]
         /\ FoldsShared => ReduceFolded /\ cfg["shared"] /\ cfg["fold"]
                              /\ ~ cfg["transform"] /\ ~ cfg["fp16"]
  BY FlagsBoolean
     DEF Possible, ReduceFolded, Eligible, MoETP, CanOverlapShared, Offered, FoldsShared

LEMMA Wanted ==
  ASSUME TypeOK, Possible(cfg), ~ MonoWithDP
  PROVE  /\ ReduceFolded => TP = 1 /\ WantTP = 1 /\ WantDP = 0
         /\ KernelOutput = HalfOf(1, 0, IF cfg["dp"] /\ cfg["internal"] THEN 1 ELSE 0, 0, "no")
         /\ Offered => KernelOutput = Raw
<1>1. ReduceFolded => TP = 1 /\ WantTP = 1 /\ WantDP = 0
  BY ReducedConfig DEF TP, WantTP, WantDP
<1>2. KernelOutput = HalfOf(1, 0, IF cfg["dp"] /\ cfg["internal"] THEN 1 ELSE 0, 0, "no")
  BY DEF KernelOutput, Raw, HalfOf
<1>3. Offered => KernelOutput = Raw
  BY <1>2, ReducedConfig, HalfFacts
<1> QED BY <1>1, <1>2, <1>3

\* Each of the tensors in the output slot has its type.
LEMMA SlotsTyped ==
  ASSUME TypeOK
  PROVE  /\ Claimed \in Tensor /\ RoutedOnly(KernelOutput) \in Tensor
         /\ Launched \in Tensor /\ Handed \in Tensor /\ Gathered \in Tensor
         /\ RoutedOnly(Nothing) \in Tensor /\ SharedRaw \in Half /\ Nothing \in Half
<1>1. /\ 0 \in 0..1 /\ 1 \in 0..1 /\ 0 \in -1..1 /\ 1 \in -1..1
  BY SMT
<1>2. /\ HalfOf(1, 1, 0, 1, "no") \in Half /\ HalfOf(1, 1, 0, 0, "no") \in Half
      /\ HalfOf(1, 0, 0, 0, "no") \in Half /\ HalfOf(0, 0, 0, 0, "no") \in Half
      /\ HalfOf(1, 0, 1, 0, "no") \in Half
  BY <1>1, HalfTyped
<1>3. Nothing \in Half /\ Raw \in Half
  BY <1>2, HalfFacts
<1>4. KernelOutput \in Half
  BY <1>2 DEF KernelOutput, Raw, HalfOf
<1>5. Claimed \in Tensor
  BY <1>2, <1>3, TensorFacts DEF Claimed
<1>6. Gathered \in Tensor
  BY <1>2, <1>3, <1>5, TensorFacts DEF Gathered, WantDP
<1>7. RoutedOnly(KernelOutput) \in Tensor /\ RoutedOnly(Nothing) \in Tensor
  BY <1>3, <1>4, TensorFacts
<1> QED BY <1>3, <1>5, <1>6, <1>7 DEF Launched, Handed, SharedRaw

-----------------------------------------------------------------------------
(* The steps.                                                                *)

\* A step leaves the configuration, and so what depends on it alone, as it was.
LEMMA SameConfig ==
  ASSUME UNCHANGED fixed
  PROVE  /\ cfg' = cfg /\ threshold' = threshold /\ Possible(cfg)' = Possible(cfg)
         /\ ReduceFolded' = ReduceFolded /\ FoldsShared' = FoldsShared
         /\ CanOverlapShared' = CanOverlapShared
         /\ SharedRaw' = SharedRaw /\ Claimed' = Claimed /\ KernelOutput' = KernelOutput
         /\ Handed' = Handed /\ Gathered' = Gathered
         /\ WantTP' = WantTP /\ WantDP' = WantDP
  BY DEF fixed, Possible, ReduceFolded, FoldsShared, SharedRaw, Claimed, KernelOutput, Handed,
         Gathered, Eligible, MoETP, CanOverlapShared, WantTP, WantDP

LEMMA SameOrder ==
  ASSUME UNCHANGED fixed, size' = size
  PROVE  Order' = Order
  BY SameConfig DEF Order

\* The shared experts run in one place, and find that the last output was taken.
LEMMA ApplyKeeps ==
  ASSUME NEW place, NEW next, ApplyShared(place, next), pending = Nothing \/ Order # place
  PROVE  /\ pc' = next
         /\ pending' = IF Order = place /\ cfg["shared"] THEN Raw ELSE pending
  BY DEF ApplyShared, PendingAfter, RunsShared

LEMMA OrderTyped ==
  /\ Order \in {"none", "kernel", "stream"}
  /\ CanOverlapShared => Order # "stream"
  /\ ~ CanOverlapShared => Order # "kernel"
  BY DEF Order

LEMMA BeginKeeps == ASSUME RunnerIInv, Begin PROVE RunnerIInv'
<1>1. UNCHANGED fixed /\ pc = "idle" /\ pc' = "before"
  BY DEF Begin
<1>2. TypeOK'
  BY <1>1, SlotsTyped DEF RunnerIInv, TypeOK, Begin, fixed
<1> QED BY <1>1, <1>2, SameConfig DEF RunnerIInv, PendingRight, SharedRight, PoolRight, OutRight,
                                     OutputRight, Begin

LEMMA SharedBeforeKeeps == ASSUME RunnerIInv, SharedBefore PROVE RunnerIInv'
<1>1. UNCHANGED fixed /\ size' = size /\ pc = "before" /\ pending = Nothing
  BY DEF SharedBefore, RunnerIInv, PendingRight
<1>2. pc' = "kernel" /\ pending' = IF Order = "none" /\ cfg["shared"] THEN Raw ELSE Nothing
  BY <1>1, ApplyKeeps DEF SharedBefore
<1>3. pending' = IF Order = "none" THEN SharedRaw ELSE Nothing
  BY <1>2 DEF SharedRaw
<1>4. TypeOK'
  BY <1>1, <1>2, <1>3, SlotsTyped DEF RunnerIInv, TypeOK, SharedBefore, fixed
<1> QED BY <1>1, <1>2, <1>3, <1>4, SameConfig, SameOrder
        DEF RunnerIInv, PendingRight, SharedRight, PoolRight, OutRight, OutputRight, SharedBefore

LEMMA FusedKeeps == ASSUME RunnerIInv, ~ MonoWithDP, Fused PROVE RunnerIInv'
<1>1. /\ UNCHANGED fixed /\ size' = size /\ pc = "kernel" /\ pc' = "after" /\ TypeOK
      /\ pending = IF Order = "none" THEN SharedRaw ELSE Nothing
      /\ Possible(cfg) /\ collectives = 0
  BY DEF Fused, RunnerIInv, PendingRight, PoolRight
<1>2. ReduceFolded /\ (cfg["fold"] => Residual) /\ (FoldsShared => cfg["fold"] /\ cfg["shared"])
  BY <1>1, ReducedConfig DEF Fused, TakesFused, ReduceFolded
<1>3. TP = 1 /\ ~ CanOverlapShared
  BY <1>1, <1>2, Wanted, ReducedConfig DEF CanOverlapShared
<1>4. Residual = FoldsShared /\ (FoldsShared => Order = "none" /\ pending = Raw)
  <2>1. FoldsShared => Residual
    BY <1>2
  <2>2. Residual => FoldsShared /\ pending # Nothing
    BY DEF Residual
  <2>3. Residual \in BOOLEAN /\ FoldsShared \in BOOLEAN
    BY DEF Residual, FoldsShared
  <2>4. FoldsShared => Order = "none"
    BY <1>1, <2>1, <2>2
  <2>5. FoldsShared => pending = Raw
    BY <1>1, <1>2, <2>4 DEF SharedRaw
  <2> QED BY <2>1, <2>2, <2>3, <2>4, <2>5
<1>5. out' = Claimed
  <2>1. CASE FoldsShared
    <3>1. Folded(RoutedOnly(Raw)) = TensorOf(HalfOf(1, 0, 0, 1, "no"), HalfOf(1, 0, 0, 0, "no"))
      BY <1>4, <2>1, HalfFacts, TensorFacts, StepFacts DEF Folded
    <3>2. out' = Summed(Folded(RoutedOnly(Raw)))
      BY <1>4, <2>1 DEF Fused
    <3> QED BY <1>3, <2>1, <3>1, <3>2, SumFacts DEF Claimed
  <2>2. CASE ~ FoldsShared
    <3>1. out' = Summed(TensorOf(HalfOf(1, 0, 0, 0, "no"), Nothing))
      BY <1>4, <2>2, HalfFacts, TensorFacts DEF Fused
    <3> QED BY <1>3, <2>2, <3>1, SumFacts DEF Claimed
  <2> QED BY <2>1, <2>2
<1>6. pooled' = TRUE /\ residual' = FoldsShared /\ collectives' = 1
  BY <1>1, <1>4, SMT DEF Fused
<1>7. pending' = IF Order # "stream" THEN SharedRaw ELSE Nothing
  BY <1>1, <1>3, OrderTyped DEF Fused
<1>8. FoldsShared \in BOOLEAN
  BY DEF FoldsShared
<1>9. TypeOK'
  <2>1. 1 \in Nat
    BY SMT
  <2> QED BY <1>1, <1>5, <1>6, <1>8, <2>1, SlotsTyped DEF TypeOK, Fused, fixed
<1> QED BY <1>1, <1>2, <1>4, <1>5, <1>6, <1>7, <1>9, SameConfig, SameOrder
        DEF RunnerIInv, PendingRight, SharedRight, PoolRight, OutRight, OutputRight, Fused,
            Launched

LEMMA OrdinaryKeeps == ASSUME RunnerIInv, ~ MonoWithDP, Ordinary PROVE RunnerIInv'
<1>1. /\ UNCHANGED fixed /\ size' = size /\ pc = "kernel" /\ pc' = "after" /\ TypeOK
      /\ pending = IF Order = "none" THEN SharedRaw ELSE Nothing
      /\ Possible(cfg) /\ collectives = 0 /\ ~ pooled /\ Offered
  BY DEF Ordinary, RunnerIInv, PendingRight, PoolRight
<1>2. out' = RoutedOnly(KernelOutput) /\ ~ CanOverlapShared
  BY <1>1, Wanted, ReducedConfig DEF Ordinary, CanOverlapShared
<1>3. pending' = IF Order # "stream" THEN SharedRaw ELSE Nothing
  BY <1>1, <1>2, OrderTyped DEF Ordinary
<1>4. Residual \in BOOLEAN
  BY DEF Residual
<1>5. TypeOK'
  BY <1>1, <1>2, <1>4, SlotsTyped DEF TypeOK, Ordinary, fixed
<1> QED BY <1>1, <1>2, <1>3, <1>5, SameConfig, SameOrder
        DEF RunnerIInv, PendingRight, SharedRight, PoolRight, OutRight, OutputRight, Ordinary,
            Launched

LEMMA StandardKeeps == ASSUME RunnerIInv, ~ MonoWithDP, Standard PROVE RunnerIInv'
<1>1. /\ UNCHANGED fixed /\ size' = size /\ pc = "kernel" /\ TypeOK
      /\ pending = IF Order = "none" THEN SharedRaw ELSE Nothing
      /\ Possible(cfg) /\ collectives = 0 /\ ~ pooled
      /\ out' = RoutedOnly(KernelOutput)
  BY DEF Standard, RunnerIInv, PendingRight, PoolRight
<1>2. pc' = "after" /\ pending' = IF Order # "stream" THEN SharedRaw ELSE Nothing
  <2>1. CASE CanOverlapShared
    <3>1. ApplyShared("kernel", "after")
      BY <2>1 DEF Standard
    <3>2. pc' = "after" /\ pending' = IF Order = "kernel" /\ cfg["shared"] THEN Raw ELSE pending
      BY <1>1, <3>1, ApplyKeeps
    <3> QED BY <1>1, <2>1, <3>2, OrderTyped DEF SharedRaw
  <2>2. CASE ~ CanOverlapShared
    BY <1>1, <2>2, OrderTyped DEF Standard
  <2> QED BY <2>1, <2>2
<1>3. Residual \in BOOLEAN
  BY DEF Residual
<1>4. TypeOK'
  BY <1>1, <1>2, <1>3, SlotsTyped DEF TypeOK, Standard, fixed
<1> QED BY <1>1, <1>2, <1>4, SameConfig, SameOrder
        DEF RunnerIInv, PendingRight, SharedRight, PoolRight, OutRight, OutputRight, Standard,
            Launched

LEMMA SharedAfterKeeps == ASSUME RunnerIInv, SharedAfter PROVE RunnerIInv'
<1>1. /\ UNCHANGED fixed /\ size' = size /\ pc = "after" /\ TypeOK
      /\ pending = IF Order # "stream" THEN SharedRaw ELSE Nothing
  BY DEF SharedAfter, RunnerIInv, PendingRight
<1>2. pc' = "pop" /\ pending' = IF Order = "stream" /\ cfg["shared"] THEN Raw ELSE pending
  BY <1>1, ApplyKeeps DEF SharedAfter
<1>3. pending' = SharedRaw
  BY <1>1, <1>2 DEF SharedRaw
<1>4. TypeOK'
  BY <1>1, <1>2, <1>3, SlotsTyped DEF TypeOK, SharedAfter, fixed
<1> QED BY <1>1, <1>2, <1>3, <1>4, SameConfig, SameOrder
        DEF RunnerIInv, PendingRight, SharedRight, PoolRight, OutRight, OutputRight, SharedAfter,
            Launched

\* Whichever kernel ran, what leaves the op is claimed and true.
LEMMA PopKeeps == ASSUME RunnerIInv, ~ MonoWithDP, PopAndReduce PROVE RunnerIInv'
<1>1. /\ UNCHANGED fixed /\ size' = size /\ pc = "pop" /\ TypeOK /\ Possible(cfg)
      /\ pending = SharedRaw /\ out = Launched
      /\ pooled => ReduceFolded /\ residual = FoldsShared /\ (FoldsShared => Order = "none")
      /\ collectives = IF pooled THEN 1 ELSE 0
      /\ shared' = SharedRaw /\ pending' = Nothing
      /\ residual' = residual /\ pooled' = pooled
  BY DEF PopAndReduce, RunnerIInv, PendingRight, PoolRight, OutRight
<1>2. ReduceFolded => ~ FusedOutputIsReduced /\ TP = 1 /\ KernelOutput = HalfOf(1, 0, 0, 0, "no")
  BY <1>1, Wanted, ReducedConfig DEF FusedOutputIsReduced
<1>3. pc' = "combine"
  <2>1. ~ (cfg["shared"] /\ pending = Nothing)
    BY <1>1, HalfFacts DEF SharedRaw
  <2>2. ~ (FoldsShared /\ WasFused /\ ~ residual)
    BY <1>1 DEF WasFused
  <2> QED BY <2>1, <2>2 DEF PopAndReduce
<1>4. out' = Handed /\ collectives' = IF ReduceFolded THEN 1 ELSE 0
  <2>1. CASE ~ ReduceFolded
    BY <1>1, <2>1 DEF PopAndReduce, Handed, Launched
  <2>2. CASE ReduceFolded /\ pooled
    BY <1>1, <1>2, <2>2 DEF PopAndReduce, Handed, Launched, WasFused
  <2>3. CASE ReduceFolded /\ ~ pooled
    <3>1. out = TensorOf(HalfOf(1, 0, 0, 0, "no"), Nothing) /\ out' = Summed(Completed(out))
          /\ collectives' = 0 + 1
      BY <1>1, <1>2, <2>3, TensorFacts DEF PopAndReduce, WasFused, Launched
    <3>2. 0 + 1 = 1
      BY SMT
    <3>3. CASE FoldsShared
      <4>1. pending = HalfOf(1, 0, 0, 0, "no")
        BY <1>1, <3>3, HalfFacts DEF SharedRaw, FoldsShared
      <4>2. Completed(out) = Plus(Scaled(out), pending)
        BY <2>3, <3>3 DEF Completed, WasFused
      <4>3. Completed(out) = TensorOf(HalfOf(1, 0, 0, 1, "no"), HalfOf(1, 0, 0, 0, "no"))
        BY <3>1, <4>1, <4>2, StepFacts
      <4> QED BY <1>2, <2>3, <3>1, <3>2, <3>3, <4>3, SumFacts DEF Handed, Claimed
    <3>4. CASE ~ FoldsShared
      BY <1>2, <2>3, <3>1, <3>2, <3>4, SumFacts DEF Completed, Handed, Claimed
    <3> QED BY <3>3, <3>4
  <2> QED BY <2>1, <2>2, <2>3
<1>5. TypeOK'
  <2>1. 0 \in Nat /\ 1 \in Nat
    BY SMT
  <2> QED BY <1>1, <1>3, <1>4, <2>1, SlotsTyped DEF TypeOK, fixed
<1> QED BY <1>1, <1>3, <1>4, <1>5, SameConfig, SameOrder
        DEF RunnerIInv, PendingRight, SharedRight, PoolRight, OutRight, OutputRight

LEMMA CombineKeeps == ASSUME RunnerIInv, ~ MonoWithDP, Combine PROVE RunnerIInv'
<1>1. /\ UNCHANGED fixed /\ size' = size /\ pc = "combine" /\ pc' = "traced" /\ TypeOK
      /\ Possible(cfg) /\ out = Handed
      /\ UNCHANGED << pending, residual, pooled, shared, collectives >>
  BY DEF Combine, RunnerIInv, OutRight
<1>2. out' = Gathered
  <2>1. CASE ReduceFolded
    <3>1. ~ DoNaiveDispatchCombine
      BY <1>1, <2>1, ReducedConfig DEF DoNaiveDispatchCombine
    <3> QED BY <1>1, <2>1, <3>1 DEF Combine, Handed, Gathered
  <2>2. CASE ~ ReduceFolded
    <3>1. \A r, h : [TensorOf(r, h) EXCEPT !.routed.dp = @ + 1]
                        = TensorOf([r EXCEPT !.dp = @ + 1], h)
      BY DEF TensorOf
    <3>2. [HalfOf(1, 0, 0, 0, "no") EXCEPT !.dp = @ + 1] = HalfOf(1, 0, 1, 0, "no")
      BY DEF HalfOf
    <3>3. out = TensorOf(HalfOf(1, 0, IF cfg["dp"] /\ cfg["internal"] THEN 1 ELSE 0, 0, "no"),
                         Nothing)
      BY <1>1, <2>2, Wanted, TensorFacts DEF Handed
    <3>4. CASE DoNaiveDispatchCombine
      <4>1. out = TensorOf(HalfOf(1, 0, 0, 0, "no"), Nothing) /\ WantDP = 1
        BY <3>3, <3>4 DEF DoNaiveDispatchCombine, WantDP
      <4>2. out' = TensorOf(HalfOf(1, 0, 1, 0, "no"), Nothing)
        BY <3>1, <3>2, <3>4, <4>1 DEF Combine
      <4> QED BY <2>2, <4>1, <4>2 DEF Gathered
    <3>5. CASE ~ DoNaiveDispatchCombine
      BY <2>2, <3>3, <3>5 DEF Combine, DoNaiveDispatchCombine, WantDP, Gathered
    <3> QED BY <3>4, <3>5
  <2> QED BY <2>1, <2>2
<1>3. TypeOK'
  BY <1>1, <1>2, SlotsTyped DEF TypeOK, fixed
<1> QED BY <1>1, <1>2, <1>3, SameConfig, SameOrder
        DEF RunnerIInv, PendingRight, SharedRight, PoolRight, OutRight, OutputRight

\* The output slot that the traced side must come to.
FinalShared(t) ==
    IF cfg["shared"] THEN HalfOf(1, t, 0, IF cfg["fp16"] THEN -1 ELSE 0, "no") ELSE Nothing
FinalScale == IF cfg["fp16"] /\ cfg["shared"] THEN 0 ELSE 1
FinalForm == IF cfg["transform"] THEN "whole" ELSE "no"
Finished == TensorOf(HalfOf(1, WantTP, WantDP, FinalScale, FinalForm), FinalShared(WantTP))

LEMMA FinalFacts ==
  ASSUME TypeOK
  PROVE  /\ Finished \in Tensor
         /\ Finished.routed.tp = WantTP /\ Finished.routed.dp = WantDP
         /\ Finished.routed.xf = FinalForm /\ Finished.routed.scale = FinalScale
         /\ cfg["shared"] => /\ Finished.shared.copies = 1 /\ Finished.shared.tp = WantTP
                             /\ Finished.shared.scale = IF cfg["fp16"] THEN -1 ELSE 0
         /\ ~ cfg["shared"] => Finished.shared = Nothing /\ Finished.shared.scale = 0
<1>1. /\ 0 \in 0..1 /\ 1 \in 0..1 /\ 0 \in -1..1 /\ 1 \in -1..1 /\ -1 \in -1..1
  BY SMT
<1>2. WantTP \in 0..1 /\ WantDP \in 0..1
  BY <1>1 DEF WantTP, WantDP
<1>3. FinalScale \in -1..1 /\ FinalForm \in {"no", "whole", "part"}
      /\ (IF cfg["fp16"] THEN -1 ELSE 0) \in -1..1
  BY <1>1 DEF FinalScale, FinalForm
<1>4. HalfOf(1, WantTP, WantDP, FinalScale, FinalForm) \in Half
      /\ HalfOf(1, WantTP, 0, IF cfg["fp16"] THEN -1 ELSE 0, "no") \in Half
  BY <1>1, <1>2, <1>3, HalfTyped
<1>5. FinalShared(WantTP) \in Half
  BY <1>4, SlotsTyped DEF FinalShared
<1>6. Finished \in Tensor
  BY <1>4, <1>5, TensorFacts DEF Finished
<1> QED BY <1>6, TensorFacts, HalfFacts DEF Finished, FinalShared

\* Where the sums happen on the traced side.
LEMMA SumsPlaced ==
  ASSUME TypeOK, Possible(cfg), ~ MonoWithDP
  PROVE  LET rt == IF Early \/ ReduceFolded THEN TP ELSE 0
             st == IF cfg["shared"] /\ ~ cfg["sp"] /\ Reduced THEN TP ELSE 0
         IN  /\ cfg["transform"] => rt = WantTP
             /\ Late => rt = 0 /\ st = 0 /\ TP = WantTP
             /\ ~ Late => rt = WantTP /\ (cfg["shared"] => st = WantTP)
<1>1. CASE ReduceFolded
  <2>1. TP = WantTP /\ ~ cfg["sp"] /\ Reduced /\ ~ Late
    BY <1>1, Wanted, ReducedConfig DEF Reduced, DeclaredReduced, Late
  <2> QED BY <1>1, <2>1
<1>2. CASE ~ ReduceFolded /\ cfg["deepep"]
  <2>1. cfg["tp"] => cfg["sp"]
    BY <1>2 DEF Possible
  <2>2. ~ Early /\ ~ Late
    BY <1>2 DEF Early, Late, Reduced, DeclaredReduced, FusedOutputIsReduced
  <2>3. WantTP = 0 /\ (~ cfg["sp"] => TP = 0)
    BY <2>1 DEF WantTP, TP
  <2> QED BY <1>2, <2>2, <2>3
<1>3. CASE Early /\ ~ ReduceFolded
  <2>1. ~ cfg["sp"] /\ ~ cfg["skip"] /\ Reduced /\ ~ Late
    BY <1>3 DEF Early, Possible, Reduced, Late
  <2>2. TP = WantTP
    BY <2>1 DEF TP, WantTP
  <2> QED BY <1>3, <2>1, <2>2
<1>4. CASE ~ ReduceFolded /\ ~ cfg["deepep"] /\ ~ Early
  <2>1. ~ Reduced
    BY <1>4 DEF Reduced, DeclaredReduced, FusedOutputIsReduced
  <2>2. Late => TP = WantTP
    BY DEF Late, TP, WantTP
  <2>3. ~ Late => WantTP = 0
    BY <2>1 DEF Late, Parallel, WantTP
  <2>4. cfg["transform"] => WantTP = 0
    BY <1>4, <2>1 DEF Early, Reduced, Parallel, WantTP
  <2> QED BY <1>4, <2>1, <2>2, <2>3, <2>4
<1> QED BY <1>1, <1>2, <1>3, <1>4

\* The traced side sums, scales, transforms and adds what is still to be done, and
\* nothing twice.
LEMMA TracedFinal ==
  ASSUME RunnerIInv, ~ MonoWithDP, Traced
  PROVE  out' = Finished
<1>1. /\ TypeOK /\ Possible(cfg) /\ out = Gathered /\ shared = SharedRaw
      /\ out' = IF Late THEN Summed(Added) ELSE Added
  BY DEF Traced, RunnerIInv, OutRight, SharedRight
<1>2. CASE FoldsShared
  <2>1. /\ ReduceFolded /\ cfg["shared"] /\ ~ cfg["transform"] /\ ~ cfg["fp16"]
        /\ WantTP = 1 /\ WantDP = 0
    BY <1>1, <1>2, ReducedConfig, Wanted
  <2>2. KeptShared = Nothing /\ Reduced /\ ~ Early /\ ~ Late
    BY <1>2, <2>1 DEF KeptShared, Reduced, Early, Late, DeclaredReduced
  <2>3. Routed = Claimed /\ SharedHalf = Nothing
    BY <1>1, <2>1, <2>2 DEF Routed, Gathered, SharedHalf, SharedAlone
  <2>4. ScaledPair = << Nothing, Claimed >>
    BY <1>2, <2>3 DEF ScaledPair
  <2>5. Added = Claimed
    BY <2>1, <2>4 DEF Added, Transformed
  <2> QED BY <1>1, <1>2, <2>1, <2>2, <2>5
          DEF Claimed, Finished, FinalShared, FinalScale, FinalForm
<1>3. CASE ~ FoldsShared
  <2> DEFINE rt == IF Early \/ ReduceFolded THEN TP ELSE 0
             st == IF cfg["shared"] /\ ~ cfg["sp"] /\ Reduced THEN TP ELSE 0
  <2>1. KeptShared = SharedRaw /\ (KeptShared # Nothing <=> cfg["shared"])
    BY <1>1, <1>3, HalfFacts DEF KeptShared, SharedRaw
  <2>2. Routed = TensorOf(HalfOf(1, rt, WantDP, 0, "no"), Nothing)
    <3>1. CASE ReduceFolded
      <4>1. ~ Early
        BY <3>1 DEF Early, DeclaredReduced
      <4> QED BY <1>1, <1>3, <3>1, <4>1, Wanted DEF Routed, Gathered, Claimed
    <3>2. CASE ~ ReduceFolded
      BY <1>1, <3>2, SumFacts DEF Routed, Gathered
    <3> QED BY <3>1, <3>2
  <2>3. SharedHalf = IF cfg["shared"] THEN HalfOf(1, st, 0, 0, "no") ELSE Nothing
    <3>1. CASE cfg["shared"]
      <4>1. KeptShared = HalfOf(1, 0, 0, 0, "no")
        BY <2>1, <3>1, HalfFacts DEF SharedRaw
      <4>2. SummedHalf(KeptShared) = HalfOf(1, TP, 0, 0, "no")
        BY <4>1, SumFacts
      <4>3. SharedAlone <=> ~ cfg["sp"] /\ Reduced
        BY <2>1, <3>1 DEF SharedAlone
      <4> QED BY <3>1, <4>1, <4>2, <4>3 DEF SharedHalf
    <3>2. CASE ~ cfg["shared"]
      BY <2>1, <3>2, SumFacts DEF SharedHalf, SharedRaw
    <3> QED BY <3>1, <3>2
  <2>4. /\ cfg["transform"] => rt = WantTP
        /\ Late => rt = 0 /\ st = 0 /\ TP = WantTP
        /\ ~ Late => rt = WantTP /\ (cfg["shared"] => st = WantTP)
    BY <1>1, SumsPlaced
  <2> HIDE DEF rt, st
  <2>5. ScaledPair = << FinalShared(st),
                        TensorOf(HalfOf(1, rt, WantDP, FinalScale, "no"), Nothing) >>
    <3>1. InverseScale <=> cfg["fp16"] /\ cfg["shared"]
      BY <2>3, HalfFacts DEF InverseScale
    <3>2. CASE cfg["fp16"] /\ cfg["shared"]
      BY <1>3, <2>2, <2>3, <3>1, <3>2, StepFacts DEF ScaledPair, FinalShared, FinalScale
    <3>3. CASE ~ (cfg["fp16"] /\ cfg["shared"])
      <4>1. ScaledPair = << SharedHalf, Scaled(Routed) >>
        BY <1>3, <3>1, <3>3 DEF ScaledPair
      <4>2. Scaled(Routed) = TensorOf(HalfOf(1, rt, WantDP, 1, "no"), Nothing)
        BY <2>2, StepFacts
      <4> QED BY <2>3, <3>3, <4>1, <4>2 DEF FinalShared, FinalScale
    <3> QED BY <3>2, <3>3
  <2>6. Transformed(ScaledPair[2]) = TensorOf(HalfOf(1, rt, WantDP, FinalScale, FinalForm), Nothing)
    <3>1. ScaledPair[2] = TensorOf(HalfOf(1, rt, WantDP, FinalScale, "no"), Nothing)
      BY <2>5
    <3>2. CASE ~ cfg["transform"]
      BY <3>1, <3>2 DEF Transformed, FinalForm
    <3>3. CASE cfg["transform"]
      <4>1. IsSum(ScaledPair[2].routed)
        BY <2>4, <3>1, <3>3, TensorFacts, HalfFacts DEF IsSum
      <4> QED BY <3>1, <3>3, <4>1, StepFacts DEF Transformed, FinalForm
    <3> QED BY <3>2, <3>3
  <2>7. Added = TensorOf(HalfOf(1, rt, WantDP, FinalScale, FinalForm), FinalShared(st))
    <3>1. ScaledPair[1] = FinalShared(st)
      BY <2>5
    <3>2. CASE cfg["shared"]
      <4>1. FinalShared(st) = HalfOf(1, st, 0, IF cfg["fp16"] THEN -1 ELSE 0, "no")
        BY <3>2 DEF FinalShared
      <4> QED BY <2>6, <3>1, <4>1, HalfFacts, StepFacts DEF Added
    <3>3. CASE ~ cfg["shared"]
      BY <2>6, <3>1, <3>3 DEF Added, FinalShared
    <3> QED BY <3>2, <3>3
  <2>8. CASE Late
    <3>1. SummedHalf(HalfOf(1, rt, WantDP, FinalScale, FinalForm))
            = HalfOf(1, WantTP, WantDP, FinalScale, FinalForm)
      BY <2>4, <2>8, SumFacts
    <3>2. SummedHalf(FinalShared(st)) = FinalShared(WantTP)
      BY <2>4, <2>8, SumFacts DEF FinalShared
    <3> QED BY <1>1, <2>7, <2>8, <3>1, <3>2, SumFacts DEF Finished
  <2>9. CASE ~ Late
    <3>1. FinalShared(st) = FinalShared(WantTP)
      BY <2>4, <2>9 DEF FinalShared
    <3> QED BY <1>1, <2>4, <2>7, <2>9, <3>1 DEF Finished
  <2> QED BY <2>8, <2>9
<1> QED BY <1>2, <1>3

LEMMA TracedKeeps == ASSUME RunnerIInv, ~ MonoWithDP, Traced PROVE RunnerIInv'
<1>1. /\ UNCHANGED fixed /\ size' = size /\ pc = "traced" /\ TypeOK /\ Possible(cfg)
      /\ collectives = IF ReduceFolded THEN 1 ELSE 0
      /\ pending = Nothing /\ shared' = Nothing
      /\ UNCHANGED << pending, residual, pooled >>
      /\ collectives' = collectives + (IF Early THEN 1 ELSE 0)
                        + (IF SharedAlone THEN 1 ELSE 0) + (IF Late THEN 1 ELSE 0)
  BY DEF Traced, RunnerIInv, PoolRight, PendingRight
<1>2. pc' = "done"
  BY <1>1 DEF Traced, Possible, FusedOutputIsReduced
<1>3. out' = Finished
  BY TracedFinal
<1>4. collectives' \in Nat
  BY <1>1, SMT
<1>5. FoldsShared => collectives' = 1
  <2> SUFFICES ASSUME FoldsShared PROVE collectives' = 1
    OBVIOUS
  <2>1. ReduceFolded
    BY <1>1, ReducedConfig
  <2>2. ~ Early /\ ~ SharedAlone /\ ~ Late
    BY <2>1 DEF Early, Late, SharedAlone, KeptShared, Reduced, DeclaredReduced
  <2> QED BY <1>1, <2>1, <2>2, SMT
<1>6. TypeOK'
  BY <1>1, <1>2, <1>3, <1>4, FinalFacts, SlotsTyped DEF TypeOK, fixed
<1>7. OutputRight'
  <2>1. cfg' = cfg
    BY <1>1, SameConfig
  <2>2. IsSum(Finished.routed) /\ Finished.routed.xf = IF cfg["transform"] THEN "whole" ELSE "no"
    BY <1>1, FinalFacts DEF IsSum, FinalForm
  <2>3. RightScale(Finished.routed.scale, Finished.shared.scale)
    BY <1>1, FinalFacts, FlagsBoolean DEF RightScale, FinalScale
  <2>4. IF cfg["shared"] THEN Finished.shared.copies = 1 /\ Finished.shared.tp = WantTP
        ELSE Finished.shared = Nothing
    BY <1>1, FinalFacts
  <2> QED BY <1>1, <1>3, <2>1, <2>2, <2>3, <2>4, SameConfig DEF OutputRight, IsSum, RightScale
<1> QED BY <1>1, <1>2, <1>5, <1>6, <1>7, SameConfig
        DEF RunnerIInv, PendingRight, SharedRight, PoolRight, OutRight

LEMMA ReturnKeeps == ASSUME RunnerIInv, Return PROVE RunnerIInv'
<1>1. /\ UNCHANGED fixed /\ pc = "done" /\ pc' = "idle"
      /\ UNCHANGED << size, pending, residual, pooled, out, shared, collectives >>
  BY DEF Return
<1> QED BY <1>1, SameConfig DEF RunnerIInv, TypeOK, fixed, PendingRight, SharedRight, PoolRight,
                                OutRight, OutputRight

LEMMA RunnerStart == Init => RunnerIInv
<1> SUFFICES ASSUME Init PROVE RunnerIInv
  OBVIOUS
<1>1. /\ 0 \in 0..1 /\ 0 \in -1..1 /\ 0 \in Nat
  BY SMT
<1>2. Nothing \in Half
  BY <1>1, HalfTyped, HalfFacts
<1>3. TypeOK
  BY <1>1, <1>2, TensorFacts DEF Init, TypeOK
<1> QED BY <1>3 DEF Init, RunnerIInv, PendingRight, SharedRight, PoolRight, OutRight, OutputRight

LEMMA RunnerStep ==
  ASSUME ~ MonoWithDP, RunnerIInv, [Next]_vars
  PROVE  RunnerIInv'
<1>1. CASE UNCHANGED vars
  <2>1. UNCHANGED fixed /\ size' = size /\ Order' = Order
    BY <1>1, SameOrder DEF vars
  <2> QED BY <1>1, <2>1, SameConfig
          DEF RunnerIInv, TypeOK, fixed, vars, PendingRight, SharedRight, PoolRight, OutRight,
              Launched, OutputRight, IsSum, RightScale
<1> QED BY <1>1, BeginKeeps, SharedBeforeKeeps, FusedKeeps, OrdinaryKeeps, StandardKeeps,
           SharedAfterKeeps, PopKeeps, CombineKeeps, TracedKeeps, ReturnKeeps DEF Next

\* No assertion on the shared output and no branch for an inconsistent claim is ever
\* reached, and with the fold on a forward costs one collective, at every token count, for
\* every configuration that is not data-parallel under the monokernel and any thresholds
\* and chunk tables.
THEOREM ForwardsRight == ~ MonoWithDP => (Spec => []ForwardRight)
<1> SUFFICES ASSUME ~ MonoWithDP PROVE Spec => []ForwardRight
  OBVIOUS
<1>1. RunnerIInv /\ [Next]_vars => RunnerIInv'
  BY RunnerStep
<1>2. RunnerIInv => ForwardRight
  BY DEF RunnerIInv, ForwardRight, SharedTakenOnce, FoldNeverMissed, PendingRight
<1> QED BY <1>1, <1>2, RunnerStart, PTL DEF Spec

\* On every path of those configurations each half is summed exactly once over the ranks
\* that hold parts of it, scaled once, transformed as a sum, and added once.
THEOREM OutputsRight == ~ MonoWithDP => (Spec => []OutputRight)
<1> SUFFICES ASSUME ~ MonoWithDP PROVE Spec => []OutputRight
  OBVIOUS
<1>1. RunnerIInv /\ [Next]_vars => RunnerIInv'
  BY RunnerStep
<1>2. RunnerIInv => OutputRight
  BY DEF RunnerIInv
<1> QED BY <1>1, <1>2, RunnerStart, PTL DEF Spec

-----------------------------------------------------------------------------
(* The boundary of the op.                                                   *)

OpsSpec == OpsInit /\ [][OpsNext]_opsVars

\* Models that can be built: there is a layer, states have a width, and padding makes
\* them wider.
RealModels ==
    \A m \in Models :
        /\ m \in Seq(Layer) /\ Len(m) > 0
        /\ \A i \in 1..Len(m) : m[i].hidden > 0 /\ m[i].moe >= RoutedWidth(m[i])

Stages == {"idle", "traced", "op", "back", "layer", "refused"}
WidthsOf == [states : Nat, routed : Nat, shared : Nat]

OpsTypes ==
    /\ model \in Models /\ naming \in Naming
    /\ registry \in Seq(Nat) /\ Len(registry) <= Len(model)
    /\ context \in [Streams -> Nat]
    /\ at \in [Streams -> [layer : Nat, stage : Stages]]
    /\ width \in [Streams -> WidthsOf]
    /\ served \in [Streams -> Nat]

\* The registry holds the names of the layers built so far, no two alike.
RegistryRight ==
    /\ \A i \in 1..Len(registry) : registry[i] = model[i].name
    /\ \A i, j \in 1..Len(registry) : registry[i] = registry[j] => i = j

\* A microbatch is in a layer of the built model, and its context has counted the ops
\* of the layers before it, and its own once it is through.
PlaceRight(u) ==
    at[u].stage # "idle" =>
        /\ Built /\ at[u].layer \in 1..Len(model)
        /\ naming = "context" =>
            /\ at[u].stage \in {"traced", "op"} => context[u] + 1 = at[u].layer
            /\ at[u].stage \in {"back", "layer"} => context[u] = at[u].layer

\* The widths on either side of the op, and behind the layer.
WidthRight(u) ==
    /\ at[u].stage = "op" => width[u].routed = Passed(This(u))
    /\ at[u].stage = "back" =>
        /\ served[u] = at[u].layer
        /\ width[u].routed = Declared(This(u)).routed
        /\ width[u].shared = Declared(This(u)).shared
    /\ at[u].stage = "layer" => width[u].states = This(u).hidden

OpsIInv == OpsTypes /\ RegistryRight /\ \A u \in Streams : PlaceRight(u) /\ WidthRight(u)

\* A layer takes what is passed to it and returns what its fake declares; behind it no
\* transform and no add fails, and the padding is cut off.
LEMMA LayerWidths ==
  ASSUME NEW l \in Layer, l.hidden > 0, l.moe >= RoutedWidth(l), NEW w
  PROVE  /\ Passed(l) \in Nat /\ SharedInput(l) \in Nat
         /\ Declared(l).routed \in Nat /\ Declared(l).shared \in Nat
         /\ w.routed = Passed(l) =>
                /\ Accepts(l, w)
                /\ Returned(l, w).routed = Declared(l).routed
                /\ Returned(l, w).shared = Declared(l).shared
         /\ w.routed = Declared(l).routed /\ w.shared = Declared(l).shared =>
                ~ Fails(l, w) /\ Final(l, w) = l.hidden
<1>1. /\ l.hidden \in Nat /\ l.latent \in Nat /\ l.moe \in Nat
      /\ l.shared \in BOOLEAN /\ l.narrow \in BOOLEAN /\ l.skip \in BOOLEAN
      /\ l.fold \in BOOLEAN /\ l.applied \in BOOLEAN
  BY DEF Layer
<1>2. RoutedWidth(l) = IF l.latent # 0 THEN l.latent ELSE l.hidden
  BY DEF RoutedWidth
<1>3. RoutedWidth(l) \in Nat /\ RoutedWidth(l) > 0
  BY <1>1, <1>2, SMT
<1>4. /\ SharedInput(l) = l.hidden \/ SharedInput(l) = 0
      /\ l.latent # 0 \/ l.shared => SharedInput(l) = l.hidden
  BY DEF SharedInput
<1>5. Passed(l) = IF l.skip THEN RoutedWidth(l) ELSE l.moe
  BY DEF Passed, Padded
<1>6. Passed(l) \in Nat /\ SharedInput(l) \in Nat
  BY <1>1, <1>3, <1>4, <1>5
<1>7. /\ Declared(l).routed = IF l.narrow THEN RoutedWidth(l) ELSE Passed(l)
      /\ Declared(l).shared = IF l.shared THEN l.hidden ELSE 0
  <2>1. l.shared => SharedInput(l) > 0
    BY <1>4
  <2> QED BY <1>4, <2>1 DEF Declared
<1>8. Declared(l).routed \in Nat /\ Declared(l).shared \in Nat
  BY <1>1, <1>3, <1>6, <1>7
<1>9. ASSUME w.routed = Passed(l)
      PROVE  /\ Accepts(l, w)
             /\ Returned(l, w).routed = Declared(l).routed
             /\ Returned(l, w).shared = Declared(l).shared
  BY <1>5, <1>7, <1>9 DEF Accepts, Returned
<1>10. ASSUME w.routed = Declared(l).routed, w.shared = Declared(l).shared
       PROVE  ~ Fails(l, w) /\ Final(l, w) = l.hidden
  <2> DEFINE cut == Cut(w.routed, CutBefore(l))
  <2>1. w.routed = RoutedWidth(l) \/ (Padded(l) /\ w.routed = l.moe)
    BY <1>5, <1>7, <1>10 DEF Padded
  <2>2. CASE CutBefore(l) # 0
    <3>1. Padded(l) /\ CutBefore(l) = RoutedWidth(l)
      BY <2>2 DEF CutBefore
    <3>2. cut = RoutedWidth(l)
      BY <1>1, <1>3, <2>1, <3>1, SMT DEF Cut, Padded
    <3> HIDE DEF cut
    <3>3. OutWidth(l, cut) = l.hidden
      BY <1>2, <3>2 DEF OutWidth
    <3>4. CutAfter(l) = l.hidden \/ CutAfter(l) = RoutedWidth(l)
      BY <1>4, <3>1 DEF CutAfter
    <3>5. l.latent # 0 => CutAfter(l) = l.hidden
      BY <1>4 DEF CutAfter
    <3>6. CutAfter(l) = l.hidden
      BY <1>2, <3>4, <3>5
    <3>7. Cut(l.hidden, l.hidden) = l.hidden
      BY DEF Cut
    <3>8. Final(l, w) = l.hidden
      BY <3>3, <3>6, <3>7 DEF Final, cut
    <3>9. ~ Fails(l, w)
      BY <1>2, <1>7, <1>10, <3>2, <3>3 DEF Fails, SharedPart, cut
    <3> QED BY <3>8, <3>9
  <2>3. CASE CutBefore(l) = 0
    <3>1. ~ Padded(l) \/ (l.latent = 0 /\ ~ l.shared)
      BY <1>3, <1>4, <2>3 DEF CutBefore
    <3>2. cut = w.routed
      BY <2>3 DEF Cut
    <3> HIDE DEF cut
    <3>3. CASE ~ Padded(l)
      <4>1. cut = RoutedWidth(l) /\ OutWidth(l, cut) = l.hidden
        BY <1>2, <2>1, <3>2, <3>3 DEF OutWidth
      <4>2. CutAfter(l) = l.hidden \/ CutAfter(l) = 0
        BY <1>4, <3>3 DEF CutAfter
      <4>3. Cut(l.hidden, l.hidden) = l.hidden /\ Cut(l.hidden, 0) = l.hidden
        BY DEF Cut
      <4>4. Final(l, w) = l.hidden
        BY <4>1, <4>2, <4>3 DEF Final, cut
      <4> QED BY <1>2, <1>7, <1>10, <4>1, <4>4 DEF Fails, SharedPart, cut
    <3>4. CASE Padded(l) /\ l.latent = 0 /\ ~ l.shared
      <4>1. RoutedWidth(l) = l.hidden /\ OutWidth(l, cut) = w.routed /\ CutAfter(l) = l.hidden
        BY <1>2, <3>2, <3>4 DEF OutWidth, CutAfter
      <4>2. Final(l, w) = Cut(w.routed, l.hidden)
        BY <4>1 DEF Final, cut
      <4>3. Cut(w.routed, l.hidden) = l.hidden
        BY <1>1, <1>3, <2>1, <4>1, SMT DEF Cut, Padded
      <4> QED BY <1>7, <1>10, <3>4, <4>2, <4>3 DEF Fails, SharedPart
    <3> QED BY <3>1, <3>3, <3>4
  <2> QED BY <2>2, <2>3
<1> QED BY <1>6, <1>8, <1>9, <1>10

LEMMA ModelFacts ==
  ASSUME RealModels, OpsTypes
  PROVE  /\ model \in Seq(Layer) /\ Len(model) \in Nat /\ Len(model) > 0
         /\ \A i \in 1..Len(model) :
                model[i] \in Layer /\ model[i].hidden > 0 /\ model[i].moe >= RoutedWidth(model[i])
<1>1. model \in Seq(Layer) /\ Len(model) > 0
      /\ \A i \in 1..Len(model) : model[i].hidden > 0 /\ model[i].moe >= RoutedWidth(model[i])
  BY DEF RealModels, OpsTypes
<1>2. Len(model) \in Nat /\ \A i \in 1..Len(model) : model[i] \in Layer
  BY <1>1
<1> QED BY <1>1, <1>2

\* By whichever way, the op finds the layer that it was called for.
LEMMA FindsOwn ==
  ASSUME RealModels, OpsIInv, NEW u \in Streams, at[u].stage = "op"
  PROVE  ~ Exhausted(u) /\ Found(u) = at[u].layer
<1> DEFINE n == at[u].layer
<1>1. /\ Len(registry) = Len(model) /\ n \in 1..Len(model) /\ Len(model) \in Nat
      /\ naming = "context" => context[u] + 1 = n
      /\ context[u] \in Nat /\ model \in Seq(Layer)
  BY ModelFacts DEF OpsIInv, OpsTypes, PlaceRight, Built
<1> HIDE DEF n
<1>2. ~ Exhausted(u)
  BY <1>1, SMT DEF Exhausted
<1>3. DOMAIN model = 1..Len(model)
  BY <1>1
<1>4. \A i \in DOMAIN model : model[i].name = model[n].name => i = n
  BY <1>1, <1>3 DEF OpsIInv, RegistryRight
<1>5. registry[n] = model[n].name
  BY <1>1 DEF OpsIInv, RegistryRight
<1>6. Found(u) = CHOOSE i \in DOMAIN model : model[i].name = model[n].name
  BY <1>1, <1>5 DEF Found, n
<1>7. Found(u) = n
  BY <1>1, <1>3, <1>4, <1>6
<1> QED BY <1>2, <1>7 DEF n

\* A microbatch that an action leaves alone stays right.
LEMMA OthersKeep ==
  ASSUME OpsIInv, NEW u \in Streams, UNCHANGED << model, naming, registry >>,
         at'[u] = at[u], context'[u] = context[u], width'[u] = width[u], served'[u] = served[u]
  PROVE  PlaceRight(u)' /\ WidthRight(u)'
<1>1. PlaceRight(u) /\ WidthRight(u) /\ Built' = Built /\ This(u)' = This(u)
  BY DEF OpsIInv, Built, This
<1>2. Passed(This(u))' = Passed(This(u)) /\ Declared(This(u))' = Declared(This(u))
  BY <1>1
<1> QED BY <1>1, <1>2 DEF PlaceRight, WidthRight

LEMMA RegisterKeeps ==
  ASSUME RealModels, OpsIInv, Register
  PROVE  OpsIInv'
<1> DEFINE n == Len(registry) + 1
           next == model[n].name
<1>1. /\ OpsTypes /\ RegistryRight /\ ~ Built /\ registry' = Append(registry, next)
      /\ UNCHANGED << model, naming, context, at, width, served >>
      /\ next \notin Names
  BY DEF Register, OpsIInv
<1>2. registry \in Seq(Nat) /\ Len(registry) \in Nat /\ Len(model) \in Nat /\ n \in 1..Len(model)
  <2>1. registry \in Seq(Nat) /\ Len(registry) <= Len(model) /\ Len(registry) # Len(model)
    BY <1>1 DEF OpsTypes, Built
  <2> QED BY <2>1, <1>1, ModelFacts, SMT
<1>3. next \in Nat
  BY <1>1, <1>2, ModelFacts DEF Layer
<1> HIDE DEF next
<1>4. /\ registry' \in Seq(Nat) /\ Len(registry') = n
      /\ registry'[n] = next /\ \A i \in 1..Len(registry) : registry'[i] = registry[i]
      /\ \A i \in 1..n : i = n \/ i \in 1..Len(registry)
  BY <1>1, <1>2, <1>3, SMT
<1>5. OpsTypes'
  BY <1>1, <1>2, <1>4 DEF OpsTypes
<1>6. \A i \in 1..Len(registry) : registry[i] # next
  BY <1>1, <1>2 DEF Names
<1>7. RegistryRight'
  <2>1. \A i \in 1..n : registry'[i] = model[i].name
    BY <1>1, <1>4 DEF RegistryRight, next
  <2>2. \A i, j \in 1..n : registry'[i] = registry'[j] => i = j
    BY <1>1, <1>4, <1>6 DEF RegistryRight
  <2> QED BY <1>1, <1>4, <2>1, <2>2 DEF RegistryRight
<1>8. ASSUME NEW u \in Streams PROVE PlaceRight(u)' /\ WidthRight(u)'
  <2>1. at[u].stage = "idle"
    BY <1>1 DEF OpsIInv, PlaceRight
  <2> QED BY <1>1, <2>1 DEF PlaceRight, WidthRight
<1> QED BY <1>5, <1>7, <1>8 DEF OpsIInv

LEMMA EnterKeeps ==
  ASSUME RealModels, OpsIInv, NEW x \in Streams, Enter(x)
  PROVE  OpsIInv'
<1>1. /\ OpsTypes /\ Built /\ UNCHANGED << model, naming, registry, served >>
      /\ at' = [at EXCEPT ![x] = [layer |-> 1, stage |-> "traced"]]
      /\ context' = [context EXCEPT ![x] = 0]
      /\ width' = [width EXCEPT ![x] = [NoWidths EXCEPT !.states = model[1].hidden]]
  BY DEF Enter, OpsIInv
<1>2. 1 \in 1..Len(model) /\ 1 \in Nat /\ 0 \in Nat /\ 0 + 1 = 1
  BY <1>1, ModelFacts, SMT
<1>3. model[1].hidden \in Nat
  BY <1>1, <1>2, ModelFacts DEF Layer
<1>4. [NoWidths EXCEPT !.states = model[1].hidden] \in WidthsOf
  BY <1>2, <1>3 DEF NoWidths, WidthsOf
<1>5. OpsTypes'
  BY <1>1, <1>2, <1>4 DEF OpsTypes, Stages
<1>6. ASSUME NEW u \in Streams PROVE PlaceRight(u)' /\ WidthRight(u)'
  <2>1. CASE u # x
    BY <1>1, <2>1, OthersKeep DEF OpsTypes
  <2>2. CASE u = x
    <3>1. at'[u] = [layer |-> 1, stage |-> "traced"] /\ context'[u] = 0 /\ Built'
      BY <1>1, <2>2 DEF OpsTypes, Built
    <3> QED BY <1>1, <1>2, <3>1 DEF PlaceRight, WidthRight
  <2> QED BY <2>1, <2>2
<1> QED BY <1>1, <1>5, <1>6 DEF OpsIInv, RegistryRight

LEMMA PrepareKeeps ==
  ASSUME RealModels, OpsIInv, NEW x \in Streams, Prepare(x)
  PROVE  OpsIInv'
<1> DEFINE l == This(x)
<1>1. /\ OpsTypes /\ at[x].stage = "traced"
      /\ UNCHANGED << model, naming, registry, context, served >>
      /\ at' = [at EXCEPT ![x].stage = "op"]
      /\ width' = [width EXCEPT ![x].routed = Passed(l), ![x].shared = SharedInput(l)]
      /\ PlaceRight(x)
  BY DEF Prepare, OpsIInv, Goto
<1>2. at[x].layer \in 1..Len(model) /\ l \in Layer /\ l.hidden > 0 /\ l.moe >= RoutedWidth(l)
  BY <1>1, ModelFacts DEF PlaceRight, This
<1>3. Passed(l) \in Nat /\ SharedInput(l) \in Nat
  BY <1>2, LayerWidths
<1> HIDE DEF l
<1>4. /\ at'[x].layer = at[x].layer /\ at'[x].stage = "op" /\ width'[x].routed = Passed(l)
      /\ \A u \in Streams : u # x => at'[u] = at[u] /\ width'[u] = width[u]
  BY <1>1 DEF OpsTypes, WidthsOf
<1>5. OpsTypes'
  BY <1>1, <1>3 DEF OpsTypes, WidthsOf, Stages
<1>6. ASSUME NEW u \in Streams PROVE PlaceRight(u)' /\ WidthRight(u)'
  <2>1. CASE u # x
    BY <1>1, <1>4, <2>1, OthersKeep
  <2>2. CASE u = x
    <3>1. Built' = Built /\ This(x)' = l
      BY <1>1, <1>4 DEF Built, This, l
    <3> QED BY <1>1, <1>4, <2>2, <3>1 DEF PlaceRight, WidthRight
  <2> QED BY <2>1, <2>2
<1> QED BY <1>1, <1>5, <1>6 DEF OpsIInv, RegistryRight

LEMMA OpKeeps ==
  ASSUME RealModels, OpsIInv, NEW x \in Streams, Op(x)
  PROVE  OpsIInv'
<1> DEFINE l == This(x)
           n == at[x].layer
<1>1. /\ OpsTypes /\ at[x].stage = "op" /\ UNCHANGED << model, naming, registry >>
      /\ PlaceRight(x) /\ WidthRight(x)
  BY DEF Op, OpsIInv
<1>2. /\ n \in 1..Len(model) /\ n \in Nat /\ l \in Layer /\ l.hidden > 0 /\ l.moe >= RoutedWidth(l)
      /\ l = model[n]
  BY <1>1, ModelFacts DEF PlaceRight, This
<1>3. ~ Exhausted(x) /\ Found(x) = n
  BY <1>1, FindsOwn
<1>4. /\ Accepts(l, width[x])
      /\ Returned(l, width[x]).routed = Declared(l).routed
      /\ Returned(l, width[x]).shared = Declared(l).shared
      /\ Declared(l).routed \in Nat /\ Declared(l).shared \in Nat
  BY <1>1, <1>2, LayerWidths DEF WidthRight
<1>5. /\ context' = [context EXCEPT ![x] = Advanced(x)]
      /\ served' = [served EXCEPT ![x] = n]
      /\ width' = [width EXCEPT ![x].routed = Declared(l).routed,
                                ![x].shared = Declared(l).shared]
      /\ at' = [at EXCEPT ![x].stage = "back"]
  BY <1>2, <1>3, <1>4 DEF Op, Goto
<1>6. Advanced(x) \in Nat /\ (naming = "context" => Advanced(x) = n)
  <2>1. context[x] \in Nat
    BY <1>1 DEF OpsTypes
  <2> QED BY <1>1, <2>1, SMT DEF Advanced, PlaceRight
<1> HIDE DEF l, n
<1>7. /\ at'[x].layer = n /\ at'[x].stage = "back" /\ served'[x] = n /\ context'[x] = Advanced(x)
      /\ width'[x].routed = Declared(l).routed /\ width'[x].shared = Declared(l).shared
      /\ \A u \in Streams : u # x => /\ at'[u] = at[u] /\ width'[u] = width[u]
                                     /\ context'[u] = context[u] /\ served'[u] = served[u]
  BY <1>1, <1>5 DEF OpsTypes, WidthsOf, n
<1>8. OpsTypes'
  BY <1>1, <1>2, <1>4, <1>5, <1>6 DEF OpsTypes, WidthsOf, Stages
<1>9. ASSUME NEW u \in Streams PROVE PlaceRight(u)' /\ WidthRight(u)'
  <2>1. CASE u # x
    BY <1>1, <1>7, <2>1, OthersKeep
  <2>2. CASE u = x
    <3>1. Built' = Built /\ This(x)' = l /\ Built
      BY <1>1, <1>2, <1>7 DEF Built, This, l, PlaceRight
    <3> QED BY <1>1, <1>2, <1>6, <1>7, <2>2, <3>1 DEF PlaceRight, WidthRight
  <2> QED BY <2>1, <2>2
<1> QED BY <1>1, <1>8, <1>9 DEF OpsIInv, RegistryRight

LEMMA BackKeeps ==
  ASSUME RealModels, OpsIInv, NEW x \in Streams, Back(x)
  PROVE  OpsIInv'
<1> DEFINE l == This(x)
           stage == IF Refused(l) THEN "refused" ELSE "layer"
           states == IF Refused(l) THEN width[x].states ELSE l.hidden
<1>1. /\ OpsTypes /\ at[x].stage = "back"
      /\ UNCHANGED << model, naming, registry, context, served >>
      /\ PlaceRight(x) /\ WidthRight(x)
  BY DEF Back, OpsIInv
<1>2. at[x].layer \in 1..Len(model) /\ l \in Layer /\ l.hidden > 0 /\ l.moe >= RoutedWidth(l)
  BY <1>1, ModelFacts DEF PlaceRight, This
<1>3. ~ Fails(l, width[x]) /\ Final(l, width[x]) = l.hidden
  BY <1>1, <1>2, LayerWidths DEF WidthRight
<1>4. /\ at' = [at EXCEPT ![x].stage = stage]
      /\ width' = [width EXCEPT ![x].states = states]
  BY <1>3 DEF Back, Goto
<1>5. states \in Nat /\ stage \in {"refused", "layer"}
  BY <1>1, <1>2 DEF OpsTypes, WidthsOf, Layer
<1>6. stage = "layer" => states = l.hidden
  OBVIOUS
<1> HIDE DEF l, stage, states
<1>7. /\ at'[x].layer = at[x].layer /\ at'[x].stage = stage /\ width'[x].states = states
      /\ \A u \in Streams : u # x => at'[u] = at[u] /\ width'[u] = width[u]
  BY <1>1, <1>4 DEF OpsTypes, WidthsOf
<1>8. OpsTypes'
  BY <1>1, <1>4, <1>5 DEF OpsTypes, WidthsOf, Stages
<1>9. ASSUME NEW u \in Streams PROVE PlaceRight(u)' /\ WidthRight(u)'
  <2>1. CASE u # x
    BY <1>1, <1>7, <2>1, OthersKeep
  <2>2. CASE u = x
    <3>1. Built' = Built /\ This(x)' = l
      BY <1>1, <1>7 DEF Built, This, l
    <3> QED BY <1>1, <1>5, <1>6, <1>7, <2>2, <3>1 DEF PlaceRight, WidthRight
  <2> QED BY <2>1, <2>2
<1> QED BY <1>1, <1>8, <1>9 DEF OpsIInv, RegistryRight

LEMMA LeaveKeeps ==
  ASSUME RealModels, OpsIInv, NEW x \in Streams, Leave(x)
  PROVE  OpsIInv'
<1> DEFINE n == at[x].layer
<1>1. /\ OpsTypes /\ at[x].stage = "layer"
      /\ UNCHANGED << model, naming, registry, context, width, served >>
      /\ PlaceRight(x)
  BY DEF Leave, OpsIInv
<1>2. n \in 1..Len(model) /\ Len(model) \in Nat /\ Built
  BY <1>1, ModelFacts DEF PlaceRight
<1>3. CASE n = Len(model)
  <2>1. at' = [at EXCEPT ![x].stage = "idle"]
    BY <1>3 DEF Leave, Goto
  <2>2. at'[x].stage = "idle" /\ \A u \in Streams : u # x => at'[u] = at[u]
    BY <1>1, <2>1 DEF OpsTypes
  <2>3. OpsTypes'
    BY <1>1, <2>1 DEF OpsTypes, Stages
  <2>4. ASSUME NEW u \in Streams PROVE PlaceRight(u)' /\ WidthRight(u)'
    <3>1. CASE u # x
      BY <1>1, <2>2, <3>1, OthersKeep
    <3>2. CASE u = x
      BY <2>2, <3>2 DEF PlaceRight, WidthRight
    <3> QED BY <3>1, <3>2
  <2> QED BY <1>1, <2>3, <2>4 DEF OpsIInv, RegistryRight
<1>4. CASE n # Len(model)
  <2>1. at' = [at EXCEPT ![x].layer = n + 1, ![x].stage = "traced"]
    BY <1>4 DEF Leave
  <2>2. n + 1 \in 1..Len(model) /\ n + 1 \in Nat
    BY <1>2, <1>4, SMT
  <2> HIDE DEF n
  <2>3. /\ at'[x].layer = n + 1 /\ at'[x].stage = "traced"
        /\ \A u \in Streams : u # x => at'[u] = at[u]
    BY <1>1, <2>1 DEF OpsTypes
  <2>4. OpsTypes'
    BY <1>1, <2>1, <2>2 DEF OpsTypes, Stages
  <2>5. ASSUME NEW u \in Streams PROVE PlaceRight(u)' /\ WidthRight(u)'
    <3>1. CASE u # x
      BY <1>1, <2>3, <3>1, OthersKeep
    <3>2. CASE u = x
      <4>1. naming = "context" => context[x] + 1 = n + 1
        BY <1>1 DEF PlaceRight, n
      <4>2. Built'
        BY <1>1, <1>2 DEF Built
      <4> QED BY <1>1, <2>2, <2>3, <3>2, <4>1, <4>2 DEF PlaceRight, WidthRight
    <3> QED BY <3>1, <3>2
  <2> QED BY <1>1, <2>4, <2>5 DEF OpsIInv, RegistryRight
<1> QED BY <1>3, <1>4

\* Every op runs the layer whose traced side called it, by name or by count and however
\* the microbatches interleave, with the widths the graph was compiled for, and every
\* layer hands on states of the model's width: for any model that can be built, of any
\* number of layers and of any widths.
THEOREM OpsServeTheirLayers == RealModels => (OpsSpec => []OpsRight)
<1> SUFFICES ASSUME RealModels PROVE OpsSpec => []OpsRight
  OBVIOUS
<1>1. OpsInit => OpsIInv
  <2> SUFFICES ASSUME OpsInit PROVE OpsIInv
    OBVIOUS
  <2>1. registry = << >> /\ Len(registry) = 0 /\ registry \in Seq(Nat) /\ 1..0 = {} /\ 0 \in Nat
    BY SMT DEF OpsInit
  <2>2. model \in Seq(Layer) /\ 0 <= Len(model)
    <3>1. model \in Seq(Layer) /\ Len(model) > 0
      BY DEF OpsInit, RealModels
    <3> QED BY <3>1, SMT
  <2>3. NoWidths \in WidthsOf
    BY <2>1 DEF NoWidths, WidthsOf
  <2>4. OpsTypes
    BY <2>1, <2>2, <2>3 DEF OpsInit, OpsTypes, Stages
  <2> QED BY <2>1, <2>4 DEF OpsInit, OpsIInv, RegistryRight, PlaceRight, WidthRight
<1>2. OpsIInv /\ [OpsNext]_opsVars => OpsIInv'
  <2> SUFFICES ASSUME OpsIInv, [OpsNext]_opsVars PROVE OpsIInv'
    OBVIOUS
  <2>1. ASSUME UNCHANGED opsVars PROVE OpsIInv'
    <3>1. \A u \in Streams : PlaceRight(u)' /\ WidthRight(u)'
      BY <2>1, OthersKeep DEF opsVars
    <3> QED BY <2>1, <3>1 DEF opsVars, OpsIInv, OpsTypes, RegistryRight
  <2> QED BY <2>1, RegisterKeeps, EnterKeeps, PrepareKeeps, OpKeeps, BackKeeps, LeaveKeeps
          DEF OpsNext
<1>3. OpsIInv => OpsRight
  <2> SUFFICES ASSUME OpsIInv, NEW u \in Streams
               PROVE  /\ at[u].stage # "failed"
                      /\ at[u].stage = "back" =>
                            /\ served[u] = at[u].layer
                            /\ width[u].routed = Declared(This(u)).routed
                            /\ width[u].shared = Declared(This(u)).shared
                      /\ at[u].stage = "layer" => width[u].states = This(u).hidden
    BY DEF OpsRight
  <2>1. at[u].stage # "failed"
    BY DEF OpsIInv, OpsTypes, Stages
  <2> QED BY <2>1 DEF OpsIInv, WidthRight
<1> QED BY <1>1, <1>2, <1>3, PTL DEF OpsSpec

-----------------------------------------------------------------------------
(* The experts of a rank: what compaction keeps.                             *)

\* Ranks in a set of columns.
LEMMA RankFacts ==
  ASSUME NEW T \in Nat, NEW S \in SUBSET (0..(T - 1))
  PROVE  /\ IsFiniteSet(S) /\ Cardinality(S) \in Nat
         /\ \A k \in 0..(T - 1) : Rank(S, k) \in Nat
         /\ \A k \in S : Rank(S, k) < Cardinality(S)
         /\ \A k \in S, j \in 0..(T - 1) : k < j => Rank(S, k) < Rank(S, j)
         /\ \A k, j \in S : Rank(S, k) = Rank(S, j) => k = j
<1> DEFINE before(k) == {i \in S : i < k}
<1>1. IsFiniteSet(S) /\ Cardinality(S) \in Nat
  <2>1. IsFiniteSet(0..(T - 1))
    BY FS_Interval
  <2>2. IsFiniteSet(S)
    BY <2>1, FS_Subset
  <2> QED BY <2>2, FS_CardinalityType
<1>2. \A k : IsFiniteSet(before(k)) /\ Cardinality(before(k)) \in Nat
  <2> TAKE k
  <2>1. before(k) \in SUBSET S
    OBVIOUS
  <2>2. IsFiniteSet(before(k))
    BY <1>1, <2>1, FS_Subset
  <2> QED BY <2>2, FS_CardinalityType
<1>3. ASSUME NEW k \in S, NEW U, IsFiniteSet(U), before(k) \cup {k} \in SUBSET U
      PROVE  Cardinality(before(k)) < Cardinality(U)
  <2>1. k \notin before(k)
    <3>1. k \in Int /\ ~ (k < k)
      OBVIOUS
    <3> QED BY <3>1
  <2>2. Cardinality(before(k) \cup {k}) = Cardinality(before(k)) + 1
    BY <1>2, <2>1, FS_AddElement
  <2>3. Cardinality(before(k) \cup {k}) <= Cardinality(U)
    BY <1>3, FS_Subset
  <2>4. Cardinality(U) \in Nat /\ Cardinality(before(k)) \in Nat
    BY <1>2, <1>3, FS_CardinalityType
  <2> HIDE DEF before
  <2> QED BY <2>2, <2>3, <2>4
<1>4. ASSUME NEW k \in S
      PROVE  Rank(S, k) < Cardinality(S)
  <2>1. before(k) \cup {k} \in SUBSET S
    OBVIOUS
  <2>2. Cardinality(before(k)) < Cardinality(S)
    BY <1>1, <1>3, <2>1
  <2> QED BY <2>2 DEF Rank
<1>5. ASSUME NEW k \in S, NEW j \in 0..(T - 1), k < j
      PROVE  Rank(S, k) < Rank(S, j)
  <2>1. before(k) \cup {k} \in SUBSET before(j)
    <3>1. ASSUME NEW i \in before(k) PROVE i \in before(j)
      <4>1. i \in Int /\ k \in Int /\ j \in Int /\ i < k
        OBVIOUS
      <4>2. i < j
        BY <1>5, <4>1
      <4> QED BY <4>2
    <3>2. k \in before(j)
      BY <1>5
    <3> HIDE DEF before
    <3> QED BY <3>1, <3>2
  <2>2. Cardinality(before(k)) < Cardinality(before(j))
    BY <1>2, <1>3, <2>1
  <2> QED BY <2>2 DEF Rank
<1>6. \A k \in 0..(T - 1) : Rank(S, k) \in Nat
  BY <1>2 DEF Rank
<1>7. ASSUME NEW k \in S, NEW j \in S, Rank(S, k) = Rank(S, j)
      PROVE  k = j
  <2>1. k \in 0..(T - 1) /\ j \in 0..(T - 1)
    OBVIOUS
  <2>2. ~ (k < j) /\ ~ (j < k)
    BY <1>5, <1>6, <1>7, <2>1
  <2> QED BY <2>1, <2>2
<1> QED BY <1>1, <1>4, <1>5, <1>6, <1>7

\* Every slot of a row has a place of its own, the owned ones first.
LEMMA PlaceOnto ==
  ASSUME NEW r
  PROVE  /\ IsFiniteSet(OwnedCols(r)) /\ NumOwned(r) \in 0..TopK
         /\ \A k \in OwnedCols(r) : Place(r, k) \in 0..(NumOwned(r) - 1)
         /\ \A j \in 0..(TopK - 1) : \E k \in 0..(TopK - 1) : Place(r, k) = j
<1> DEFINE S == OwnedCols(r)
           U == 0..(TopK - 1) \ S
           I == 0..(TopK - 1)
<1>1. TopK \in Nat \ {0}
  BY ExpertsAssumption
<1>2. S \in SUBSET I /\ U \in SUBSET I
  BY DEF OwnedCols
<1>3. /\ IsFiniteSet(S) /\ Cardinality(S) \in Nat
      /\ \A k \in I : Rank(S, k) \in Nat
      /\ \A k \in S : Rank(S, k) < Cardinality(S)
      /\ \A k, j \in S : Rank(S, k) = Rank(S, j) => k = j
  BY <1>1, <1>2, RankFacts
<1>4. /\ IsFiniteSet(U) /\ Cardinality(U) \in Nat
      /\ \A k \in I : Rank(U, k) \in Nat
      /\ \A k \in U : Rank(U, k) < Cardinality(U)
      /\ \A k, j \in U : Rank(U, k) = Rank(U, j) => k = j
  BY <1>1, <1>2, RankFacts
<1>5. IsFiniteSet(I) /\ Cardinality(I) = TopK
  <2>1. 0 \in Int /\ TopK - 1 \in Int /\ ~ (0 > TopK - 1) /\ TopK - 1 - 0 + 1 = TopK
    BY <1>1
  <2> HIDE DEF S, U
  <2> QED BY <2>1, FS_Interval
<1>6. Cardinality(S) + Cardinality(U) = TopK
  <2>1. S \cup U = I /\ S \cap U = {}
    BY <1>2
  <2>2. Cardinality({}) = 0
    BY FS_EmptySet
  <2>3. Cardinality(S \cup U) = Cardinality(S) + Cardinality(U) - Cardinality(S \cap U)
    BY <1>3, <1>4, FS_Union
  <2> HIDE DEF S, U, I
  <2>4. TopK = Cardinality(S) + Cardinality(U) - 0
    BY <1>5, <2>1, <2>2, <2>3
  <2> QED BY <1>3, <1>4, <2>4
<1> DEFINE place == [k \in I |-> Place(r, k)]
<1>7. \A k \in S : place[k] = Rank(S, k)
  BY <1>2 DEF Place
<1>8. \A k \in U : place[k] = Cardinality(S) + Rank(U, k)
  BY <1>2 DEF Place, NumOwned
<1>9. \A k \in I : k \in S \/ k \in U
  OBVIOUS
<1> HIDE DEF S, U, place
<1>10. \A k \in S : k \in I /\ place[k] \in 0..(Cardinality(S) - 1)
  BY <1>2, <1>3, <1>7
<1>11. \A k \in U : k \in I /\ place[k] \in Cardinality(S)..(TopK - 1)
  BY <1>2, <1>3, <1>4, <1>6, <1>8
<1>12. ASSUME NEW k \in I, NEW j \in I, place[k] = place[j]
       PROVE  k = j
  <2>1. CASE k \in S /\ j \in S
    BY <1>3, <1>7, <1>12, <2>1
  <2>2. CASE k \in U /\ j \in U
    <3>1. Rank(U, k) \in Nat /\ Rank(U, j) \in Nat
      BY <1>4
    <3>2. Cardinality(S) + Rank(U, k) = Cardinality(S) + Rank(U, j)
      BY <1>8, <1>12, <2>2
    <3>3. Rank(U, k) = Rank(U, j)
      BY <1>3, <3>1, <3>2
    <3> QED BY <1>4, <2>2, <3>3
  <2>3. CASE k \in S /\ j \in U
    BY <1>3, <1>10, <1>11, <1>12, <2>3
  <2>4. CASE k \in U /\ j \in S
    BY <1>3, <1>10, <1>11, <1>12, <2>4
  <2> QED BY <1>9, <2>1, <2>2, <2>3, <2>4
<1>13. ASSUME NEW j \in I PROVE \E k \in I : place[k] = j
  <2> SUFFICES ASSUME \A k \in I : place[k] # j PROVE FALSE
    OBVIOUS
  <2>1. place \in [I -> I \ {j}]
    <3>1. \A k \in I : place[k] \in I
      BY <1>3, <1>4, <1>6, <1>9, <1>10, <1>11
    <3>2. \A k \in I : place[k] \in I \ {j}
      BY <3>1
    <3> HIDE DEF I
    <3> QED BY <3>2 DEF place
  <2>2. IsFiniteSet(I \ {j}) /\ Cardinality(I \ {j}) = TopK - 1
    BY <1>5, FS_RemoveElement
  <2>3. Cardinality(I \ {j}) < Cardinality(I)
    BY <1>1, <1>5, <2>2
  <2>4. \E x, y \in I : x # y /\ place[x] = place[y]
    <3> HIDE DEF I
    <3> QED BY <1>5, <2>1, <2>2, <2>3, FS_PigeonHole
  <2> QED BY <1>12, <2>4
<1>14. \A k \in I : place[k] = Place(r, k)
  BY DEF place
<1>15. NumOwned(r) = Cardinality(S) /\ NumOwned(r) \in 0..TopK
  BY <1>3, <1>4, <1>6 DEF NumOwned, S
<1>16. \A k \in S : Place(r, k) \in 0..(NumOwned(r) - 1)
  BY <1>10, <1>14, <1>15
<1> QED BY <1>3, <1>13, <1>14, <1>15, <1>16 DEF S

-----------------------------------------------------------------------------
(* The receiver.                                                             *)

\* The environment, the shapes and the rows, which no step changes.
Fixed == setting \in Configs /\ Feasible(setting) /\ Admissible(setting)
         /\ recv \in Seq(RowsOf(setting))

\* Their types.
LEMMA SettingTyped ==
  ASSUME Fixed
  PROVE  /\ setting.compact \in 0..2 /\ setting.rank \in 0..(NumRanks - 1)
         /\ N \in Nat \ {0} /\ K \in Nat \ {0} /\ ActDim \in Nat \ {0}
         /\ NumRows \in Nat /\ \A r \in 0..(NumRows - 1) : Row(r) \in RowsOf(setting)
         /\ setting.gate \in {"no", "skipped", "written"}
<1>1. setting \in Configs
  BY DEF Fixed
<1>2. setting.compact \in 0..2 /\ setting.rank \in 0..(NumRanks - 1) /\ setting.dims \in Dims
      /\ setting.gate \in {"no", "skipped", "written"}
  BY <1>1 DEF Configs
<1>3. N \in Nat \ {0} /\ K \in Nat \ {0} /\ ActDim \in Nat \ {0}
  BY <1>2, ExpertsAssumption DEF N, K, ActDim
<1>4. NumRows \in Nat /\ \A i \in 1..NumRows : recv[i] \in RowsOf(setting)
  <2> DEFINE R == RowsOf(setting)
  <2>1. recv \in Seq(R)
    BY DEF Fixed
  <2> HIDE DEF R
  <2>2. Len(recv) \in Nat /\ \A i \in 1..Len(recv) : recv[i] \in R
    BY <2>1
  <2> QED BY <2>2 DEF NumRows, R
<1>5. ASSUME NEW r \in 0..(NumRows - 1) PROVE Row(r) \in RowsOf(setting)
  <2>1. r + 1 \in 1..NumRows
    BY <1>4
  <2> QED BY <1>4, <2>1 DEF Row
<1> QED BY <1>2, <1>3, <1>4, <1>5

\* An expert of this rank is owned and the filler is not.
LEMMA FillerForeign ==
  ASSUME Fixed
  PROVE  /\ Offset \in Nat /\ ExpertMap(Fake) = -1
         /\ \A e \in 0..(LocalE - 1) : ExpertMap(e + Offset) = e
<1> DEFINE k == setting.rank
<1>1. LocalE \in Nat \ {0} /\ NumRanks \in Nat \ {0, 1} /\ k \in 0..(NumRanks - 1)
  BY ExpertsAssumption, SettingTyped
<1> HIDE DEF k
<1>2. Offset = k * LocalE /\ k * LocalE \in Nat
  BY <1>1 DEF Offset, k
<1>3. \A e \in 0..(LocalE - 1) : ExpertMap(e + Offset) = e
  <2> TAKE e \in 0..(LocalE - 1)
  <2>1. e \in Int /\ 0 <= e /\ e <= LocalE - 1 /\ LocalE \in Int /\ Offset \in Int
    BY <1>1, <1>2
  <2>2. e + Offset \in Offset..(Offset + LocalE - 1) /\ (e + Offset) - Offset = e
    BY <2>1
  <2> QED BY <2>2 DEF ExpertMap
<1>4. Fake \notin Offset..(Offset + LocalE - 1)
  <2>1. CASE Offset = 0
    <3>1. LocalE * 2 <= LocalE * NumRanks
      <4>1. LocalE \in Nat /\ 2 \in Nat /\ NumRanks \in Nat /\ LocalE <= LocalE /\ 2 <= NumRanks
        BY <1>1
      <4> QED BY <4>1, ProductMonotone
    <3>2. LocalE * NumRanks \in Nat
      BY <1>1
    <3> DEFINE m == LocalE * NumRanks
    <3> HIDE DEF m
    <3>3. m - 1 \notin 0..(0 + LocalE - 1)
      <4>1. m \in Nat /\ LocalE * 2 <= m /\ LocalE \in Nat \ {0}
        BY <1>1, <3>1, <3>2 DEF m
      <4> QED BY <4>1
    <3> QED BY <2>1, <3>3 DEF Fake, NumExperts, m
  <2>2. CASE Offset # 0
    <3>1. Offset \in Nat /\ LocalE \in Nat
      BY <1>1, <1>2
    <3>2. 0 \notin Offset..(Offset + LocalE - 1)
      BY <2>2, <3>1
    <3> QED BY <2>2, <3>2 DEF Fake
  <2> QED BY <2>1, <2>2
<1>5. ExpertMap(Fake) = -1
  BY <1>4 DEF ExpertMap
<1> QED BY <1>2, <1>3, <1>5

\* An expert that this rank runs.
Runs(id) == setting.mapped => ExpertMap(id) # -1

\* The expert that column k of row r names.
Named(r, k) == IF setting.mapped THEN Row(r)[k] + Offset ELSE Row(r)[k]

\* What is left of a row in w columns.
Keeps(r, w) ==
    /\ \A j \in 0..(w - 1) : Runs(Slot(r, j).id) =>
            Slot(r, j).wt \in OwnedCols(r) /\ Slot(r, j).id = Named(r, Slot(r, j).wt)
    /\ \A k \in OwnedCols(r) : \E j \in 0..(w - 1) : Runs(Slot(r, j).id) /\ Slot(r, j).wt = k

\* The width, and that no row owns more when it is cut.
LEMMA WidestRight ==
  ASSUME Fixed, NumRows > 0
  PROVE  /\ Widest \in 0..TopK
         /\ \A r \in 0..(NumRows - 1) : NumOwned(r) <= Widest
<1> DEFINE Good(w) == /\ \E r \in 0..(NumRows - 1) : NumOwned(r) = w
                      /\ \A r \in 0..(NumRows - 1) : NumOwned(r) <= w
<1>1. TopK \in Nat /\ NumRows \in Nat /\ 0 \in 0..(NumRows - 1)
  BY ExpertsAssumption, SettingTyped
<1>2. \A r \in 0..(NumRows - 1) : NumOwned(r) \in 0..TopK
  BY PlaceOnto
<1> DEFINE T == {x \in 0..TopK : \E r \in 0..(NumRows - 1) : x = TopK - NumOwned(r)}
<1>3. T \subseteq Nat /\ TopK - NumOwned(0) \in T
  BY <1>1, <1>2
<1>4. PICK x \in T : \A y \in T : x <= y
  <2> HIDE DEF T
  <2> QED BY <1>3, Least
<1>5. PICK s \in 0..(NumRows - 1) : x = TopK - NumOwned(s)
  BY <1>4
<1>6. \A r \in 0..(NumRows - 1) : NumOwned(r) <= NumOwned(s)
  <2> TAKE r \in 0..(NumRows - 1)
  <2>1. NumOwned(r) \in 0..TopK /\ NumOwned(s) \in 0..TopK
    BY <1>2, <1>5
  <2>2. TopK - NumOwned(r) \in T
    BY <1>1, <2>1
  <2>3. TopK - NumOwned(s) <= TopK - NumOwned(r)
    BY <1>4, <1>5, <2>2
  <2> QED BY <1>1, <2>1, <2>3
<1>7. NumOwned(s) \in 0..TopK /\ Good(NumOwned(s))
  BY <1>2, <1>5, <1>6
<1>8. \E w \in 0..TopK : Good(w)
  BY <1>7
<1>9. Widest = CHOOSE w \in 0..TopK : Good(w)
  BY DEF Widest
<1> HIDE DEF Good
<1>10. Widest \in 0..TopK /\ Good(Widest)
  BY <1>8, <1>9
<1> QED BY <1>10 DEF Good

\* The width of the routing.
Columns == IF Compacts THEN Narrow ELSE TopK

\* However a row is cut, what is left of it are this rank's slots, each with its weight.
LEMMA RowsKept ==
  ASSUME Fixed, NEW r \in 0..(NumRows - 1)
  PROVE  Columns \in 1..TopK /\ Keeps(r, Columns)
<1>1. TopK \in Nat \ {0} /\ NumRows \in Nat /\ NumRows > 0 /\ setting.compact \in 0..2
  BY ExpertsAssumption, SettingTyped
<1>2. Widest \in 0..TopK /\ NumOwned(r) <= Widest /\ NumOwned(r) \in 0..TopK
  BY <1>1, PlaceOnto, WidestRight
<1>3. Narrow \in 1..TopK /\ (Narrow < TopK => Widest <= Narrow)
  BY <1>1, <1>2 DEF Narrow
<1>4. Columns \in 1..TopK
  BY <1>1, <1>3 DEF Columns
<1> DEFINE f == Row(r)
           O == OwnedCols(r)
           I == 0..(TopK - 1)
<1>5. f \in RowsOf(setting)
  BY SettingTyped
<1>6. \A k \in I : (k \in O <=> f[k] # -1)
  BY DEF OwnedCols
<1>7. O \subseteq I
  BY DEF OwnedCols
<1>8. /\ Offset \in Nat /\ ExpertMap(Fake) = -1
      /\ \A e \in 0..(LocalE - 1) : ExpertMap(e + Offset) = e
      /\ LocalE \in Nat
  BY FillerForeign, ExpertsAssumption
<1>9. ASSUME setting.mapped, NEW k \in I
      PROVE  /\ k \in O => Runs(Global(f[k])) /\ Global(f[k]) = Named(r, k)
                           /\ f[k] + Offset = Named(r, k)
             /\ k \notin O => ~ Runs(Global(f[k]))
  <2>1. f[k] \in -1..(LocalE - 1)
    BY <1>5, <1>9 DEF RowsOf
  <2>2. CASE k \in O
    <3>1. f[k] # -1 /\ f[k] \in 0..(LocalE - 1)
      BY <1>6, <1>8, <2>1, <2>2
    <3>2. ExpertMap(f[k] + Offset) = f[k]
      BY <1>8, <3>1
    <3> QED BY <1>9, <2>2, <3>1, <3>2 DEF Runs, Global, Named
  <2>3. CASE k \notin O
    BY <1>6, <1>8, <1>9, <2>3 DEF Runs, Global
  <2> QED BY <2>2, <2>3
<1>10. CASE ~ setting.mapped
  <2>1. Columns = TopK
    BY <1>10 DEF Columns, Compacts
  <2>2. \A j : Slot(r, j) = [id |-> f[j], wt |-> j]
    BY <1>10 DEF Slot, Unmapped
  <2>3. O = I
    <3>1. \A k \in I : f[k] \in 0..(NumExperts - 1)
      BY <1>5, <1>10 DEF RowsOf
    <3>2. \A k \in I : f[k] # -1
      BY <3>1
    <3> QED BY <1>6, <1>7, <3>2
  <2> HIDE DEF O, f
  <2> QED BY <1>4, <1>10, <2>1, <2>2, <2>3 DEF Keeps, Runs, Named, O, f
<1>11. CASE setting.mapped /\ (~ Compacts \/ Narrow >= TopK)
  <2>1. Columns = TopK
    BY <1>1, <1>3, <1>11 DEF Columns
  <2>2. \A j : Slot(r, j).id = Global(f[j]) /\ Slot(r, j).wt = j
    BY <1>11 DEF Slot, Default
  <2> HIDE DEF O, f
  <2>3. ASSUME NEW j \in I, Runs(Slot(r, j).id)
        PROVE  Slot(r, j).wt \in O /\ Slot(r, j).id = Named(r, Slot(r, j).wt)
    BY <1>9, <1>11, <2>2, <2>3
  <2>4. ASSUME NEW k \in O
        PROVE  \E j \in I : Runs(Slot(r, j).id) /\ Slot(r, j).wt = k
    BY <1>7, <1>9, <1>11, <2>2, <2>4
  <2> QED BY <1>4, <2>1, <2>3, <2>4 DEF Keeps, O
<1>12. CASE setting.mapped /\ Compacts /\ ~ (Narrow >= TopK) /\ setting.compact = 1
  <2>1. Columns = Narrow /\ NumOwned(r) <= Columns
    BY <1>1, <1>2, <1>3, <1>12 DEF Columns
  <2>2. \A j : Slot(r, j) = Packed(r, j)
    BY <1>12 DEF Slot
  <2>3. \A k \in O : Rank(O, k) \in 0..(NumOwned(r) - 1)
    <3>1. \A k \in O : Place(r, k) = Rank(O, k)
      BY DEF Place
    <3> QED BY <3>1, PlaceOnto
  <2>4. \A k, i \in O : Rank(O, k) = Rank(O, i) => k = i
    <3>1. O \in SUBSET I /\ TopK \in Nat
      BY <1>1, <1>7
    <3> HIDE DEF O
    <3> QED BY <3>1, RankFacts
  <2>5. ASSUME NEW j, Hits(r, j) # {}
        PROVE  \E k \in O : Rank(O, k) = j /\ Packed(r, j).id = f[k] + Offset /\ Packed(r, j).wt = k
    <3> DEFINE k == CHOOSE k \in Hits(r, j) : TRUE
    <3>1. k \in Hits(r, j)
      BY <2>5
    <3>2. Packed(r, j).id = f[k] + Offset /\ Packed(r, j).wt = k
      BY <2>5 DEF Packed
    <3>3. k \in O /\ Rank(O, k) = j
      BY <3>1 DEF Hits
    <3> HIDE DEF k, f, O
    <3> QED BY <3>2, <3>3
  <2>6. ASSUME NEW j, Hits(r, j) = {}
        PROVE  ~ Runs(Packed(r, j).id)
    BY <1>8, <1>12, <2>6 DEF Packed, Runs
  <2> HIDE DEF O, f
  <2>7. ASSUME NEW j \in 0..(Columns - 1), Runs(Slot(r, j).id)
        PROVE  Slot(r, j).wt \in O /\ Slot(r, j).id = Named(r, Slot(r, j).wt)
    <3>1. Hits(r, j) # {}
      BY <2>2, <2>6, <2>7
    <3>2. PICK k \in O : Packed(r, j).id = f[k] + Offset /\ Packed(r, j).wt = k
      BY <2>5, <3>1
    <3>3. f[k] + Offset = Named(r, k)
      BY <1>7, <1>9, <1>12
    <3> QED BY <2>2, <3>2, <3>3
  <2>8. ASSUME NEW k \in O
        PROVE  \E j \in 0..(Columns - 1) : Runs(Slot(r, j).id) /\ Slot(r, j).wt = k
    <3> DEFINE j == Rank(O, k)
    <3>1. j \in 0..(Columns - 1)
      BY <1>2, <1>4, <2>1, <2>3
    <3>2. Hits(r, j) # {}
      BY DEF Hits, O
    <3>3. PICK i \in O : Rank(O, i) = j /\ Packed(r, j).id = f[i] + Offset /\ Packed(r, j).wt = i
      BY <2>5, <3>2
    <3>4. i = k
      BY <2>4, <3>3
    <3>5. k \in I
      BY <1>7
    <3>6. Runs(Global(f[k])) /\ Global(f[k]) = f[k] + Offset
      BY <1>9, <1>12, <3>5
    <3>7. Runs(Slot(r, j).id) /\ Slot(r, j).wt = k
      BY <2>2, <3>3, <3>4, <3>6
    <3> QED BY <3>1, <3>7
  <2> QED BY <1>4, <2>7, <2>8 DEF Keeps, O
<1>13. CASE setting.mapped /\ Compacts /\ ~ (Narrow >= TopK) /\ setting.compact # 1
  <2>1. Columns = Narrow /\ NumOwned(r) <= Columns
    BY <1>1, <1>2, <1>3, <1>13 DEF Columns
  <2>2. ASSUME NEW j \in I
        PROVE  \E k \in I : /\ Place(r, k) = j /\ Slot(r, j).id = Global(f[k]) /\ Slot(r, j).wt = k
    <3> DEFINE k == CHOOSE k \in I : Place(r, k) = j
    <3>1. k \in I /\ Place(r, k) = j
      <4>1. \E i \in I : Place(r, i) = j
        BY PlaceOnto
      <4> QED BY <4>1
    <3>2. Slot(r, j).id = Global(f[k]) /\ Slot(r, j).wt = k
      BY <1>13 DEF Slot, Sorted
    <3> HIDE DEF k, f
    <3> QED BY <3>1, <3>2
  <2>3. \A k \in O : Place(r, k) \in 0..(NumOwned(r) - 1)
    BY PlaceOnto
  <2>4. \A k, i \in O : Place(r, k) = Place(r, i) => k = i
    <3>1. O \in SUBSET I /\ TopK \in Nat
      BY <1>1, <1>7
    <3>2. \A k \in O : Place(r, k) = Rank(O, k)
      BY DEF Place
    <3> HIDE DEF O
    <3>3. \A k, i \in O : Rank(O, k) = Rank(O, i) => k = i
      BY <3>1, RankFacts
    <3> QED BY <3>2, <3>3
  <2>5. \A k \in I : Place(r, k) < NumOwned(r) /\ NumOwned(r) \in Nat => k \in O
    <3> TAKE k \in I
    <3> HAVE Place(r, k) < NumOwned(r) /\ NumOwned(r) \in Nat
    <3>1. ASSUME k \notin O PROVE FALSE
      <4> DEFINE U == 0..(TopK - 1) \ O
      <4>1. Place(r, k) = NumOwned(r) + Rank(U, k)
        BY <3>1 DEF Place
      <4>2. Rank(U, k) \in Nat
        <5>1. U \in SUBSET I /\ TopK \in Nat
          BY <1>1
        <5> HIDE DEF U
        <5> QED BY <5>1, RankFacts
      <4> HIDE DEF U
      <4> QED BY <4>1, <4>2
    <3> QED BY <3>1
  <2> HIDE DEF O, f
  <2>6. ASSUME NEW j \in 0..(Columns - 1), Runs(Slot(r, j).id)
        PROVE  Slot(r, j).wt \in O /\ Slot(r, j).id = Named(r, Slot(r, j).wt)
    <3>1. j \in I
      BY <1>1, <1>4
    <3>2. PICK k \in I : Slot(r, j).id = Global(f[k]) /\ Slot(r, j).wt = k
      BY <2>2, <3>1
    <3>3. k \in O
      BY <1>9, <1>13, <2>6, <3>2
    <3> QED BY <1>9, <1>13, <3>2, <3>3
  <2>7. ASSUME NEW k \in O
        PROVE  \E j \in 0..(Columns - 1) : Runs(Slot(r, j).id) /\ Slot(r, j).wt = k
    <3> DEFINE j == Place(r, k)
    <3>1. j \in 0..(NumOwned(r) - 1)
      BY <2>3
    <3> HIDE DEF j
    <3>2. j \in 0..(Columns - 1) /\ j \in I /\ j < NumOwned(r) /\ NumOwned(r) \in Nat
      BY <1>1, <1>2, <1>4, <2>1, <3>1
    <3>3. PICK i \in I : Place(r, i) = j /\ Slot(r, j).id = Global(f[i]) /\ Slot(r, j).wt = i
      BY <2>2, <3>2
    <3>4. i \in O
      BY <2>5, <3>2, <3>3
    <3>5. i = k
      BY <2>4, <3>3, <3>4 DEF j
    <3> QED BY <1>9, <1>13, <3>2, <3>3, <3>4, <3>5
  <2> QED BY <1>4, <2>6, <2>7 DEF Keeps, O
<1> QED BY <1>10, <1>11, <1>12, <1>13

-----------------------------------------------------------------------------
(* Views over a workspace.                                                   *)

\* The cells of a slot.
LEMMA CellsOf ==
  ASSUME NEW s \in Nat, NEW stride \in Nat \ {0}
  PROVE  /\ Cells(s, stride) # {}
         /\ \A i \in Cells(s, stride) : i \in Nat /\ i \div stride = s
<1> DEFINE a == s * stride
<1>1. a \in Nat /\ (s + 1) * stride = a + stride /\ a = stride * s
  BY SMT
<1> HIDE DEF a
<1>2. Cells(s, stride) = a..(a + stride - 1)
  BY <1>1 DEF Cells, a
<1>3. a \in a..(a + stride - 1)
  BY <1>1
<1>4. ASSUME NEW i \in a..(a + stride - 1)
      PROVE  i \in Nat /\ i \div stride = s
  <2> DEFINE k == i - a
  <2>1. k \in 0..(stride - 1) /\ i = stride * s + k /\ i \in Nat
    BY <1>1
  <2> HIDE DEF k
  <2>2. (stride * s + k) \div stride = s
    BY <2>1, DivUnique
  <2> QED BY <2>1, <2>2
<1> QED BY <1>2, <1>3, <1>4

\* The cells of one of m slots fit a workspace of m slots.
LEMMA CellsFit ==
  ASSUME NEW m \in Nat, NEW stride \in Nat \ {0}, NEW len \in Nat, m * stride <= len,
         NEW s \in 0..(m - 1)
  PROVE  Cells(s, stride) \subseteq 0..(len - 1)
<1>1. s \in Nat /\ s + 1 \in Nat /\ s + 1 <= m /\ stride \in Nat /\ stride <= stride
  OBVIOUS
<1>2. (s + 1) * stride <= m * stride
  BY <1>1, ProductMonotone
<1> DEFINE b == (s + 1) * stride
           a == s * stride
           c == m * stride
<1>3. a \in Nat /\ b \in Nat /\ c \in Nat
  BY <1>1, SMT
<1>4. b <= len
  <2> HIDE DEF b, c
  <2> QED BY <1>2, <1>3 DEF b, c
<1>5. Cells(s, stride) = a..(b - 1)
  BY DEF Cells
<1> HIDE DEF a, b
<1>6. a..(b - 1) \subseteq 0..(len - 1)
  BY <1>3, <1>4
<1> QED BY <1>5, <1>6

\* Slot s was written with v.
Holds(ws, len, stride, s, v) == \A i \in 0..(len - 1) : i \div stride = s => ws[i] = v

\* A slot of a view whose cells were all written with v reads v.
LEMMA WrittenReads ==
  ASSUME NEW m \in Nat, NEW stride \in Nat \ {0}, NEW len \in Nat, m * stride <= len,
         NEW s \in 0..(m - 1), NEW ws, NEW v, Holds(ws, len, stride, s, v)
  PROVE  Read(ws, s, stride) = v
<1>1. s \in Nat
  OBVIOUS
<1>2. Cells(s, stride) \subseteq 0..(len - 1)
  BY CellsFit
<1>3. Cells(s, stride) # {} /\ \A i \in Cells(s, stride) : ws[i] = v
  BY <1>1, <1>2, CellsOf DEF Holds
<1> DEFINE vs == {ws[i] : i \in Cells(s, stride)}
<1>4. vs = {v}
  BY <1>3
<1>5. Cardinality({v}) = 1
  BY FS_Singleton
<1>6. Read(ws, s, stride) = IF Cardinality(vs) = 1 THEN CHOOSE w \in vs : TRUE ELSE Junk
  BY DEF Read
<1>7. \A w \in {v} : w = v
  OBVIOUS
<1> HIDE DEF vs
<1>8. (CHOOSE w \in vs : TRUE) \in vs
  BY <1>4
<1> QED BY <1>4, <1>5, <1>6, <1>7, <1>8

-----------------------------------------------------------------------------
(* The inductive invariant.                                                  *)

RoutingRight ==
    /\ cols = Columns
    /\ \A s \in Slots : /\ ids[s] = Slot(s \div cols, s % cols).id
                        /\ wts[s] = Slot(s \div cols, s % cols).wt

LoraOf(r) == IF setting.lora THEN r ELSE NoLora
Poisoned == setting.gate = "written"

\* What an owned slot is worth before and after the down projection.
Activated(s) == IF Poisoned THEN Poison
                ELSE Sum0({Term(RowOf(s), ids[s], NoWeight, LoraOf(RowOf(s)))})
Worth(s) == IF Poisoned THEN Poison
            ELSE Sum0({Term(RowOf(s), ids[s], wts[s], LoraOf(RowOf(s)))})

Answer(r) == IF ~ Poisoned THEN Sum0(Owed(r)) ELSE IF Owed(r) = {} THEN Zero ELSE Poison

ExpertsStages == {"receive", "empty", "allocate", "gemm1", "activation", "gemm2", "sum", "done"}

Sized == /\ DOMAIN ws13 = 0..(Size13 - 1) /\ DOMAIN ws2 = 0..(Size2 - 1)
         /\ DOMAIN fused_out = 0..(NumRows * K - 1)

ExpertsIInv ==
    /\ Fixed /\ doing \in ExpertsStages
    /\ doing \notin {"receive", "empty"} => RoutingRight
    /\ doing \in {"gemm1", "activation", "gemm2", "sum"} => Sized
    /\ doing = "activation" => \A s \in Grid : Cache1(s) = Up(s)
    /\ doing = "gemm2" => \A s \in Slots : Owned(s) =>
            q[s] = Activated(s) /\ (setting.lora => Read(ws13, s, ActDim) = q[s])
    /\ doing = "sum" => \A s \in Grid : Read(ws2, s, K) = IF Owned(s) THEN Worth(s) ELSE Zero
    /\ doing = "done" => \A r \in 0..(NumRows - 1) : Result(r) = Answer(r)
    /\ CaptureNeverSyncs

\* How slots and rows number each other.
LEMMA SlotsOfRows ==
  ASSUME NEW w \in Nat \ {0}, NEW m \in Nat
  PROVE  /\ m * w \in Nat
         /\ \A s \in 0..(m * w - 1) : s \in Nat /\ s \div w \in 0..(m - 1) /\ s % w \in 0..(w - 1)
         /\ \A r \in 0..(m - 1), j \in 0..(w - 1) : \E s \in 0..(m * w - 1) :
                s \div w = r /\ s % w = j
<1>1. m * w \in Nat /\ m * w = w * m
  BY SMT
<1>2. ASSUME NEW s \in 0..(m * w - 1)
      PROVE  s \in Nat /\ s \div w \in 0..(m - 1) /\ s % w \in 0..(w - 1)
  <2>1. s \in Nat
    BY <1>1
  <2>2. PICK a \in Nat, b \in 0..(w - 1) : s = w * a + b /\ s \div w = a /\ s % w = b
    BY <2>1, DivMod
  <2>3. a <= m - 1
    <3>1. ASSUME m <= a PROVE FALSE
      <4>1. w * m <= w * a
        BY <3>1, ProductMonotone
      <4> DEFINE x == w * m
                 y == w * a
      <4>2. x \in Nat /\ y \in Nat /\ s <= x - 1 /\ s = y + b
        BY <1>1, <2>2, SMT
      <4> HIDE DEF x, y
      <4>3. x <= y
        BY <4>1 DEF x, y
      <4> QED BY <4>2, <4>3
    <3> QED BY <3>1
  <2> QED BY <2>1, <2>2, <2>3
<1>3. ASSUME NEW r \in 0..(m - 1), NEW j \in 0..(w - 1)
      PROVE  \E s \in 0..(m * w - 1) : s \div w = r /\ s % w = j
  <2>1. r \in Nat /\ r + 1 \in Nat /\ r + 1 <= m
    OBVIOUS
  <2>2. (w * r + j) \div w = r /\ (w * r + j) % w = j
    BY <2>1, DivUnique
  <2>3. w * (r + 1) <= w * m
    BY <2>1, ProductMonotone
  <2>4. w * (r + 1) = w * r + w /\ w * r \in Nat
    BY <2>1, SMT
  <2> DEFINE x == w * r
             z == w * m
  <2>5. x \in Nat /\ x + w <= z /\ z \in Nat
    BY <1>1, <2>3, <2>4
  <2> HIDE DEF x, z
  <2>6. x + j \in 0..(z - 1)
    BY <2>5
  <2>7. w * r + j \in 0..(m * w - 1)
    BY <1>1, <2>6 DEF x, z
  <2> QED BY <2>2, <2>7
<1> QED BY <1>1, <1>2, <1>3

\* The slots of a row that the rank runs are the ones that it owes.
LEMMA SlotsOwed ==
  ASSUME Fixed, RoutingRight, NEW r \in 0..(NumRows - 1)
  PROVE  /\ \A s \in Slots : RowOf(s) = r /\ Owned(s) =>
                wts[s] \in OwnedCols(r) /\ ids[s] = Named(r, wts[s])
         /\ \A k \in OwnedCols(r) : \E s \in Slots :
                RowOf(s) = r /\ Owned(s) /\ wts[s] = k /\ ids[s] = Named(r, k)
<1>1. cols = Columns /\ cols \in 1..TopK /\ Keeps(r, cols)
  BY RowsKept DEF RoutingRight
<1>2. cols \in Nat \ {0} /\ NumRows \in Nat
  BY <1>1, ExpertsAssumption, SettingTyped
<1>3. \A s : Owned(s) <=> Runs(ids[s])
  BY DEF Owned, Runs
<1>4. ASSUME NEW s \in Slots, RowOf(s) = r
      PROVE  /\ s % cols \in 0..(cols - 1)
             /\ ids[s] = Slot(r, s % cols).id /\ wts[s] = Slot(r, s % cols).wt
  <2>1. s % cols \in 0..(cols - 1)
    BY <1>2, SlotsOfRows DEF Slots
  <2> QED BY <1>4, <2>1 DEF RoutingRight, RowOf
<1>5. ASSUME NEW s \in Slots, RowOf(s) = r, Owned(s)
      PROVE  wts[s] \in OwnedCols(r) /\ ids[s] = Named(r, wts[s])
  <2>1. PICK j \in 0..(cols - 1) : ids[s] = Slot(r, j).id /\ wts[s] = Slot(r, j).wt
    BY <1>4, <1>5
  <2>2. Runs(Slot(r, j).id)
    BY <1>3, <1>5, <2>1
  <2> QED BY <1>1, <2>1, <2>2 DEF Keeps
<1>6. ASSUME NEW k \in OwnedCols(r)
      PROVE  \E s \in Slots : RowOf(s) = r /\ Owned(s) /\ wts[s] = k /\ ids[s] = Named(r, k)
  <2>1. PICK j \in 0..(cols - 1) : Runs(Slot(r, j).id) /\ Slot(r, j).wt = k
    BY <1>1 DEF Keeps
  <2> DEFINE m == NumRows
             w == cols
  <2>6. \A a \in 0..(m - 1), b \in 0..(w - 1) : \E s \in 0..(m * w - 1) :
            s \div w = a /\ s % w = b
    <3>1. w \in Nat \ {0} /\ m \in Nat
      BY <1>2
    <3> HIDE DEF m, w
    <3> QED BY <3>1, SlotsOfRows
  <2>7. j \in 0..(cols - 1) /\ r \in 0..(NumRows - 1)
    OBVIOUS
  <2>2. PICK s \in Slots : s \div cols = r /\ s % cols = j
    BY <2>6, <2>7 DEF Slots
  <2>3. RowOf(s) = r
    BY <2>2 DEF RowOf
  <2>4. ids[s] = Slot(r, j).id /\ wts[s] = k
    BY <1>4, <2>1, <2>2, <2>3
  <2>5. Owned(s)
    BY <1>3, <2>1, <2>4
  <2> QED BY <1>5, <2>3, <2>4, <2>5
<1> QED BY <1>5, <1>6

\* The buffers are large enough for what is put in them.
LEMMA ViewsFit ==
  ASSUME Fixed, cols \in Nat \ {0}
  PROVE  /\ Size2 \in Nat /\ Size13 \in Nat /\ NumRows * cols \in Nat /\ NumRows * K \in Nat
         /\ NumRows * cols * N <= Size2 /\ NumRows * cols * K <= Size2
         /\ NumRows * cols * ActDim <= Size13 /\ NumRows * K <= Size13
<1>1. N \in Nat \ {0} /\ K \in Nat \ {0} /\ ActDim \in Nat \ {0} /\ NumRows \in Nat
  BY SettingTyped
<1> DEFINE m == NumRows * cols
           big2 == Larger(N, K)
           big13 == Larger(ActDim, K)
<1>2. m \in Nat
  BY <1>1, SMT
<1>3. big2 \in Nat /\ N <= big2 /\ K <= big2 /\ big13 \in Nat /\ ActDim <= big13 /\ K <= big13
  BY <1>1 DEF Larger
<1> HIDE DEF m, big2, big13
<1>4. m * N <= m * big2 /\ m * K <= m * big2 /\ m * ActDim <= m * big13 /\ m <= m
      /\ m * big2 \in Nat /\ m * big13 \in Nat
  BY <1>1, <1>2, <1>3, ProductMonotone
<1>5. Size2 = m * big2
  BY DEF Size2, m, big2
<1>6. NumRows * K \in Nat
  BY <1>1, SMT
<1>7. Size13 = Larger(m * big13, NumRows * K)
  BY DEF Size13, m, big13
<1>8. Size13 \in Nat /\ m * big13 <= Size13 /\ NumRows * K <= Size13
  <2> DEFINE x == m * big13
             y == NumRows * K
  <2>1. x \in Nat /\ y \in Nat /\ Size13 = Larger(x, y)
    BY <1>4, <1>6, <1>7
  <2> HIDE DEF x, y
  <2>2. Size13 \in Nat /\ x <= Size13 /\ y <= Size13
    BY <2>1 DEF Larger
  <2> QED BY <2>2 DEF x, y
<1>9. m * ActDim <= Size13
  <2>1. m * ActDim \in Nat
    BY <1>1, <1>2, SMT
  <2> DEFINE x == m * ActDim
             y == m * big13
  <2>2. x \in Nat /\ y \in Nat /\ x <= y /\ y <= Size13 /\ Size13 \in Nat
    BY <1>4, <1>8, <2>1
  <2> HIDE DEF x, y
  <2>3. x <= Size13
    BY <2>2
  <2> QED BY <2>3 DEF x
<1> QED BY <1>2, <1>4, <1>5, <1>6, <1>8, <1>9 DEF m

\* What rests on the rows alone stays as it is.
LEMMA RowsStay ==
  ASSUME UNCHANGED << setting, recv >>
  PROVE  /\ Fixed' = Fixed /\ Columns' = Columns /\ Compacts' = Compacts /\ Narrow' = Narrow
         /\ N' = N /\ K' = K /\ ActDim' = ActDim /\ NumRows' = NumRows /\ Offset' = Offset
         /\ \A r : Row(r)' = Row(r) /\ Owed(r)' = Owed(r) /\ Answer(r)' = Answer(r)
         /\ \A r, j : Slot(r, j)' = Slot(r, j)
<1>1. /\ NumRows' = NumRows /\ N' = N /\ K' = K /\ ActDim' = ActDim /\ Offset' = Offset
      /\ \A r : Row(r)' = Row(r)
  BY DEF NumRows, N, K, ActDim, Offset, Row
<1>2. Fixed' = Fixed
  BY DEF Fixed, Feasible, GateChain, Admissible, RowsOf
<1>3. \A r : Owed(r)' = Owed(r)
  BY <1>1 DEF Owed
<1>4. \A r : Answer(r)' = Answer(r)
  BY <1>3 DEF Answer, Poisoned
<1>5. \A r : OwnedCols(r)' = OwnedCols(r) /\ NumOwned(r)' = NumOwned(r)
  BY <1>1 DEF OwnedCols, NumOwned
<1>6. Compacts' = Compacts /\ Narrow' = Narrow
  BY <1>1, <1>5 DEF Compacts, Narrow, Widest
<1>7. Columns' = Columns
  BY <1>6 DEF Columns
<1>8. Fake' = Fake /\ \A id : Global(id)' = Global(id)
  BY <1>1 DEF Global, Fake
<1>9. \A r, j : Packed(r, j)' = Packed(r, j) /\ Sorted(r, j)' = Sorted(r, j)
  <2>1. \A r, j : Hits(r, j)' = Hits(r, j)
    BY <1>5 DEF Hits
  <2>2. \A r, k : Place(r, k)' = Place(r, k)
    BY <1>5 DEF Place
  <2>3. ASSUME NEW r, NEW j PROVE Packed(r, j)' = Packed(r, j)
    BY <1>1, <1>8, <2>1 DEF Packed
  <2>4. ASSUME NEW r, NEW j PROVE Sorted(r, j)' = Sorted(r, j)
    BY <1>1, <1>8, <2>2 DEF Sorted
  <2> QED BY <2>3, <2>4
<1>10. \A r, j : Default(r, j)' = Default(r, j) /\ Unmapped(r, j)' = Unmapped(r, j)
  BY <1>1, <1>8 DEF Default, Unmapped
<1>11. \A r, j : Slot(r, j)' = Slot(r, j)
  BY <1>6, <1>9, <1>10 DEF Slot
<1> QED BY <1>1, <1>2, <1>3, <1>4, <1>6, <1>7, <1>11

\* What rests on the routing stays as it is.
LEMMA RoutingStays ==
  ASSUME UNCHANGED << setting, recv, cols, ids, wts >>
  PROVE  /\ Fixed' = Fixed /\ RoutingRight' = RoutingRight /\ Slots' = Slots /\ Grid' = Grid
         /\ N' = N /\ K' = K /\ ActDim' = ActDim /\ NumRows' = NumRows
         /\ Size2' = Size2 /\ Size13' = Size13
         /\ \A s : /\ Owned(s)' = Owned(s) /\ Up(s)' = Up(s)
                   /\ Activated(s)' = Activated(s) /\ Worth(s)' = Worth(s)
         /\ \A r : Answer(r)' = Answer(r)
<1>1. /\ Fixed' = Fixed /\ Columns' = Columns /\ N' = N /\ K' = K /\ ActDim' = ActDim
      /\ NumRows' = NumRows /\ Offset' = Offset
      /\ \A r : Answer(r)' = Answer(r)
      /\ \A r, j : Slot(r, j)' = Slot(r, j)
  BY RowsStay
<1>2. Slots' = Slots /\ \A s : Owned(s)' = Owned(s) /\ RowOf(s)' = RowOf(s)
  BY <1>1 DEF Slots, Owned, ExpertMap, RowOf
<1>3. Grid' = Grid
  BY <1>2 DEF Grid, Ragged, WholeRectangle
<1>4. Size2' = Size2 /\ Size13' = Size13
  BY <1>1 DEF Size2, Size13, Larger
<1>5. \A r : LoraOf(r)' = LoraOf(r) /\ LoraInput(r)' = LoraInput(r)
  BY DEF LoraOf, LoraInput, Stash, Deferred
<1>6. \A s : Up(s)' = Up(s)
  BY <1>2, <1>5 DEF Up
<1>7. \A s : Activated(s)' = Activated(s) /\ Worth(s)' = Worth(s)
  BY <1>2, <1>5 DEF Activated, Worth, Poisoned
<1>8. RoutingRight' = RoutingRight
  BY <1>1, <1>2 DEF RoutingRight
<1> QED BY <1>1, <1>2, <1>3, <1>4, <1>6, <1>7, <1>8

-----------------------------------------------------------------------------
(* The steps.                                                                *)

\* A call starts with what arrived, and nothing waited for.
LEMMA ExpertsStart == ExpertsInit => ExpertsIInv
<1> SUFFICES ASSUME ExpertsInit PROVE ExpertsIInv
  OBVIOUS
<1>1. Fixed
  <2> DEFINE R == RowsOf(setting)
  <2>1. PICK m \in 0..MaxRows : recv \in [1..m -> R]
    BY DEF ExpertsInit
  <2>2. m \in Nat
    BY ExpertsAssumption
  <2> HIDE DEF R
  <2>3. recv \in Seq(R)
    BY <2>1, <2>2
  <2> QED BY <2>3 DEF Fixed, ExpertsInit, R
<1> QED BY <1>1 DEF ExpertsInit, ExpertsIInv, ExpertsStages, CaptureNeverSyncs

\* The receiver leaves the routing, cut; and waits for nothing in a capture.
LEMMA ReceiveKeeps ==
  ASSUME ExpertsIInv, Receive
  PROVE  ExpertsIInv'
<1>1. /\ Fixed' /\ Columns' = Columns /\ NumRows' = NumRows /\ \A r, j : Slot(r, j)' = Slot(r, j)
  BY RowsStay DEF ExpertsIInv, Receive
<1>2. doing' \in {"empty", "allocate"}
  BY DEF Receive
<1>3. RoutingRight'
  <2>1. cols' = Columns
    BY DEF Receive, Columns
  <2>2. Slots' = 0..(NumRows * cols' - 1)
    BY <1>1 DEF Slots
  <2>3. ASSUME NEW s \in 0..(NumRows * cols' - 1)
        PROVE  /\ ids'[s] = Slot(s \div cols', s % cols').id
               /\ wts'[s] = Slot(s \div cols', s % cols').wt
    BY DEF Receive
  <2> QED BY <1>1, <2>1, <2>2, <2>3 DEF RoutingRight
<1>4. CaptureNeverSyncs'
  <2>1. setting.capturing => ~ Compacts /\ ~ Dispatched
    BY DEF ExpertsIInv, Fixed, Feasible, Admissible, Compacts, Dispatched
  <2> QED BY <2>1 DEF Receive, CaptureNeverSyncs
<1> QED BY <1>1, <1>2, <1>3, <1>4 DEF ExpertsIInv, ExpertsStages

\* What holds from then on of every step.
LEMMA Onwards ==
  ASSUME ExpertsIInv, doing \notin {"receive", "empty"},
         UNCHANGED << setting, recv, cols, ids, wts, synced >>
  PROVE  /\ Fixed /\ RoutingRight /\ Fixed' /\ RoutingRight' /\ CaptureNeverSyncs'
         /\ cols \in Nat \ {0}
<1>1. Fixed /\ RoutingRight
  BY DEF ExpertsIInv
<1>2. Fixed' /\ RoutingRight'
  BY <1>1, RoutingStays
<1>3. cols \in Nat \ {0}
  <2>1. CASE NumRows = 0
    <3>1. ~ Compacts
      BY <2>1 DEF Compacts
    <3> QED BY <1>1, <3>1, ExpertsAssumption DEF RoutingRight, Columns
  <2>2. CASE NumRows # 0
    <3>1. 0 \in 0..(NumRows - 1)
      BY <1>1, <2>2, SettingTyped
    <3>2. cols \in 1..TopK /\ TopK \in Nat
      BY <1>1, <3>1, RowsKept, ExpertsAssumption DEF RoutingRight
    <3> QED BY <3>2
  <2> QED BY <2>1, <2>2
<1>4. CaptureNeverSyncs'
  BY DEF ExpertsIInv, CaptureNeverSyncs
<1> QED BY <1>1, <1>2, <1>3, <1>4

\* Every view fits.
LEMMA AllocateKeeps ==
  ASSUME ExpertsIInv, Allocate
  PROVE  ExpertsIInv'
<1>1. /\ doing = "allocate" /\ UNCHANGED << setting, recv, cols, ids, wts, synced >>
  BY DEF Allocate
<1>2. Fixed /\ Fixed' /\ RoutingRight' /\ CaptureNeverSyncs' /\ cols \in Nat \ {0}
  BY <1>1, Onwards
<1>3. doing' = "gemm1"
  BY <1>2, ViewsFit DEF Allocate
<1>4. Size2' = Size2 /\ Size13' = Size13 /\ NumRows' = NumRows /\ K' = K
  BY <1>1, RoutingStays
<1>5. Sized'
  BY <1>4 DEF Allocate, Sized
<1> QED BY <1>2, <1>3, <1>5 DEF ExpertsIInv, ExpertsStages

\* The up projection fills the slots of the grid.
LEMMA Gemm1Keeps ==
  ASSUME ExpertsIInv, Gemm1
  PROVE  ExpertsIInv'
<1>1. /\ doing = "gemm1" /\ UNCHANGED << setting, recv, cols, ids, wts, synced >>
      /\ UNCHANGED << ws13, fused_out >> /\ doing' = "activation"
  BY DEF Gemm1
<1>2. Fixed /\ Fixed' /\ RoutingRight' /\ CaptureNeverSyncs' /\ cols \in Nat \ {0}
  BY <1>1, Onwards
<1>3. /\ Size2' = Size2 /\ Size13' = Size13 /\ NumRows' = NumRows /\ K' = K /\ N' = N
      /\ Grid' = Grid /\ \A s : Up(s)' = Up(s)
  BY <1>1, RoutingStays
<1>4. Sized
  BY <1>1 DEF ExpertsIInv
<1>5. Sized'
  BY <1>1, <1>3, <1>4 DEF Gemm1, Write, Sized
<1> DEFINE m == NumRows * cols
<1>6. /\ m \in Nat /\ N \in Nat \ {0} /\ Size2 \in Nat /\ m * N <= Size2
      /\ Grid \subseteq 0..(m - 1)
  BY <1>2, SettingTyped, ViewsFit DEF Grid, Slots
<1>7. ASSUME NEW s \in Grid PROVE Read(ws2', s, N) = Up(s)
  <2>1. \A i \in 0..(Size2 - 1) : i \div N = s => ws2'[i] = Up(s)
    BY <1>4 DEF Gemm1, Write, Sized
  <2>2. s \in 0..(m - 1)
    BY <1>6
  <2> DEFINE len == Size2
             stride == N
             v == Up(s)
  <2>3. /\ m \in Nat /\ stride \in Nat \ {0} /\ len \in Nat /\ m * stride <= len
        /\ Holds(ws2', len, stride, s, v)
    BY <1>6, <2>1 DEF Holds
  <2> HIDE DEF m, len, stride, v
  <2>4. Read(ws2', s, stride) = v
    BY <2>2, <2>3, WrittenReads
  <2> QED BY <2>4 DEF stride, v
<1>8. \A s \in Grid' : Cache1(s)' = Up(s)'
  BY <1>3, <1>7 DEF Cache1
<1> QED BY <1>1, <1>2, <1>5, <1>8 DEF ExpertsIInv, ExpertsStages

\* An owned slot is in the grid, and what it computes is for its own token.
LEMMA OwnedSlots ==
  ASSUME Fixed, ~ WeightOnly
  PROVE  /\ \A s \in Slots : Owned(s) => s \in Grid
         /\ \A r : LoraInput(r) = LoraOf(r)
         /\ setting.lora => ~ setting.fused
         /\ Poisoned => setting.fused
<1>1. Feasible(setting)
  BY DEF Fixed
<1>2. \A r : LoraInput(r) = LoraOf(r)
  BY <1>1 DEF Feasible, LoraInput, LoraOf, Deferred, Stash
<1> QED BY <1>1, <1>2 DEF Grid, Feasible, GateChain, Poisoned

\* The activation leaves what the up projection computed, or the poison of the gate.
LEMMA ActivateKeeps ==
  ASSUME ~ WeightOnly, ExpertsIInv, Activate
  PROVE  ExpertsIInv'
<1>1. /\ doing = "activation" /\ UNCHANGED << setting, recv, cols, ids, wts, synced >>
      /\ UNCHANGED << ws2, fused_out >> /\ doing' = "gemm2"
  BY DEF Activate
<1>2. Fixed /\ Fixed' /\ RoutingRight' /\ CaptureNeverSyncs' /\ cols \in Nat \ {0}
  BY <1>1, Onwards
<1>3. /\ Size2' = Size2 /\ Size13' = Size13 /\ NumRows' = NumRows /\ K' = K
      /\ ActDim' = ActDim /\ Slots' = Slots
      /\ \A s : Owned(s)' = Owned(s) /\ Activated(s)' = Activated(s)
  BY <1>1, RoutingStays
<1>4. Sized /\ \A s \in Grid : Cache1(s) = Up(s)
  BY <1>1 DEF ExpertsIInv
<1>5. Sized'
  BY <1>1, <1>3, <1>4 DEF Activate, Write, Sized
<1>6. ASSUME NEW s \in Slots, Owned(s)
      PROVE  q'[s] = Activated(s) /\ (setting.lora => Read(ws13', s, ActDim) = q'[s])
  <2>1. Cache1(s) = Sum0({Term(RowOf(s), ids[s], NoWeight, LoraOf(RowOf(s)))})
    BY <1>2, <1>4, <1>6, OwnedSlots DEF Up
  <2>2. CASE setting.fused
    <3>1. q'[s] = Quantized(s) /\ ~ setting.lora
      BY <1>2, <2>2, OwnedSlots DEF Activate
    <3>2. s \in Written
      BY <1>6 DEF Written
    <3>3. Quantized(s) = Activated(s)
      BY <1>6, <2>1, <3>2 DEF Quantized, Activated, Poisoned
    <3> QED BY <3>1, <3>3
  <2>3. CASE ~ setting.fused
    <3>1. q'[s] = Read(ws13', s, ActDim)
      BY <2>3 DEF Activate
    <3>2. ~ Poisoned
      BY <1>2, <2>3, OwnedSlots
    <3> DEFINE m == NumRows * cols
               len == Size13
               stride == ActDim
               v == Cache1(s)
    <3>3. Holds(ws13', len, stride, s, v)
      BY <1>4, <2>3 DEF Activate, Write, Sized, Holds
    <3>4. m \in Nat /\ stride \in Nat \ {0} /\ len \in Nat /\ m * stride <= len
      BY <1>2, SettingTyped, ViewsFit
    <3>5. s \in 0..(m - 1)
      BY DEF Slots
    <3> HIDE DEF m, len, stride, v
    <3>6. Read(ws13', s, stride) = v
      BY <3>3, <3>4, <3>5, WrittenReads
    <3> QED BY <2>1, <3>1, <3>2, <3>6 DEF Activated, stride, v
  <2> QED BY <2>2, <2>3
<1>7. \A s \in Slots' : Owned(s)' =>
          q'[s] = Activated(s)' /\ (setting'.lora => Read(ws13', s, ActDim') = q'[s])
  BY <1>1, <1>3, <1>6
<1> QED BY <1>1, <1>2, <1>5, <1>7 DEF ExpertsIInv, ExpertsStages

\* The weight reaches every term of a slot, and the poison stays what it is.
LEMMA WeightedWorth ==
  ASSUME NEW s
  PROVE  Weighted(Activated(s), wts[s]) = Worth(s)
<1>1. ASSUME NEW w PROVE Weighted(Poison, w) = Poison
  BY DEF Weighted, Poison
<1>2. ASSUME NEW r, NEW e, NEW w, NEW x
      PROVE  Weighted(Sum0({Term(r, e, NoWeight, x)}), w) = Sum0({Term(r, e, w, x)})
  <2>1. [Term(r, e, NoWeight, x) EXCEPT !.weight = w] = Term(r, e, w, x)
    BY DEF Term
  <2> DEFINE ts == {Term(r, e, NoWeight, x)}
  <2>2. {[t EXCEPT !.weight = w] : t \in ts} = {Term(r, e, w, x)}
    BY <2>1
  <2> HIDE DEF ts
  <2>3. Weighted(Sum0(ts), w) = Sum0({[t EXCEPT !.weight = w] : t \in ts})
    BY DEF Weighted, Sum0
  <2> QED BY <2>2, <2>3 DEF ts
<1> QED BY <1>1, <1>2 DEF Activated, Worth

\* The down projection weighs what the activation left, and zeroes the rest of the grid.
LEMMA Gemm2Keeps ==
  ASSUME ExpertsIInv, Gemm2
  PROVE  ExpertsIInv'
<1>1. /\ doing = "gemm2" /\ UNCHANGED << setting, recv, cols, ids, wts, synced >>
      /\ UNCHANGED << ws13, fused_out >> /\ doing' = "sum"
  BY DEF Gemm2
<1>2. Fixed /\ Fixed' /\ RoutingRight' /\ CaptureNeverSyncs' /\ cols \in Nat \ {0}
  BY <1>1, Onwards
<1>3. /\ Size2' = Size2 /\ Size13' = Size13 /\ NumRows' = NumRows /\ K' = K
      /\ Grid' = Grid /\ \A s : Owned(s)' = Owned(s) /\ Worth(s)' = Worth(s)
  BY <1>1, RoutingStays
<1>4. Sized
  BY <1>1 DEF ExpertsIInv
<1>5. Sized'
  BY <1>1, <1>3, <1>4 DEF Gemm2, Write, Sized
<1>6. ASSUME NEW s \in Grid PROVE Down(s) = IF Owned(s) THEN Worth(s) ELSE Zero
  <2>1. s \in Slots
    BY DEF Grid
  <2>2. ASSUME Owned(s) PROVE Activation(s) = Activated(s)
    BY <1>1, <2>1, <2>2 DEF ExpertsIInv, Activation
  <2> QED BY <2>2, WeightedWorth DEF Down
<1>7. ASSUME NEW s \in Grid PROVE Read(ws2', s, K) = Down(s)
  <2> DEFINE m == NumRows * cols
             len == Size2
             stride == K
             v == Down(s)
  <2>1. Holds(ws2', len, stride, s, v)
    BY <1>4 DEF Gemm2, Write, Sized, Holds
  <2>2. m \in Nat /\ stride \in Nat \ {0} /\ len \in Nat /\ m * stride <= len
    BY <1>2, SettingTyped, ViewsFit
  <2>3. s \in 0..(m - 1)
    BY DEF Grid, Slots
  <2> HIDE DEF m, len, stride, v
  <2>4. Read(ws2', s, stride) = v
    BY <2>1, <2>2, <2>3, WrittenReads
  <2> QED BY <2>4 DEF stride, v
<1>8. \A s \in Grid' : Read(ws2', s, K') = IF Owned(s)' THEN Worth(s)' ELSE Zero
  BY <1>3, <1>6, <1>7
<1> QED BY <1>1, <1>2, <1>5, <1>8 DEF ExpertsIInv, ExpertsStages

\* The slots of a row add up to what the row is owed.
LEMMA RowsAnswer ==
  ASSUME Fixed, RoutingRight, NEW r \in 0..(NumRows - 1),
         \A s \in Grid : Read(ws2, s, K) = IF Owned(s) THEN Worth(s) ELSE Zero
  PROVE  RowSum(r) = Answer(r)
<1> DEFINE vs == {Read(ws2, s, K) : s \in SummedSlots(r)}
<1>1. RowSum(r) = SumOf(vs)
  BY DEF RowSum
<1>2. ASSUME NEW s \in SummedSlots(r)
      PROVE  s \in Slots /\ RowOf(s) = r /\ Read(ws2, s, K) = IF Owned(s) THEN Worth(s) ELSE Zero
  BY DEF SummedSlots, Grid
<1>3. \A s \in Slots : RowOf(s) = r /\ Owned(s) => s \in SummedSlots(r)
  BY DEF SummedSlots
<1>4. /\ \A s \in Slots : RowOf(s) = r /\ Owned(s) =>
             wts[s] \in OwnedCols(r) /\ ids[s] = Named(r, wts[s])
      /\ \A k \in OwnedCols(r) : \E s \in Slots :
             RowOf(s) = r /\ Owned(s) /\ wts[s] = k /\ ids[s] = Named(r, k)
  BY SlotsOwed
<1>5. Owed(r) = {Term(r, Named(r, k), k, LoraOf(r)) : k \in OwnedCols(r)}
  BY DEF Owed, Named, LoraOf, OwnedCols
<1>6. Poison # Junk /\ Zero # Poison /\ Zero # Junk /\ Zero.terms = {}
      /\ \A ts : Sum0(ts) # Poison /\ Sum0(ts) # Junk /\ Sum0(ts).terms = ts
  BY DEF Poison, Junk, Zero, Sum0
<1>7. CASE Poisoned /\ Owed(r) = {}
  <2>1. \A s \in SummedSlots(r) : ~ Owned(s)
    BY <1>2, <1>4, <1>5, <1>7
  <2>2. \A v \in vs : v = Zero
    BY <1>2, <2>1
  <2> HIDE DEF vs
  <2>3. (UNION {v.terms : v \in vs}) = {}
    BY <1>6, <2>2
  <2>4. SumOf(vs) = Zero
    BY <1>6, <2>2, <2>3 DEF SumOf, Zero
  <2> QED BY <1>1, <1>7, <2>4 DEF Answer
<1>8. CASE Poisoned /\ Owed(r) # {}
  <2>1. PICK k \in OwnedCols(r) : TRUE
    BY <1>5, <1>8
  <2>2. PICK s \in SummedSlots(r) : Owned(s)
    BY <1>3, <1>4, <2>1
  <2>3. Read(ws2, s, K) = Poison
    BY <1>2, <1>8, <2>2 DEF Worth
  <2>4. Poison \in vs
    BY <2>3
  <2> HIDE DEF vs
  <2> QED BY <1>1, <1>8, <2>4 DEF SumOf, Answer
<1>9. CASE ~ Poisoned
  <2>1. ASSUME NEW s \in SummedSlots(r)
        PROVE  /\ Owned(s) => /\ wts[s] \in OwnedCols(r)
                              /\ Read(ws2, s, K) =
                                     Sum0({Term(r, Named(r, wts[s]), wts[s], LoraOf(r))})
               /\ ~ Owned(s) => Read(ws2, s, K) = Sum0({})
    BY <1>2, <1>4, <1>9 DEF Worth, Zero
  <2>2. \A v \in vs : \/ v = Sum0({})
                      \/ \E k \in OwnedCols(r) : v = Sum0({Term(r, Named(r, k), k, LoraOf(r))})
    BY <2>1
  <2>3. ASSUME NEW k \in OwnedCols(r)
        PROVE  Sum0({Term(r, Named(r, k), k, LoraOf(r))}) \in vs
    <3>1. PICK s \in SummedSlots(r) : Owned(s) /\ wts[s] = k
      BY <1>3, <1>4
    <3> QED BY <2>1, <3>1
  <2> HIDE DEF vs
  <2>4. Poison \notin vs /\ Junk \notin vs
    BY <1>6, <2>2
  <2>5. ASSUME NEW t PROVE t \in (UNION {v.terms : v \in vs}) <=> t \in Owed(r)
    <3>1. ASSUME NEW v \in vs, t \in v.terms PROVE t \in Owed(r)
      <4>1. v # Sum0({})
        BY <1>6, <3>1
      <4>2. PICK k \in OwnedCols(r) : v = Sum0({Term(r, Named(r, k), k, LoraOf(r))})
        BY <2>2, <3>1, <4>1
      <4>3. v.terms = {Term(r, Named(r, k), k, LoraOf(r))}
        BY <1>6, <4>2
      <4>4. t = Term(r, Named(r, k), k, LoraOf(r))
        BY <3>1, <4>3
      <4> QED BY <1>5, <4>2, <4>4
    <3>2. ASSUME t \in Owed(r) PROVE \E v \in vs : t \in v.terms
      <4>1. PICK k \in OwnedCols(r) : t = Term(r, Named(r, k), k, LoraOf(r))
        BY <1>5, <3>2
      <4>2. t \in Sum0({Term(r, Named(r, k), k, LoraOf(r))}).terms
        BY <1>6, <4>1
      <4> QED BY <2>3, <4>2
    <3> QED BY <3>1, <3>2
  <2>6. (UNION {v.terms : v \in vs}) = Owed(r)
    BY <2>5
  <2> QED BY <1>1, <1>9, <2>4, <2>6 DEF SumOf, Answer
<1> QED BY <1>7, <1>8, <1>9

\* The sum puts every row's answer where the caller looks for it.
LEMMA MoeSumKeeps ==
  ASSUME ExpertsIInv, MoeSum
  PROVE  ExpertsIInv'
<1>1. /\ doing = "sum" /\ UNCHANGED << setting, recv, cols, ids, wts, synced >>
      /\ doing' = "done"
  BY DEF MoeSum
<1>2. Fixed /\ RoutingRight /\ Fixed' /\ RoutingRight' /\ CaptureNeverSyncs' /\ cols \in Nat \ {0}
  BY <1>1, Onwards
<1>3. NumRows' = NumRows /\ K' = K /\ \A r : Answer(r)' = Answer(r)
  BY <1>1, RoutingStays
<1>4. Sized /\ \A s \in Grid : Read(ws2, s, K) = IF Owned(s) THEN Worth(s) ELSE Zero
  BY <1>1 DEF ExpertsIInv
<1>5. ASSUME NEW r \in 0..(NumRows - 1) PROVE Result(r)' = RowSum(r)
  <2> DEFINE m == NumRows
             stride == K
             v == RowSum(r)
  <2>1. m \in Nat /\ stride \in Nat \ {0} /\ r \in 0..(m - 1)
    BY <1>2, SettingTyped
  <2>2. CASE setting.alias
    <3> DEFINE len == NumRows * K
    <3>1. Holds(fused_out', len, stride, r, v)
      BY <1>4, <2>2 DEF MoeSum, Write, Sized, Holds
    <3>2. len \in Nat /\ m * stride <= len
      <4>1. len \in Nat /\ m * stride = len
        BY <1>2, ViewsFit
      <4> HIDE DEF len
      <4> QED BY <4>1
    <3> HIDE DEF m, len, stride, v
    <3>3. Read(fused_out', r, stride) = v
      BY <2>1, <3>1, <3>2, WrittenReads
    <3> QED BY <1>1, <1>3, <2>2, <3>3 DEF Result, stride, v
  <2>3. CASE ~ setting.alias
    <3> DEFINE len == Size13
    <3>1. Holds(ws13', len, stride, r, v)
      BY <1>4, <2>3 DEF MoeSum, Write, Sized, Holds
    <3>2. len \in Nat /\ m * stride <= len
      BY <1>2, ViewsFit
    <3> HIDE DEF m, len, stride, v
    <3>3. Read(ws13', r, stride) = v
      BY <2>1, <3>1, <3>2, WrittenReads
    <3> QED BY <1>1, <1>3, <2>3, <3>3 DEF Result, stride, v
  <2> QED BY <2>2, <2>3
<1>6. \A r \in 0..(NumRows - 1) : RowSum(r) = Answer(r)
  BY <1>2, <1>4, RowsAnswer
<1>7. \A r \in 0..(NumRows' - 1) : Result(r)' = Answer(r)'
  BY <1>3, <1>5, <1>6
<1> QED BY <1>1, <1>2, <1>7 DEF ExpertsIInv, ExpertsStages

\* Nothing changes while nothing happens.
LEMMA ExpertsIdle ==
  ASSUME ExpertsIInv, UNCHANGED expertsVars
  PROVE  ExpertsIInv'
<1>1. /\ UNCHANGED << setting, recv, cols, ids, wts >>
      /\ UNCHANGED << doing, ws13, ws2, q, fused_out, synced >>
  BY DEF expertsVars
<1>2. /\ Fixed' = Fixed /\ RoutingRight' = RoutingRight /\ Slots' = Slots /\ Grid' = Grid
      /\ N' = N /\ K' = K /\ ActDim' = ActDim /\ NumRows' = NumRows
      /\ Size2' = Size2 /\ Size13' = Size13
      /\ \A s : /\ Owned(s)' = Owned(s) /\ Up(s)' = Up(s)
                /\ Activated(s)' = Activated(s) /\ Worth(s)' = Worth(s)
      /\ \A r : Answer(r)' = Answer(r)
  BY <1>1, RoutingStays
<1>3. Sized' = Sized /\ CaptureNeverSyncs' = CaptureNeverSyncs
  BY <1>1, <1>2 DEF Sized, CaptureNeverSyncs
<1>4. \A s : Cache1(s)' = Cache1(s)
  BY <1>1, <1>2 DEF Cache1
<1>5. \A r : Result(r)' = Result(r)
  BY <1>1, <1>2 DEF Result
<1> QED BY <1>1, <1>2, <1>3, <1>4, <1>5 DEF ExpertsIInv

\* Every step keeps the invariant, where LoRA meets only quantized dispatches.
LEMMA ExpertsKept == ~ WeightOnly /\ ExpertsIInv /\ [ExpertsNext]_expertsVars => ExpertsIInv'
<1> SUFFICES ASSUME ~ WeightOnly, ExpertsIInv, [ExpertsNext]_expertsVars PROVE ExpertsIInv'
  OBVIOUS
<1> QED BY ReceiveKeeps, AllocateKeeps, Gemm1Keeps, ActivateKeeps, Gemm2Keeps, MoeSumKeeps,
           ExpertsIdle DEF ExpertsNext, Answered

\* What the invariant says of the rows that go back.
LEMMA ExpertsAnswer == ExpertsIInv => OutputExact
<1> QED BY DEF ExpertsIInv, OutputExact, ExpertsStages, Answer, Poisoned

\* OutputExact, for every number of rows, slots, experts and ranks and every shape:
\* whatever the compaction narrows, the ragged grid skips and the masked activation
\* leaves unwritten, every row goes back with exactly the terms it is owed, each with
\* its own weight and its own token's LoRA, out of workspaces that share memory; and
\* every view fits.  LoRA on dispatched tokens that are not quantized is left out.
THEOREM ExpertsExact == ~ WeightOnly => (ExpertsSpec => []OutputExact)
<1> SUFFICES ASSUME ~ WeightOnly PROVE ExpertsSpec => []OutputExact
  OBVIOUS
<1>1. ExpertsIInv /\ [ExpertsNext]_expertsVars => ExpertsIInv'
  BY ExpertsKept
<1> QED BY <1>1, ExpertsStart, ExpertsAnswer, PTL DEF ExpertsSpec

\* What a capture rests on.
Captures == Feasible(setting) /\ Admissible(setting) /\ CaptureNeverSyncs

\* CaptureNeverSyncs, for every constant: the import refuses the compaction with the
\* static dispatch, so no call that a CUDA graph captures waits for the device.
THEOREM CapturesNeverSync == ExpertsSpec => []CaptureNeverSyncs
<1>1. ExpertsInit => Captures
  BY DEF ExpertsInit, Captures, CaptureNeverSyncs
<1>2. Captures /\ [ExpertsNext]_expertsVars => Captures'
  <2> SUFFICES ASSUME Captures, [ExpertsNext]_expertsVars PROVE Captures'
    OBVIOUS
  <2>1. setting' = setting
    BY DEF ExpertsNext, Receive, Allocate, Gemm1, Activate, Gemm2, MoeSum, Answered, expertsVars
  <2>2. (Feasible(setting) /\ Admissible(setting))' = (Feasible(setting) /\ Admissible(setting))
    BY <2>1 DEF Feasible, Admissible, GateChain
  <2>3. CASE Receive
    <3>1. setting.capturing => ~ Compacts /\ ~ Dispatched
      BY DEF Captures, Feasible, Admissible, Compacts, Dispatched
    <3> QED BY <2>1, <2>2, <2>3, <3>1 DEF Receive, Captures, CaptureNeverSyncs
  <2>4. CASE synced' = synced
    BY <2>1, <2>2, <2>4 DEF Captures, CaptureNeverSyncs
  <2> QED BY <2>3, <2>4 DEF ExpertsNext, Allocate, Gemm1, Activate, Gemm2, MoeSum, Answered,
                           expertsVars
<1> QED BY <1>1, <1>2, PTL DEF ExpertsSpec, Captures

===============================================================================
