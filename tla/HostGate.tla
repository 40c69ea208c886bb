------------------------------- MODULE HostGate -------------------------------
(* The host side of the prefill monokernel: a shared library, found at run   *)
(* time, that was compiled for one geometry.  At weight load fp8.py asks the *)
(* library what it was built for and enables the kernel or not; each call of *)
(* _custom_ops.py then checks again, picks one of five C entry points, calls *)
(* it through ctypes, which checks nothing, and renormalises the output      *)
(* unless the library has.  What a library does not report is not checked.   *)
EXTENDS Integers, Sequences, FiniteSets, FiniteSetsExt

CONSTANTS
    Builds,         \* [exports : SUBSET Symbol, const : [Field -> Nat], tiles : Nat]
    Layers,         \* see the fields of l below
    MaxTokens,      \* MOE_MONOKERNEL_PREFILL_MAX_TOKENS
    Counts,         \* token counts of a call
    Measured        \* those with an entry in the chunk table

ASSUME HostAssumption == MaxTokens \in Nat /\ Counts \subseteq Nat /\ Measured \subseteq Counts

VARIABLES
    build,      \* the loaded library, or NoBuild when none is named
    layer,      \* the layer: its weights, router and place in the model
    loaded,     \* the weights are
    enabled,    \* _use_moe_monokernel
    plan,       \* of fused_tp_plan: usable, fold; or NoPlan
    call        \* what the last call did, or NoCall

hostVars == << build, layer, loaded, enabled, plan, call >>

None == -1
NoBuild == [exports |-> {}, const |-> << >>, tiles |-> 0]
NoPlan == [usable |-> FALSE, fold |-> FALSE]
NoCall == [entry |-> "none", args |-> << >>, path |-> "none", count |-> 0, divided |-> 0]

HostInit ==
    /\ build \in Builds \cup {NoBuild}
    /\ layer \in Layers
    /\ loaded = FALSE /\ enabled = FALSE /\ plan = NoPlan /\ call = NoCall

-----------------------------------------------------------------------------
(* What the library reports.                                                 *)

Exports(b, s) == s \in b.exports
Geo(b, f) == IF Exports(b, f) THEN b.const[f] ELSE None

\* A library without a local count indexes its weights by the global one.
LocalGeo(b) ==
    IF Geo(b, "num_experts_local") = None THEN Geo(b, "num_experts")
    ELSE Geo(b, "num_experts_local")

Unequal(reported, wanted) == reported # None /\ reported # wanted

Caps(b) ==
    [usable |-> {"q1_tp", "tp_pad_words", "tp_max_c", "tp_align", "grid_size"} \subseteq b.exports,
     devseq |-> Exports(b, "tp_has_devseq"),
     fold   |-> {"q1_tp2", "tp_has_residual"} \subseteq b.exports]

\* _prefill_fused_renorm.
MutFusedRenorm(b) == FALSE
FusedRenorm(b) == Exports(b, "fused_renorm")

-----------------------------------------------------------------------------
(* Weight load: process_weights_after_loading.                               *)

Named(b) == b # NoBuild
Local(l) == l.weights.num_experts_local
EpNeeded(l) == Local(l) # l.weights.num_experts
Owned(map) == {g \in DOMAIN map : map[g] >= 0}

\* The expert map is a map from global experts to local slabs and not a mask.
MutMapGood(l) == l.map.int32 /\ Len(l.map.to) = l.weights.num_experts
MapGood(l) ==
    /\ l.map.int32
    /\ Len(l.map.to) = l.weights.num_experts
    /\ Cardinality(Owned(l.map.to)) = Local(l)
    /\ Max({l.map.to[g] : g \in DOMAIN l.map.to}) = Local(l) - 1

EpGood(b, l) ==
    /\ EpNeeded(l) <=> Exports(b, "ep_capable")
    /\ EpNeeded(l) => MapGood(l)

GeometryGood(b, l) ==
    /\ \A f \in {"num_experts", "top_k", "k_dim", "n_up", "n_half", "h_dim"} :
            ~ Unequal(Geo(b, f), l.weights[f])
    /\ ~ Unequal(LocalGeo(b), Local(l))

\* Mode 0 is softmax; 1 and 2 are sigmoid with a correction bias.
RouterGood(b, l) ==
    CASE Geo(b, "router_mode") = 0 -> l.scoring = "softmax"
      [] Geo(b, "router_mode") \in {1, 2} -> l.scoring = "sigmoid" /\ l.bias
      [] OTHER -> TRUE

\* Ready: the switch is on, the weights block-quantised for the Triton back end, and
\* more than one expert is chosen.
Enables(b, l) ==
    l.ready /\ Named(b) /\ GeometryGood(b, l) /\ EpGood(b, l) /\ RouterGood(b, l)

\* _fused_tp_eligible.
FusedEligible(on, l) == on /\ ~ l.overlap /\ l.tp >= 2 /\ ~ l.skipReduce

\* The plan is the vote's outcome: what this rank can do, if its peers can too.
Load ==
    /\ ~ loaded /\ loaded' = TRUE
    /\ enabled' = Enables(build, layer)
    /\ \E peersRun, peersFold \in BOOLEAN :
          LET caps == Caps(build)
              run == caps.usable /\ caps.devseq /\ peersRun
          IN plan' = IF FusedEligible(enabled', layer) /\ run
                     THEN [usable |-> TRUE, fold |-> caps.fold /\ peersFold]
                     ELSE NoPlan
    /\ UNCHANGED << build, layer, call >>

-----------------------------------------------------------------------------
(* A call: try_moe_monokernel and _moe_monokernel_prefill_impl.              *)

\* c: tp, whether a fused configuration is passed; emap, whether the expert map is;
\* resid, whether a residual is; scaled, whether out_scale is not 1.
Fold(c) == c.resid \/ c.scaled

\* monokernel_validate refuses.
Refused(b, l, c) ==
    \/ Unequal(Geo(b, "n_up"), l.weights.n_up) \/ Unequal(Geo(b, "n_half"), l.weights.n_half)
    \/ Unequal(Geo(b, "k_dim"), l.weights.k_dim) \/ Unequal(Geo(b, "top_k"), l.weights.top_k)
    \/ Unequal(LocalGeo(b), Local(l))
    \/ ~ c.emap /\ Unequal(Geo(b, "num_experts"), Local(l))
    \/ c.emap /\ (~ Exports(b, "ep_capable") \/ Unequal(Geo(b, "num_experts"), Len(l.map.to)))
    \/ l.bias /\ (Geo(b, "router_mode") = 0 \/ ~ Exports(b, "q1_router"))
    \/ ~ l.bias /\ Geo(b, "router_mode") \notin {None, 0}

Entry(l, c) ==
    CASE c.tp /\ Fold(c) -> "q1_tp2"
      [] c.tp /\ ~ Fold(c) -> "q1_tp"
      [] ~ c.tp /\ c.emap -> "q1_ep"
      [] ~ c.tp /\ ~ c.emap /\ l.bias -> "q1_router"
      [] OTHER -> "q1"

\* The arguments after the first seventeen, which all entry points share.
MutBiasArg(l, c) == IF l.bias THEN << "bias" >> ELSE << >>
BiasArg(l, c) == IF c.tp \/ c.emap \/ l.bias THEN << "bias" >> ELSE << >>

TpArgs == << "mc", "pads", "rank", "world", "nchunk", "ncomm", "seq", "seqctr" >>
Tp2Args == TpArgs \o << "residual", "scale" >>

Args(l, c) ==
    BiasArg(l, c)
    \o (CASE c.tp /\ Fold(c) -> Tp2Args
          [] c.tp /\ ~ Fold(c) -> TpArgs
          [] ~ c.tp /\ c.emap -> << "map" >>
          [] OTHER -> << >>)
    \o << "stream" >>

\* What the entry point of the library takes there.  Until it had a device counter
\* the fused entry took none.
Parameters(b, entry) ==
    LET counter == IF Exports(b, "tp_has_devseq") THEN TpArgs ELSE SubSeq(TpArgs, 1, 7)
    IN CASE entry = "q1" -> << "stream" >>
         [] entry = "q1_router" -> << "bias", "stream" >>
         [] entry = "q1_ep" -> << "bias", "map", "stream" >>
         [] entry = "q1_tp" -> << "bias" >> \o counter \o << "stream" >>
         [] OTHER -> << "bias" >> \o TpArgs \o << "residual", "scale", "stream" >>

\* The library refuses more tokens than its tile table holds.
Rc(b, n) == IF n > b.tiles THEN -102 ELSE 0

\* Divisions of the output by the sum of a token's weights: in the kernel, and after
\* it.  A library that divides refuses the layer that asks for no division.
KernelDivides(b) == IF Exports(b, "fused_renorm") THEN 1 ELSE 0
HostDivides(b, l) == IF l.renormalize /\ ~ FusedRenorm(b) THEN 1 ELSE 0
Spoilt(b, l) == FusedRenorm(b) /\ ~ l.renormalize

\* What the launch left in the output, and whether the caller gets it.
Launched(b, l, c, n) ==
    [entry |-> Entry(l, c), args |-> Args(l, c), count |-> n,
     divided |-> KernelDivides(b) + HostDivides(b, l),
     path |-> CASE Rc(b, n) = 0 /\ ~ Spoilt(b, l) -> "kernel"
                [] c.tp -> "raised"
                [] OTHER -> "triton"]

NotLaunched(path, n) == [NoCall EXCEPT !.path = path, !.count = n]

\* A RuntimeError falls back to Triton, except out of the fused path, and a missing
\* symbol is no RuntimeError.
Impl(b, l, c, n) ==
    CASE Refused(b, l, c) -> NotLaunched(IF c.tp THEN "raised" ELSE "triton", n)
      [] ~ Refused(b, l, c) /\ ~ Exports(b, Entry(l, c)) -> NotLaunched("raised", n)
      [] OTHER -> Launched(b, l, c, n)

\* moe_monokernel_prefill_out: a configuration with communication blocks, which a
\* plan that runs always has, selects the collective.  The op has no expert map.
OutOp(resid, scaled, n) ==
    Impl(build, layer, [tp |-> TRUE, emap |-> FALSE, resid |-> resid, scaled |-> scaled], n)

\* moe_monokernel_prefill: never the collective, and nothing to fold.
PrefillOp(n) ==
    Impl(build, layer,
         [tp |-> FALSE, emap |-> EpNeeded(layer), resid |-> FALSE, scaled |-> FALSE], n)

\* fused_tp_launch does not return None: with the fold, only with a residual.
TakesFused(n, residual) ==
    FusedEligible(enabled, layer) /\ plan.usable /\ n \in Measured /\ (plan.fold => residual)

Call(n, residual, scaled) ==
    /\ loaded
    /\ call' = IF ~ enabled \/ n > MaxTokens THEN NotLaunched("triton", n)
               ELSE IF TakesFused(n, residual) THEN OutOp(plan.fold, plan.fold /\ scaled, n)
               ELSE PrefillOp(n)
    /\ UNCHANGED << build, layer, loaded, enabled, plan >>

HostNext == Load \/ \E n \in Counts, residual, scaled \in BOOLEAN : Call(n, residual, scaled)

-----------------------------------------------------------------------------
(* Properties.                                                               *)

Ran == call.entry # "none"

\* A kernel that runs was compiled for the layer's weights and router, and finds
\* every expert of the rank in a slab of its own: "a shape it was not built for is
\* read at the wrong stride and still returns rc=0".
WeightsFit ==
    Ran => /\ \A f \in DOMAIN layer.weights : build.const[f] = layer.weights[f]
           /\ build.const.router_mode = 0 <=> layer.scoring = "softmax"
           /\ EpNeeded(layer) =>
                \A slab \in 0..(Local(layer) - 1) :
                    Cardinality({g \in DOMAIN layer.map.to : layer.map.to[g] = slab}) = 1

\* The C function that is called finds every argument in the place it reads it
\* from, the stream, which is the last one, included; and an output that is used was
\* divided by the sum of its token's weights once, or not at all for a layer that
\* does not ask for it.
CallRight ==
    /\ Ran => call.args = Parameters(build, call.entry)
    /\ call.path = "kernel" => call.divided = IF layer.renormalize THEN 1 ELSE 0

\* "Every field the .so reports has to match the layer": a grouped router too was
\* compiled for the layer's groups.
GroupsFit ==
    Ran /\ build.const.router_mode = 2 => build.const.groups = layer.groups

=============================================================================
