----------------------------- MODULE MCMoERunner -----------------------------
(* The layer, the boundary of its op, and the loading of its weights, each   *)
(* checked while the others rest.                                            *)
(*                                                                           *)
(* The layer: every possible configuration, and four token counts: at or     *)
(* below the stream threshold, in the plan's table, above the threshold but  *)
(* not in the table, and above what the monokernel takes.  With the larger   *)
(* threshold a fused size runs its shared experts too late for the fold.     *)
(*                                                                           *)
(* The op: two layers, one of every kind beside a plain one in either order, *)
(* or two of one name, and two microbatches.                                 *)
(*                                                                           *)
(* The weights: every config, and partitions of up to six rows and columns   *)
(* with blocks of one to three, of which many do not divide them.            *)
EXTENDS MoERunner, LayerOps, Fp8Weights

MCSizes == 1..4
MCFusedSizes == {2}
MCThresholds == {1, 2}

Width(latent) == IF latent = 0 THEN 4 ELSE latent
Kinds ==
    {[name |-> 1, hidden |-> 4, latent |-> l, moe |-> Width(l) + p, shared |-> s,
      fold |-> f, applied |-> a, skip |-> k, narrow |-> n] :
        l \in {0, 2}, p \in {0, 1}, s \in BOOLEAN, f \in BOOLEAN, a \in BOOLEAN,
        k \in BOOLEAN, n \in BOOLEAN}
\* The plan's constructor folds only what it can; a caller that applies the
\* input transform has one.
Kind == {l \in Kinds : /\ l.fold => l.shared /\ l.latent = 0
                       /\ l.applied => l.latent # 0}
Simple(name) ==
    [name |-> name, hidden |-> 4, latent |-> 0, moe |-> 4, shared |-> FALSE,
     fold |-> FALSE, applied |-> FALSE, skip |-> FALSE, narrow |-> FALSE]
MCModels ==
    {<< l, Simple(2) >> : l \in Kind} \cup {<< Simple(2), l >> : l \in Kind}
        \cup {<< Simple(1), Simple(1) >>}
MCNoModels == {}
MCNaming == {"opaque", "plain", "context"}
MCStreams == {1, 2}

MCCheckpoints == Checkpoint
MCNoCheckpoints == {}

MCSlices ==
    {s \in [tp : {1, 2}, rank : {0, 1}, inter : 1..6, blockN : 1..3, blockK : 1..3,
            shards : {1, 2}, fnuz : BOOLEAN, marlin : BOOLEAN, cutlass : BOOLEAN,
            invariant : BOOLEAN] :
        s.rank < s.tp /\ (s.marlin => ~ s.invariant /\ ~ s.cutlass)}
\* In the order of the fields of Checkpoint.
Config(k, i, z, s, b, x) ==
    [kind |-> k, ignored |-> i, serialized |-> z, static |-> s, block |-> b, mxfp4 |-> x]
Served == {Config(k, FALSE, TRUE, s, b, FALSE) : k \in {"linear", "experts"},
                                                s \in BOOLEAN, b \in BOOLEAN}
Simplest == CHOOSE s \in MCSlices : s.tp = 1
Plain == Config("linear", FALSE, TRUE, FALSE, FALSE, FALSE)

VARIABLE part

WeightsRest ==
    /\ file = Plain /\ slice = Simplest
    /\ step = "config" /\ method = "none"
    /\ unit = Nil /\ scale = Nil /\ inputs = Nil

RunnerRests ==
    /\ cfg = [f \in Flags |-> FALSE]
    /\ threshold = 1 /\ size = 1
    /\ pc = "idle"
    /\ pending = Nothing /\ shared = Nothing
    /\ residual = FALSE /\ pooled = FALSE
    /\ out = RoutedOnly(Nothing)
    /\ collectives = 0
OpsRest ==
    /\ model = << >> /\ naming = "opaque" /\ registry = << >>
    /\ context = [u \in Streams |-> 0]
    /\ at = [u \in Streams |-> [layer |-> 0, stage |-> "idle"]]
    /\ width = [u \in Streams |-> NoWidths]
    /\ served = [u \in Streams |-> 0]

MCInit ==
    \/ part = "runner" /\ Init /\ OpsRest /\ WeightsRest
    \/ part = "ops" /\ RunnerRests /\ OpsInit /\ WeightsRest
    \/ part = "weights" /\ RunnerRests /\ OpsRest /\ WeightsInit
        /\ (file \in Served \/ slice = Simplest)
MCNext ==
    \/ part = "runner" /\ Next /\ UNCHANGED << opsVars, weightVars, part >>
    \/ part = "ops" /\ OpsNext /\ UNCHANGED << vars, weightVars, part >>
    \/ part = "weights" /\ WeightsNext /\ UNCHANGED << vars, opsVars, part >>

MCSpec == MCInit /\ [][MCNext]_<< vars, opsVars, weightVars, part >>

=============================================================================
