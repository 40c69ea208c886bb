------------------------------ MODULE MCLaunch --------------------------------
(* The parts of a launch from the host, each checked while the others rest:  *)
(* the gate that decides whether and how the kernel is called, with every    *)
(* library that could have been built on the way to today's; the chunks of a *)
(* launch that is accepted, with the constants of the DeepSeek-V3 build, odd *)
(* and even token counts around one tile, every chunk count, the default and *)
(* the largest ncomm; the pool that the launches of two layers and two       *)
(* microbatches share, over a captured forward and its replay; and the       *)
(* trials of the fused launch, of three ranks, with the counter on the       *)
(* device and, where the scripts expect a pass without it, on the host.      *)
EXTENDS HostGate, ChunkPartition, SymmPool, Trials, TLC

\* The fields of a library's geometry; the numbers only have to differ.
Qwen == [num_experts |-> 4, num_experts_local |-> 4, top_k |-> 2, k_dim |-> 5,
         h_dim |-> 5, n_up |-> 6, n_half |-> 3]
Split(w) == [w EXCEPT !.num_experts_local = 2]

\* The symbols, in the order in which libraries came to export them.
Shape == {"num_experts", "top_k", "k_dim", "h_dim", "q1", "grid_size"}
Width == Shape \cup {"n_up", "n_half", "q1_router", "router_mode"}
Renorm == Width \cup {"fused_renorm"}
Fused == Renorm \cup {"q1_tp", "tp_pad_words", "tp_max_c", "tp_align"}
Counter == Fused \cup {"tp_has_devseq"}
Residual == Counter \cup {"q1_tp2", "tp_has_residual"}
Ep == Residual \cup {"q1_ep", "ep_capable", "num_experts_local"}

Library(symbols, weights, mode) ==
    [exports |-> symbols, tiles |-> 2,
     const |-> weights @@ ("router_mode" :> mode) @@ ("groups" :> 2)]

MCBuilds ==
    {Library(s, Qwen, m) : s \in {Width, Renorm, Fused, Counter, Residual}, m \in {0, 2}}
    \cup {Library(Ep, Split(Qwen), 0)}

Map(to) == [int32 |-> TRUE, to |-> to]
MCLayer ==
    [weights : {Qwen, Split(Qwen)}
        \cup {[w EXCEPT ![f] = @ + 1] : w \in {Qwen, Split(Qwen)}, f \in DOMAIN Qwen},
     map : {Map(<< 0, 1, -1, -1 >>), Map(<< -1, 1, -1, 0 >>), Map(<< 1, 1, 0, 0 >>),
            [int32 |-> FALSE, to |-> << 0, 1, -1, -1 >>]},
     groups : {2}, scoring : {"softmax", "sigmoid"}, bias : BOOLEAN, renormalize : BOOLEAN,
     ready : {TRUE}, overlap : {FALSE}, skipReduce : {FALSE}, tp : {1, 2}]
MCLayers == MCLayer

MCTokenCounts == (1..17) \cup {48, 63, 64}
MCChunkCounts == 0..17
MCWorlds == {2, 8}
MCCommCounts == {1, 14, 131}

RestingLayer == CHOOSE l \in MCLayers : TRUE
HostRests ==
    /\ build = NoBuild /\ layer = RestingLayer /\ loaded = FALSE /\ enabled = FALSE
    /\ plan = NoPlan /\ call = NoCall
ChunksRest == tokens = 1 /\ nchunk = 1 /\ world = 2 /\ ncomm = 14 /\ chunk = 0
RestingOrder == CHOOSE t \in Turns : TRUE
PoolRests ==
    /\ order = RestingOrder
    /\ pc = [r \in Ranks |-> ProgramLen + 1]
    /\ stage = [r \in Ranks |-> "idle"] /\ seqctr = [r \in Ranks |-> 0]
    /\ pads = [r \in Ranks |-> NoArrivals]
    /\ out = [r \in Ranks |-> << >>]

On(tests) == [test : tests, devseq : {TRUE}]
Off(tests) == [test : tests, devseq : {FALSE}]
MCArms == On({"T1", "T2", "T3", "T4", "T5", "T6", "T7", "T8", "T9", "fold", "ab"})
    \cup Off({"T1", "T2", "T3", "T7", "T8", "T9", "ab"})
TrialsRest ==
    /\ arm = [test |-> "T1", devseq |-> TRUE]
    /\ rest = [r \in Members |-> << >>]
    /\ phase = [r \in Members |-> "idle"]
    /\ seq = [r \in Members |-> 0] /\ counter = [r \in Members |-> 0]
    /\ hostseq = [r \in Members |-> 0] /\ baked = [r \in Members |-> 0]
    /\ pad = [r \in Members |-> << >>] /\ buf = [r \in Members |-> << >>]
    /\ kept = [r \in Members |-> << >>] /\ equal = [r \in Members |-> TRUE]
    /\ fails = {}

\* The part that moves: "gate", "chunks", "pool" or "trials".
VARIABLE part
launchVars == << part, hostVars, vars, poolVars, trialVars >>

LaunchInit ==
    \/ part = "gate" /\ ChunksRest /\ HostInit /\ PoolRests /\ TrialsRest
    \/ part = "chunks" /\ Init /\ HostRests /\ PoolRests /\ TrialsRest
    \/ part = "pool" /\ ChunksRest /\ HostRests /\ PoolInit /\ TrialsRest
    \/ part = "trials" /\ ChunksRest /\ HostRests /\ PoolRests /\ TrialsInit
LaunchNext ==
    /\ UNCHANGED part
    /\ \/ part = "gate" /\ HostNext /\ UNCHANGED << vars, poolVars, trialVars >>
       \/ part = "chunks" /\ Next /\ UNCHANGED << hostVars, poolVars, trialVars >>
       \/ part = "pool" /\ PoolNext /\ UNCHANGED << hostVars, vars, trialVars >>
       \/ part = "trials" /\ TrialsNext /\ UNCHANGED << hostVars, vars, poolVars >>

\* Every stream runs, and a collective that every rank has joined completes.
Elsewhere == UNCHANGED << part, hostVars, vars >>
LaunchSpec ==
    /\ LaunchInit /\ [][LaunchNext]_launchVars
    /\ \A r \in Ranks :
        WF_launchVars(part = "pool" /\ RankStep(r) /\ Elsewhere /\ UNCHANGED trialVars)
    /\ \A r \in Members :
        WF_launchVars(part = "trials" /\ Alone(r) /\ Elsewhere /\ UNCHANGED poolVars)
    /\ WF_launchVars(part = "trials" /\ Together /\ Elsewhere /\ UNCHANGED poolVars)

=============================================================================
