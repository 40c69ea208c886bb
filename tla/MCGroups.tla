-------------------------------- MODULE MCGroups --------------------------------
(* A library with a grouped router, compiled for two groups, under layers of the *)
(* same shape with two groups and with four.                                     *)
EXTENDS HostGate

Weights == [num_experts |-> 4, num_experts_local |-> 4, top_k |-> 2, k_dim |-> 5,
            h_dim |-> 5, n_up |-> 6, n_half |-> 3]
MCBuilds ==
    {[exports |-> {"num_experts", "top_k", "k_dim", "h_dim", "q1", "grid_size", "n_up",
                   "n_half", "q1_router", "router_mode", "fused_renorm", "n_group",
                   "topk_group"},
      tiles |-> 2,
      const |-> [f \in DOMAIN Weights \cup {"router_mode", "groups"} |->
                    IF f \in DOMAIN Weights THEN Weights[f] ELSE 2]]}
MCLayers ==
    [weights : {Weights}, map : {[int32 |-> TRUE, to |-> << 0, 1, 2, 3 >>]},
     groups : {2, 4}, scoring : {"sigmoid"}, bias : {TRUE}, renormalize : {TRUE},
     ready : {TRUE}, overlap : {FALSE}, skipReduce : {FALSE}, tp : {1}]

GroupsSpec == HostInit /\ [][HostNext]_hostVars

=============================================================================
