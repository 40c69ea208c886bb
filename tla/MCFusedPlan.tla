----------------------------- MODULE MCFusedPlan -----------------------------
(* The plan and what a restart keeps of it, each checked while the other     *)
(* rests.                                                                    *)
(*                                                                           *)
(* The plan: three ranks and three sizes, one below the threshold at which   *)
(* the shared experts run first, two that can be fused.  Among the binaries  *)
(* are one without the fused entry, one whose chunk cap is below the         *)
(* table's, one that cannot fold and one that can.                           *)
(*                                                                           *)
(* The restarts: two library paths with any two builds, one of which may not *)
(* fit the layer, and two starts with any variables in between.              *)
EXTENDS FusedPlan, CompileCache

MCSizes == {1, 2, 3}
MCSharedFirst == {2, 3}
Table(a, b, c) == [n \in MCSizes |-> << a, b, c >>[n]]
MCTables == {Table(0, 4, 8), Table(4, 4, 0)}
MCNcomms == {14}
MCBinaries ==
    {[fused |-> TRUE, devseq |-> TRUE, maxC |-> 16, grid |-> 132, residual |-> TRUE],
     [fused |-> TRUE, devseq |-> TRUE, maxC |-> 16, grid |-> 132, residual |-> FALSE],
     [fused |-> TRUE, devseq |-> TRUE, maxC |-> 4, grid |-> 132, residual |-> TRUE],
     [fused |-> FALSE, devseq |-> FALSE, maxC |-> 0, grid |-> 132, residual |-> FALSE]}
MCVoted == {"enable", "binary"}
MCBuilds ==
    {[fits |-> TRUE, fused |-> TRUE, residual |-> TRUE],
     [fits |-> TRUE, fused |-> TRUE, residual |-> FALSE],
     [fits |-> FALSE, fused |-> FALSE, residual |-> FALSE]}

VARIABLE part

PlanRests ==
    /\ env = [r \in Ranks |-> CHOOSE e \in Environments : TRUE]
    /\ calls = [i \in 1..NumCalls |-> 1]
    /\ pc = [r \in Ranks |-> "raised"]
    /\ plan = [r \in Ranks |-> NoPlan]
    /\ call = [r \in Ranks |-> 1]
CacheRests == CacheInit /\ files = [p \in Paths |-> CHOOSE b \in Builds : TRUE]

MCInit ==
    \/ part = "plan" /\ Init /\ CacheRests
    \/ part = "cache" /\ PlanRests /\ CacheInit
MCVars == << vars, cacheVars, part >>
Of(p, A, others) == part = p /\ A /\ UNCHANGED << others, part >>
MCNext == Of("plan", Next, cacheVars) \/ Of("cache", CacheNext, vars)

MCSpec ==
    /\ MCInit /\ [][MCNext]_MCVars
    /\ \A r \in Ranks :
        /\ WF_MCVars(Of("plan", Load(r), cacheVars))
        /\ WF_MCVars(Of("plan", Forward(r), cacheVars))
    /\ WF_MCVars(Of("plan", Vote, cacheVars))
    /\ WF_MCVars(Of("plan", Rendezvous, cacheVars))
    /\ WF_MCVars(Of("plan", Return, cacheVars))

=============================================================================
