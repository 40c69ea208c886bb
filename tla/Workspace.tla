-------------------------------- MODULE Workspace --------------------------------
(* FlashInferNVLinkOneSidedManager (all2all.py): the ranks of every pipeline     *)
(* stage make their MoE layers in order, and each layer asks the stage's shared  *)
(* workspace to be large enough for it.  A workspace that is too small is made   *)
(* again, together with the other ranks of the group, and the layers made        *)
(* before go on to use the new one.                                              *)
EXTENDS Integers, Sequences

CONSTANTS
    Stages,     \* pipeline stages, an expert-parallel group each
    GroupSize,
    Models      \* models considered: stage -> its layers' [size, tokens, topk, experts]

ASSUME WorkspaceAssumption ==
    /\ GroupSize \in Nat \ {0}
    /\ Models \subseteq [Stages -> Seq([size : Nat, tokens : Nat, topk : Nat, experts : Nat])]

Processes == Stages \X (1..GroupSize)
Group(p) == {q \in Processes : q[1] = p[1]}

VARIABLES
    model,
    ready,       \* process -> layers made
    step,       \* process -> where in initialize
    bounds,     \* process -> workspace_size, max_num_tokens, top_k, num_experts
    initialized,\* process -> BOOLEAN
    alltoall    \* process -> the bounds of moe_alltoall, or NoneBuilt

workspaceVars == << model, ready, step, bounds, initialized, alltoall >>

NoneBuilt == [size |-> -1, tokens |-> -1, topk |-> -1, experts |-> -1]
Layer(p) == model[p[1]][ready[p] + 1]
LayersLeft(p) == ready[p] < Len(model[p[1]])

WorkspaceInit ==
    /\ model \in Models
    /\ ready = [p \in Processes |-> 0]
    /\ step = [p \in Processes |-> "layer"]
    /\ bounds = [p \in Processes |-> [size |-> 0, tokens |-> 0, topk |-> 0, experts |-> 0]]
    /\ initialized = [p \in Processes |-> FALSE]
    /\ alltoall = [p \in Processes |-> NoneBuilt]

Matches(p) == Layer(p).topk = bounds[p].topk /\ Layer(p).experts = bounds[p].experts
Fits(p) == Layer(p).size <= bounds[p].size /\ Layer(p).tokens <= bounds[p].tokens

MaxOf(a, b) == IF a > b THEN a ELSE b

\* The bounds grow to the union.
MutGrown(p) == Layer(p)
Grown(p) == [Layer(p) EXCEPT !.size = MaxOf(bounds[p].size, @),
                             !.tokens = MaxOf(bounds[p].tokens, @)]

\* initialize, up to its return or its first collective.
Initialize(p) ==
    /\ step[p] = "layer" /\ LayersLeft(p)
    /\ IF initialized[p] /\ ~ Matches(p)
       THEN step' = [step EXCEPT ![p] = "raised"] /\ UNCHANGED << ready, bounds, initialized, alltoall >>
       ELSE IF initialized[p] /\ Fits(p)
       THEN ready' = [ready EXCEPT ![p] = @ + 1] /\ UNCHANGED << step, bounds, initialized, alltoall >>
       ELSE /\ bounds' = [bounds EXCEPT ![p] = Grown(p)]
            /\ initialized' = [initialized EXCEPT ![p] = FALSE]
            /\ alltoall' = [alltoall EXCEPT ![p] = NoneBuilt]
            /\ step' = [step EXCEPT ![p] = "build"]
            /\ UNCHANGED ready
    /\ UNCHANGED model

\* The workspaces of a group are mapped into each other when all its ranks allocate.
Build(p) ==
    /\ \A q \in Group(p) : step[q] = "build"
    /\ alltoall' = [q \in Processes |-> IF q \in Group(p) THEN bounds[q] ELSE alltoall[q]]
    /\ initialized' = [q \in Processes |-> q \in Group(p) \/ initialized[q]]
    /\ step' = [q \in Processes |-> IF q \in Group(p) THEN "barrier" ELSE step[q]]
    /\ UNCHANGED << model, ready, bounds >>

\* dist.barrier over the group.
MutBarrierGroup(p) == Processes
BarrierGroup(p) == Group(p)

Barrier(p) ==
    /\ \A q \in BarrierGroup(p) : step[q] = "barrier"
    /\ ready' = [q \in Processes |-> IF q \in BarrierGroup(p) THEN ready[q] + 1 ELSE ready[q]]
    /\ step' = [q \in Processes |-> IF q \in BarrierGroup(p) THEN "layer" ELSE step[q]]
    /\ UNCHANGED << model, bounds, initialized, alltoall >>

Through(p) == step[p] = "raised" \/ (step[p] = "layer" /\ ~ LayersLeft(p))

WorkspaceNext ==
    \/ \E p \in Processes : Initialize(p) \/ Build(p) \/ Barrier(p)
    \/ (\A p \in Processes : Through(p)) /\ UNCHANGED workspaceVars

\* A process that can go on does.
WorkspaceFairness ==
    \A p \in Processes : WF_workspaceVars(Initialize(p) \/ Build(p) \/ Barrier(p))

-----------------------------------------------------------------------------
(* Properties.                                                               *)

Uniform(s) == \A i, j \in 1..Len(model[s]) :
    model[s][i].topk = model[s][j].topk /\ model[s][i].experts = model[s][j].experts

\* Whenever a process is not in the middle of making a layer, every layer it has made
\* fits the workspace there is, and the ranks that have made as many layers have the
\* same one; top_k and the number of experts are those of every layer.
WorkspaceFits ==
    \A p \in Processes : step[p] = "layer" /\ ready[p] > 0 =>
        /\ \A l \in 1..ready[p] :
            LET asked == model[p[1]][l] IN
            /\ asked.size <= alltoall[p].size /\ asked.tokens <= alltoall[p].tokens
            /\ asked.topk = alltoall[p].topk /\ asked.experts = alltoall[p].experts
        /\ \A q \in Group(p) : step[q] = "layer" /\ ready[q] = ready[p] => alltoall[q] = alltoall[p]

\* Every stage gets through its layers, however many times the other stages build, and
\* none is refused whose layers are alike.
EveryoneBuilds ==
    <>(\A p \in Processes :
        step[p] = (IF Uniform(p[1]) THEN "layer" ELSE "raised")
            /\ (Uniform(p[1]) => ~ LayersLeft(p)))

=============================================================================
