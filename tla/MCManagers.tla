------------------------------ MODULE MCManagers ------------------------------
(* The managers of the dispatch backends, each checked while the others rest. *)
(*                                                                            *)
(* The naive dispatch: two data-parallel or two context-parallel ranks, with  *)
(* and without two tensor-parallel ranks each, every path through prepare and *)
(* every pair of batches up to two tokens a rank.  The workspace: two stages  *)
(* of two ranks, one with any three layers, small and large in either measure *)
(* or with another top_k.  NIXL: groups of up to four ranks.  The handles: any  *)
(* two layers of three, of which two have low-latency buffers of one size; the *)
(* low-latency layers are alike, and the v2 layers have the same routing.     *)
EXTENDS NixlManager, NaiveDispatch, Workspace, Handles

Shape(d, p, t, sp) == [dp |-> d, pcp |-> p, tp |-> t, sp |-> sp]
Shapes == {Shape(2, 1, 1, FALSE), Shape(2, 1, 2, FALSE), Shape(2, 1, 2, TRUE),
           Shape(1, 1, 2, TRUE), Shape(1, 2, 1, FALSE), Shape(1, 2, 2, FALSE)}
Paths == {[path |-> "runner", scale |-> "deferred", lora |-> FALSE],
          [path |-> "monolithic", scale |-> "rows", lora |-> FALSE],
          [path |-> "monolithic", scale |-> "static", lora |-> FALSE],
          [path |-> "modular", scale |-> "rows", lora |-> TRUE],
          [path |-> "modular", scale |-> "rows", lora |-> FALSE],
          [path |-> "modular", scale |-> "static", lora |-> TRUE],
          [path |-> "modular", scale |-> "deferred", lora |-> FALSE]}
Rested == Shape(1, 1, 1, TRUE) @@ [path |-> "runner", scale |-> "deferred", lora |-> FALSE]
MCLayouts == {s @@ p : s \in Shapes, p \in Paths} \cup {Rested}

Asks(s, t, k) == [size |-> s, tokens |-> t, topk |-> k, experts |-> 8]
MCLayers == {Asks(1, 1, 2), Asks(2, 1, 2), Asks(1, 2, 2), Asks(2, 2, 4)}
MCSequences == UNION {[1..n -> MCLayers] : n \in 0..3}
MCOthers == {<< >>, << Asks(1, 1, 2) >>, << Asks(2, 1, 2), Asks(1, 2, 2) >>,
             << Asks(1, 1, 2), Asks(2, 1, 2), Asks(2, 2, 4) >>}
MCModels == {(1 :> m) @@ (2 :> n) : m \in MCSequences, n \in MCOthers}

Asking(t, h, e, l, k, q) ==
    [tokens |-> t, hidden |-> h, experts |-> e, local |-> l, topk |-> k, fp8 |-> q]
MCAsks == {Asking(2, 4, 4, 2, 2, TRUE), Asking(4, 2, 4, 1, 2, FALSE), Asking(4, 4, 4, 1, 2, FALSE)}
Backend(k, m, x) == [kind |-> k, layers |-> m, internode |-> x]
MCSetups ==
    {Backend(k, << a, b >>, x) : k \in {"ht", "v2", "mori"}, a \in MCAsks, b \in MCAsks,
                                 x \in BOOLEAN}
        \cup {Backend("ll", << a, a >>, x) : a \in MCAsks, x \in BOOLEAN}
        \cup {Backend("ht", << >>, FALSE)}
MCEnvSms == {16, 20, 24}
MCWanted == {8, 20, 48}

NixlRests == NixlInit /\ world = 1
DispatchRests == DispatchInit /\ layout = Rested
                 /\ batches = [f \in 1..Forwards |-> [d \in {0} |-> 0]]
WorkspaceRests == WorkspaceInit /\ model = [s \in Stages |-> << >>]

HandlesRest == HandlesInit /\ setup = Backend("ht", << >>, FALSE) /\ sms = 20

VARIABLE part
ManagersInit ==
    \/ part = "nixl" /\ NixlInit /\ DispatchRests /\ WorkspaceRests /\ HandlesRest
    \/ part = "dispatch" /\ NixlRests /\ DispatchInit /\ layout # Rested
        /\ WorkspaceRests /\ HandlesRest
    \/ part = "workspace" /\ NixlRests /\ DispatchRests /\ WorkspaceInit /\ HandlesRest
    \/ part = "handles" /\ NixlRests /\ DispatchRests /\ WorkspaceRests /\ HandlesInit
ManagersVars == << nixlVars, dispatchVars, workspaceVars, handlesVars, part >>
ManagersNext ==
    /\ UNCHANGED part
    /\ \/ part = "nixl" /\ NixlNext /\ UNCHANGED << dispatchVars, workspaceVars, handlesVars >>
       \/ part = "dispatch" /\ DispatchNext /\ UNCHANGED << nixlVars, workspaceVars, handlesVars >>
       \/ part = "workspace" /\ WorkspaceNext /\ UNCHANGED << nixlVars, dispatchVars, handlesVars >>
       \/ part = "handles" /\ HandlesNext /\ UNCHANGED << nixlVars, dispatchVars, workspaceVars >>

\* A process that can go on with its layers does.
ManagersSpec ==
    /\ ManagersInit /\ [][ManagersNext]_ManagersVars
    /\ \A p \in Processes :
        WF_ManagersVars(/\ part = "workspace"
                        /\ Initialize(p) \/ Build(p) \/ Barrier(p)
                        /\ UNCHANGED << nixlVars, dispatchVars, handlesVars, part >>)

=============================================================================
