------------------------------ MODULE LayerOps ------------------------------
(* The boundary between the traced forward of a MoE layer and the opaque op  *)
(* that runs it (MoERunner.forward, moe_forward and moe_forward_shared).     *)
(*                                                                           *)
(* The compiled graph has one op for all layers, which finds its layer at    *)
(* run time: by a name that the graph carries, or by counting the calls of   *)
(* the forward so far.  What the op returns has the widths that its fake     *)
(* declares at tracing; padding, the input and output transforms and the     *)
(* shared half each have a width of their own, and a slice that is too long  *)
(* cuts nothing, without an error.  Two microbatches interleave, each with   *)
(* its own forward context.                                                  *)
EXTENDS Naturals, Sequences, FiniteSets

CONSTANTS
    Models,         \* sequences of layers, in the order of the forward
    Naming,         \* "opaque", "plain" or "context": what the op is given
    Streams         \* microbatches

\* hidden and latent widths (latent 0: no transform), the width the experts are
\* built for, shared experts, the fold, and three answers of the layer's user
\* and its quant method.
Layer ==
    [name : Nat, hidden : Nat, latent : Nat, moe : Nat, shared : BOOLEAN, fold : BOOLEAN,
     applied : BOOLEAN, skip : BOOLEAN, narrow : BOOLEAN]

ASSUME LayerOpsAssumption ==
    /\ \A m \in Models : \A i \in DOMAIN m : m[i] \in Layer
    /\ Naming \subseteq {"opaque", "plain", "context"}

VARIABLES
    model,      \* the layers of the model, fixed
    naming,     \* fixed
    registry,   \* static_all_moe_layers: names in the order of construction
    context,    \* microbatch -> moe_layer_index of its forward context
    at,         \* microbatch -> the layer it is in, and its stage
    width,      \* microbatch -> widths: of the states, and of what the op took
                \* and returned
    served      \* microbatch -> the layer that the op found

opsVars == << model, naming, registry, context, at, width, served >>

NoWidths == [states |-> 0, routed |-> 0, shared |-> 0]

OpsInit ==
    /\ model \in Models
    /\ naming \in Naming
    /\ registry = << >>
    /\ context = [u \in Streams |-> 0]
    /\ at = [u \in Streams |-> [layer |-> 0, stage |-> "idle"]]
    /\ width = [u \in Streams |-> NoWidths]
    /\ served = [u \in Streams |-> 0]

-----------------------------------------------------------------------------
(* Construction and lookup.                                                  *)

Names == {registry[i] : i \in DOMAIN registry}
Built == Len(registry) = Len(model)

\* register_layer_for_moe_forward_op; a second layer of a name is refused, and
\* the model is not built.
Register ==
    /\ ~ Built
    /\ LET next == model[Len(registry) + 1].name IN
        /\ next \notin Names
        /\ registry' = Append(registry, next)
    /\ UNCHANGED << model, naming, context, at, width, served >>

MutAdvanced(u) == context[u]
Advanced(u) == IF naming = "context" THEN context[u] + 1 ELSE context[u]

\* get_layer_from_name.
Exhausted(u) == naming = "context" /\ context[u] >= Len(registry)
Found(u) ==
    LET name == IF naming = "context" THEN registry[context[u] + 1]
                ELSE model[at[u].layer].name
    IN  CHOOSE i \in DOMAIN model : model[i].name = name

-----------------------------------------------------------------------------
(* The traced side before the op.                                            *)

This(u) == model[at[u].layer]

\* apply_routed_input_transform, unless the caller has applied it.
RoutedWidth(l) == IF l.latent # 0 THEN l.latent ELSE l.hidden

\* The width of the shared experts' input, 0 when there is none: a transform
\* hands back the original states even without shared experts.
SharedInput(l) == IF l.latent # 0 \/ l.applied \/ l.shared THEN l.hidden ELSE 0

\* _maybe_pad_hidden_states.
Padded(l) == ~ l.skip /\ l.moe # RoutedWidth(l)
Passed(l) == IF Padded(l) THEN l.moe ELSE RoutedWidth(l)

\* Where to cut, None being 0: before the output transform and the add, and at
\* the end.
MutCutBefore(l) == IF Padded(l) /\ l.latent # 0 THEN RoutedWidth(l) ELSE 0
CutBefore(l) == IF Padded(l) /\ (l.latent # 0 \/ SharedInput(l) > 0) THEN RoutedWidth(l) ELSE 0
CutAfter(l) ==
    IF l.latent # 0 /\ SharedInput(l) > 0 THEN SharedInput(l)
    ELSE IF Padded(l) THEN RoutedWidth(l) ELSE 0

\* The shapes of the fakes.
Declared(l) ==
    [routed |-> IF l.narrow THEN RoutedWidth(l) ELSE Passed(l),
     shared |-> IF ~ l.shared THEN 0
                ELSE IF SharedInput(l) > 0 THEN SharedInput(l) ELSE Passed(l)]

Goto(u, stage) == at' = [at EXCEPT ![u].stage = stage]

\* A microbatch begins a forward in a context of its own.
Enter(u) ==
    /\ Built
    /\ at[u].stage = "idle"
    /\ at' = [at EXCEPT ![u] = [layer |-> 1, stage |-> "traced"]]
    /\ context' = [context EXCEPT ![u] = 0]
    /\ width' = [width EXCEPT ![u] = [NoWidths EXCEPT !.states = model[1].hidden]]
    /\ UNCHANGED << model, naming, registry, served >>

Prepare(u) ==
    /\ at[u].stage = "traced"
    /\ width' = [width EXCEPT ![u].routed = Passed(This(u)),
                              ![u].shared = SharedInput(This(u))]
    /\ Goto(u, "op")
    /\ UNCHANGED << model, naming, registry, context, served >>

-----------------------------------------------------------------------------
(* The op and the traced side behind it.                                     *)

\* The experts of the layer that was found take the width they are built for,
\* or pad by themselves; a narrow kernel writes the width without the padding.
Accepts(l, w) == w.routed = (IF l.skip THEN RoutedWidth(l) ELSE l.moe)
Returned(l, w) ==
    [routed |-> IF l.narrow THEN RoutedWidth(l) ELSE w.routed,
     shared |-> IF l.shared THEN l.hidden ELSE 0]

Op(u) ==
    /\ at[u].stage = "op"
    /\ IF Exhausted(u)
       THEN Goto(u, "failed") /\ UNCHANGED << context, width, served >>
       ELSE LET l == model[Found(u)] IN
            /\ context' = [context EXCEPT ![u] = Advanced(u)]
            /\ served' = [served EXCEPT ![u] = Found(u)]
            /\ IF Accepts(l, width[u])
               THEN /\ width' = [width EXCEPT ![u].routed = Returned(l, width[u]).routed,
                                              ![u].shared = Returned(l, width[u]).shared]
                    /\ Goto(u, "back")
               ELSE Goto(u, "failed") /\ UNCHANGED width
    /\ UNCHANGED << model, naming, registry >>

\* A slice to a width that is not smaller changes nothing.
Cut(w, to) == IF to # 0 /\ to < w THEN to ELSE w

OutWidth(l, w) == IF l.latent # 0 THEN l.hidden ELSE w
SharedPart(l, w) == IF l.fold THEN 0 ELSE w.shared
Final(l, w) == Cut(OutWidth(l, Cut(w.routed, CutBefore(l))), CutAfter(l))

\* The fold under padding raises; a transform or an add of other widths fails.
Refused(l) == l.fold /\ CutBefore(l) # 0
Fails(l, w) ==
    LET routed == Cut(w.routed, CutBefore(l)) IN
    \/ l.latent # 0 /\ routed # l.latent
    \/ SharedPart(l, w) # 0 /\ SharedPart(l, w) # OutWidth(l, routed)

Back(u) ==
    /\ at[u].stage = "back"
    /\ width' = [width EXCEPT ![u].states =
                    IF Refused(This(u)) \/ Fails(This(u), width[u]) THEN @
                    ELSE Final(This(u), width[u])]
    /\ Goto(u, IF Refused(This(u)) THEN "refused"
               ELSE IF Fails(This(u), width[u]) THEN "failed" ELSE "layer")
    /\ UNCHANGED << model, naming, registry, context, served >>

\* The next layer, or the end of the forward.
Leave(u) ==
    /\ at[u].stage = "layer"
    /\ IF at[u].layer = Len(model) THEN Goto(u, "idle")
       ELSE at' = [at EXCEPT ![u].layer = @ + 1, ![u].stage = "traced"]
    /\ UNCHANGED << model, naming, registry, context, width, served >>

\* An error ends the process: a name that is taken, or one in every forward.
Raised ==
    \/ ~ Built /\ model[Len(registry) + 1].name \in Names
    \/ \A u \in Streams : at[u].stage \in {"refused", "failed"}

OpsNext ==
    \/ Register
    \/ Raised /\ UNCHANGED opsVars
    \/ \E u \in Streams : Enter(u) \/ Prepare(u) \/ Op(u) \/ Back(u) \/ Leave(u)

-----------------------------------------------------------------------------
(* Properties.                                                               *)

\* Every op runs the layer whose traced side called it, whichever way it finds
\* its layer and however the microbatches interleave, and returns the widths
\* the graph was compiled for; no transform and no add meets a tensor of
\* another width, and every layer hands on states of the model's width.
OpsRight ==
    \A u \in Streams :
        /\ at[u].stage # "failed"
        /\ at[u].stage = "back" =>
            /\ served[u] = at[u].layer
            /\ width[u].routed = Declared(This(u)).routed
            /\ width[u].shared = Declared(This(u)).shared
        /\ at[u].stage = "layer" => width[u].states = This(u).hidden

=============================================================================
