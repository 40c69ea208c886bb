-------------------------------- MODULE EPLayer --------------------------------
(* The expert-parallel ranks, layer after layer: the modular kernel's apply    *)
(* (modular_kernel.py) over DeepEP's high-throughput dispatch and combine      *)
(* (prepare_finalize/deepep_ht.py) or over the naive collectives               *)
(* (prepare_finalize/naive_dp_ep.py), the shared experts that overlap with the *)
(* combine (runner/shared_experts.py), and the probes of _ep_timer.py around   *)
(* them.                                                                       *)
(*                                                                             *)
(* A host thread only queues work.  Each rank has a compute and a              *)
(* communication stream, first in first out; an operation may also wait for a  *)
(* position of the other stream, which is what a CUDA event is.  Under         *)
(* dual-batch overlap two threads of a rank, one per microbatch, take turns    *)
(* and share the streams.  A collective happens when it is at the head of a    *)
(* stream of every rank.  What an expert computes is EPExperts' subject: here  *)
(* a buffer holds the number of the layer it was filled for.                   *)
EXTENDS Integers, Sequences

CONSTANTS
    Ranks,
    Layers,     \* bound: MoE layers in one forward
    Setups      \* configurations considered

ASSUME LayerAssumption ==
    /\ Layers \in Nat \ {0}
    /\ Setups \subseteq [dbo : BOOLEAN,      \* two microbatches, dbo_enabled()
                         async : BOOLEAN,    \* DeepEP, else naive
                         static : BOOLEAN,   \* VLLM_EP_CG_WORST under capture
                         rocm : BOOLEAN,     \* sync_dbo_comm
                         alias : BOOLEAN,    \* as many rows come as the caller has
                         dry : SUBSET Ranks, \* the ranks that may receive nothing
                         timer : {"off", "on", "sync", "barrier"}]

\* Assertions refuse the naive path and the synchronous timing arm under DBO; a
\* static width is never nothing, and the naive gather brings the own rows.
ASSUME SetupAssumption == \A s \in Setups :
    /\ s.dbo => s.async /\ s.timer # "sync"
    /\ s.static \/ ~ s.async => s.dry = {}

VARIABLES
    setup,
    turn,       \* rank -> the microbatch whose thread runs
    pc,         \* rank -> microbatch -> place of its thread
    layer,      \* rank -> microbatch -> its layer
    mark,       \* rank -> microbatch -> the position its next switch waits for
    handle,     \* rank -> microbatch -> the local variable of _finalize
    rows,       \* rank -> microbatch -> where the experts' output is
    handles,    \* rank -> slot -> DeepEPHTPrepareAndFinalize.handles
    shared,     \* rank -> slot -> SharedExperts._output
    queue,      \* rank -> stream -> operations not yet done
    put,        \* rank -> stream -> operations queued so far
    mem,        \* rank -> microbatch -> buffer -> layer, or Bad
    issued,     \* rank -> the collectives it has queued, in order
    open,       \* rank -> _ep_timer._open
    waitPhase,  \* rank -> _ep_timer._WPH
    raised      \* rank -> an assertion failed

threads == << turn, pc, layer, mark, handle, rows >>
probes == << open, waitPhase >>
device == << queue, put, mem, issued >>
vars == << setup, threads, handles, shared, device, probes, raised >>

Ubatches == IF setup.dbo THEN {0, 1} ELSE {0}
Streams == {"compute", "comm"}
OtherStream(s) == IF s = "comm" THEN "compute" ELSE "comm"
None == 0
Bad == -1
Buffers == {"x", "recv", "ws", "combined", "output", "shared", "sum"}

Init ==
    /\ setup \in Setups
    /\ turn = [r \in Ranks |-> 0]
    /\ pc = [r \in Ranks |-> [u \in Ubatches |-> "start"]]
    /\ layer = [r \in Ranks |-> [u \in Ubatches |-> 1]]
    /\ mark = [r \in Ranks |-> [u \in Ubatches |-> 0]]
    /\ handle = [r \in Ranks |-> [u \in Ubatches |-> None]]
    /\ rows = [r \in Ranks |-> [u \in Ubatches |-> "none"]]
    /\ handles = [r \in Ranks |-> [i \in {0, 1} |-> None]]
    /\ shared = [r \in Ranks |-> [i \in {0, 1} |-> None]]
    /\ queue = [r \in Ranks |-> [s \in Streams |-> << >>]]
    /\ put = [r \in Ranks |-> [s \in Streams |-> 0]]
    /\ mem = [r \in Ranks |-> [u \in Ubatches |-> [b \in Buffers |-> None]]]
    /\ issued = [r \in Ranks |-> << >>]
    /\ open = [r \in Ranks |-> << >>]
    /\ waitPhase = [r \in Ranks |-> "d"]
    /\ raised = [r \in Ranks |-> FALSE]

-----------------------------------------------------------------------------
(* Queues and turns.                                                         *)

Collectives == {"dispatch", "barrier", "combine"}
Op(k, u, l, after, arg) == [kind |-> k, ubatch |-> u, layer |-> l, after |-> after, arg |-> arg]

\* Operations of r done on stream s.
Done(r, s) == put[r][s] - Len(queue[r][s])

\* The collectives among operations.
Log(ops) ==
    LET first[i \in 0..Len(ops)] ==
            IF i = 0 THEN << >>
            ELSE IF ops[i].kind \in Collectives THEN Append(first[i - 1], ops[i])
            ELSE first[i - 1]
    IN  first[Len(ops)]

Queue(r, compute, comm) ==
    /\ queue' = [queue EXCEPT ![r].compute = @ \o compute, ![r].comm = @ \o comm]
    /\ put' = [put EXCEPT ![r].compute = @ + Len(compute), ![r].comm = @ + Len(comm)]
    /\ issued' = [issued EXCEPT ![r] = @ \o Log(compute) \o Log(comm)]
    /\ UNCHANGED mem

\* The thread of microbatch u runs at place p.
At(r, u, p) == turn[r] = u /\ pc[r][u] = p /\ ~ raised[r]
Goto(r, u, p) == pc' = [pc EXCEPT ![r][u] = p]

\* dbo_yield_and_switch_...: the other thread's turn.
Yield(r, u) == turn' = [turn EXCEPT ![r] = IF setup.dbo THEN 1 - u ELSE u]
Stay == UNCHANGED turn
Mark(r, u, n) == mark' = [mark EXCEPT ![r][u] = n]

Slot(u) == u

\* shared_experts._output_idx.
MutOutputIdx(u) == 0
OutputIdx(u) == u

Timing == setup.timer # "off"

\* The phase-2 probe: the collective that the host launched last.
MutPhase(k) == "d"
Phase(k) == IF k = "dispatch" THEN "d" ELSE "c"

-----------------------------------------------------------------------------
(* The host: one layer of one microbatch.                                    *)

\* apply, _prepare and prepare_async up to the yield, after whatever computes the
\* layer's input.  The naive prepare is a collective of the compute stream.
Start(r, u) ==
    /\ At(r, u, "start")
    /\ LET l == layer[r][u]
           input == Op("input", u, l, 0, None)
       IN  /\ Queue(r, IF setup.async THEN << input >>
                       ELSE << input, Op("dispatch", u, l, 0, None) >>, << >>)
           /\ open' = [open EXCEPT ![r] = IF Timing THEN Append(@, << u, l >>) ELSE @]
    /\ Mark(r, u, put'[r].compute)
    /\ IF setup.async THEN Yield(r, u) /\ Goto(r, u, "dispatch")
       ELSE Stay /\ Goto(r, u, "experts")
    /\ UNCHANGED << setup, layer, handle, rows, handles, shared, waitPhase, raised >>

\* _do_dispatch: the dispatch waits for the microbatch's compute work, not for the
\* other's.
Dispatch(r, u) ==
    /\ At(r, u, "dispatch")
    /\ Queue(r, << >>, << Op("dispatch", u, layer[r][u], mark[r][u], None) >>)
    /\ waitPhase' = [waitPhase EXCEPT ![r] = Phase("dispatch")]
    /\ Goto(r, u, "spin")
    /\ UNCHANGED << setup, turn, layer, mark, handle, rows, handles, shared, open, raised >>

\* Without a static width the host spins until the counts are there; ROCm
\* synchronizes under DBO.  Then the handle, and the compute stream is to wait.
Drained(r) == queue[r].comm = << >>
Synced(r) == (~ setup.static \/ (setup.rocm /\ setup.dbo)) => Drained(r)

Dispatched(r) == put[r].comm

Receive(r, u) ==
    /\ At(r, u, "spin")
    /\ Synced(r)
    /\ handles' = [handles EXCEPT ![r][Slot(u)] = layer[r][u]]
    /\ Mark(r, u, Dispatched(r))
    /\ Goto(r, u, "experts")
    /\ Stay
    /\ UNCHANGED << setup, layer, handle, rows, shared, device, probes, raised >>

\* What rank r received, and so where the output goes: the caller's output when
\* the number of rows is the caller's, else the workspace, or nothing came.
Received(r) ==
    {IF setup.alias THEN "output" ELSE "ws"} \cup (IF r \in setup.dry THEN {"none"} ELSE {})

\* A rank without rows goes on to the combine all the same.
MutAfterExperts(r, u, m) == IF m = "none" THEN "finish" ELSE "combine"
AfterExperts(r, u, m) == "combine"

\* _fused_experts, then _finalize up to the yield; it has read the handle.
Experts(r, u) ==
    /\ At(r, u, "experts")
    /\ \E m \in Received(r) :
        /\ Queue(r, << Op("experts", u, layer[r][u], IF setup.async THEN mark[r][u] ELSE 0, m) >>,
                 << >>)
        /\ rows' = [rows EXCEPT ![r][u] = m]
        /\ Goto(r, u, AfterExperts(r, u, m))
    /\ handle' = [handle EXCEPT ![r][u] = IF setup.async THEN handles[r][Slot(u)] ELSE layer[r][u]]
    /\ raised' = [raised EXCEPT ![r] = handle'[r][u] = None]
    /\ Mark(r, u, put'[r].compute)
    /\ IF setup.async THEN Yield(r, u) ELSE Stay
    /\ UNCHANGED << setup, layer, handles, shared, probes >>

CombineOps(r, u) ==
    LET l == layer[r][u]
        after == IF setup.async THEN mark[r][u] ELSE 0
        combine == Op("combine", u, l, after, << handle[r][u], rows[r][u] >>)
        barrier == Op("barrier", u, l, 0, None)
    IN  IF setup.timer # "barrier" \/ ~ setup.async
        THEN [compute |-> << >>, comm |-> << combine >>]
        ELSE IF setup.dbo THEN [compute |-> << >>, comm |-> << barrier, combine >>]
        ELSE [compute |-> << barrier >>,
              comm |-> << [combine EXCEPT !.after = put[r].compute + 1] >>]

\* The combine, after the timer's barrier if that is asked for.
Combine(r, u) ==
    /\ At(r, u, "combine")
    /\ LET ops == CombineOps(r, u)
       IN  IF setup.async THEN Queue(r, ops.compute, ops.comm)
           ELSE Queue(r, ops.compute \o ops.comm, << >>)
    /\ waitPhase' = [waitPhase EXCEPT ![r] = Phase("combine")]
    /\ Goto(r, u, "finish")
    /\ handle' = [handle EXCEPT ![r][u] = None]
    /\ rows' = [rows EXCEPT ![r][u] = "none"]
    /\ UNCHANGED << setup, turn, layer, mark, handles, shared, open, raised >>

MutCopyAfter(r) == 0
CopyAfter(r) == put[r].comm

\* The shared experts on the compute stream, beside the combine; the receiver's
\* copy on the communication stream under DBO, else on the compute stream behind
\* the combine's event; in the synchronous arm the copy comes first.
Finish(r, u) ==
    /\ At(r, u, "finish")
    /\ setup.rocm /\ setup.dbo => Drained(r)
    /\ LET l == layer[r][u]
           copy(after) == Op("copy", u, l, after, None)
           run == Op("shared", u, l, 0, None)
       IN  /\ IF setup.dbo THEN Queue(r, << run >>, << copy(0) >>)
              ELSE IF ~ setup.async THEN Queue(r, << copy(0), run >>, << >>)
              ELSE IF setup.timer = "sync" THEN Queue(r, << copy(CopyAfter(r)), run >>, << >>)
              ELSE Queue(r, << run, copy(CopyAfter(r)) >>, << >>)
           /\ raised' = [raised EXCEPT ![r] = shared[r][OutputIdx(u)] # None]
           /\ shared' = [shared EXCEPT ![r][OutputIdx(u)] = l]
    /\ Mark(r, u, IF setup.dbo THEN put'[r].comm ELSE 0)
    /\ Yield(r, u)
    /\ Goto(r, u, "sum")
    /\ UNCHANGED << setup, layer, handle, rows, handles, probes >>

\* The runner takes the shared output and adds the halves.  A thread that is
\* through its last layer leaves the turn to the other.
Sum(r, u) ==
    /\ At(r, u, "sum")
    /\ Queue(r, << Op("sum", u, layer[r][u], mark[r][u], None) >>, << >>)
    /\ raised' = [raised EXCEPT ![r] = shared[r][OutputIdx(u)] = None]
    /\ shared' = [shared EXCEPT ![r][OutputIdx(u)] = None]
    /\ open' = [open EXCEPT ![r] = IF Timing THEN SubSeq(@, 1, Len(@) - 1) ELSE @]
    /\ IF layer[r][u] < Layers
       THEN layer' = [layer EXCEPT ![r][u] = @ + 1] /\ Stay /\ Goto(r, u, "start")
       ELSE Yield(r, u) /\ Goto(r, u, "done") /\ UNCHANGED layer
    /\ UNCHANGED << setup, mark, handle, rows, handles, waitPhase >>

Host(r, u) ==
    \/ Start(r, u) \/ Dispatch(r, u) \/ Receive(r, u) \/ Experts(r, u)
    \/ Combine(r, u) \/ Finish(r, u) \/ Sum(r, u)

-----------------------------------------------------------------------------
(* The device.                                                               *)

Ready(r, s) ==
    /\ queue[r][s] # << >>
    /\ Done(r, OtherStream(s)) >= Head(queue[r][s]).after
Holds(r, u, b, l) == mem[r][u][b] = l
If(ok, l) == IF ok THEN l ELSE Bad

\* What operation o leaves in the memory of its microbatch on rank r.
Effect(r, o) ==
    LET u == o.ubatch
        l == o.layer
        m == mem[r][u]
    IN  CASE o.kind = "input" -> [m EXCEPT !.x = If(Holds(r, u, "sum", l - 1), l)]
          [] o.kind = "experts" ->
                IF o.arg = "none" THEN m ELSE [m EXCEPT ![o.arg] = If(Holds(r, u, "recv", l), l)]
          [] o.kind = "copy" -> [m EXCEPT !.output = m.combined]
          [] o.kind = "shared" -> [m EXCEPT !.shared = m.x]
          [] o.kind = "sum" ->
                [m EXCEPT !.sum = If(Holds(r, u, "output", l) /\ Holds(r, u, "shared", l), l),
                          !.ws = None]
          [] o.kind = "dispatch" ->
                [m EXCEPT !.recv = If(\A q \in Ranks : Holds(q, u, "x", l), l)]
          [] o.kind = "barrier" -> m
          [] o.kind = "combine" ->
                [m EXCEPT !.combined = If(\A q \in Ranks :
                    LET a == Head(queue[q][IF setup.async THEN "comm" ELSE "compute"]).arg
                    IN  a[1] = l /\ (a[2] = "none" \/ Holds(q, u, a[2], l)), l)]

Advance(R, s) == queue' = [r \in Ranks |->
    IF r \in R THEN [queue[r] EXCEPT ![s] = Tail(@)] ELSE queue[r]]
Perform(R, s) == mem' = [r \in Ranks |->
    IF r \in R THEN [mem[r] EXCEPT ![Head(queue[r][s]).ubatch] = Effect(r, Head(queue[r][s]))]
    ELSE mem[r]]

Local(r, s) ==
    /\ Ready(r, s)
    /\ Head(queue[r][s]).kind \notin Collectives
    /\ Advance({r}, s) /\ Perform({r}, s)
    /\ UNCHANGED << setup, threads, handles, shared, put, issued, probes, raised >>

Same(o, p) == o.kind = p.kind /\ o.ubatch = p.ubatch /\ o.layer = p.layer
Joint(s) ==
    /\ \A r \in Ranks : Ready(r, s) /\ Head(queue[r][s]).kind \in Collectives
    /\ \A q, r \in Ranks : Same(Head(queue[q][s]), Head(queue[r][s]))
    /\ Advance(Ranks, s) /\ Perform(Ranks, s)
    /\ UNCHANGED << setup, threads, handles, shared, put, issued, probes, raised >>

Finished ==
    /\ \A r \in Ranks : \A u \in Ubatches : pc[r][u] = "done"
    /\ \A r \in Ranks : \A s \in Streams : queue[r][s] = << >>
    /\ UNCHANGED vars

Next ==
    \/ \E r \in Ranks : (\E u \in Ubatches : Host(r, u)) \/ (\E s \in Streams : Local(r, s))
    \/ \E s \in Streams : Joint(s)
    \/ Finished

\* Threads whose turn it is and streams run.
Fairness ==
    /\ \A r \in Ranks :
        /\ \A u \in {0, 1} : WF_vars(u \in Ubatches /\ Host(r, u))
        /\ \A s \in Streams : WF_vars(Local(r, s))
    /\ \A s \in Streams : WF_vars(Joint(s))
Spec == Init /\ [][Next]_vars /\ Fairness

-----------------------------------------------------------------------------
(* Properties.                                                               *)

\* No operation finds a buffer that is not yet, or no longer, that of its own
\* layer: the copies, the combines and the sums read what was made for them,
\* although nothing on the host waits for the device.
ReadsOwnLayer == \A r \in Ranks : \A u \in Ubatches : \A b \in Buffers : mem[r][u][b] # Bad

Short(q, r) == IF Len(issued[q]) < Len(issued[r]) THEN Len(issued[q]) ELSE Len(issued[r])

\* All ranks queue the same collectives in the same order, whatever each of them
\* received and however their threads and streams interleave.
CollectivesAgree ==
    \A q, r \in Ranks : \A i \in 1..Short(q, r) : Same(issued[q][i], issued[r][i])

\* A span that begin opened is closed by the end of the same layer, and the wait
\* of an event is booked on the collective it waits for.
SpansMatch ==
    \A r \in Ranks : \A u \in Ubatches :
        ~ setup.dbo =>
            /\ At(r, u, "sum") /\ Timing =>
                open[r] # << >> /\ open[r][Len(open[r])] = << u, layer[r][u] >>
            /\ At(r, u, "experts") /\ setup.async => waitPhase[r] = "d"
            /\ At(r, u, "finish") => waitPhase[r] = "c"

\* Every thread gets through all its layers, past the assertions of the handle and of
\* the shared output's slot, and every stream drains.
EveryLayerEnds ==
    <> (\A r \in Ranks : /\ \A u \in Ubatches : pc[r][u] = "done"
                         /\ \A s \in Streams : queue[r][s] = << >>)

=============================================================================
