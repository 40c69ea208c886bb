------------------------------- MODULE SymmPool -------------------------------
(* The symmetric output pool of the fused epilogue (symm_output_pool.py) and *)
(* the launches that use it (fused_tp_launch).  The pool is made once, at    *)
(* weight load: an output buffer per microbatch, which all ranks see, the    *)
(* pads of the rank barrier and the sequence counter.  From then on nothing  *)
(* but the order of the streams protects it: the pads are zeroed with no     *)
(* barrier behind it, the microbatches share them, and a replayed graph      *)
(* repeats the pointers that it captured.                                    *)
(*                                                                           *)
(* A rank is its compute stream, which runs the steps of a program in order. *)
(* Inside a launch TPEpilogue is abstracted to one barrier before the sums   *)
(* and one after them.                                                       *)
EXTENDS Naturals, Sequences, FiniteSets

CONSTANTS
    Ranks,
    NumUbatches,    \* ParallelConfig.num_ubatches, which is nslots
    NumLayers,
    NumForwards,    \* bound: the forward that is captured, and its replays
    Garbage         \* what an allocation may hold

ASSUME PoolAssumption ==
    /\ {NumUbatches, NumLayers, NumForwards} \subseteq Nat \ {0}
    /\ Garbage \in Nat

Ubatches == 0..(NumUbatches - 1)

VARIABLES
    order,      \* the turns of the microbatches in a forward, the same on all ranks
    pc,         \* rank -> the step its stream is at
    stage,      \* rank -> where in a launch: idle, sum, done
    pads,       \* rank -> rank -> what that one last wrote in this one's two pads
    seqctr,     \* rank -> the sequence counter
    out         \* rank -> slot -> the launch whose terms it holds, and shards

poolVars == << order, pc, stage, pads, seqctr, out >>

-----------------------------------------------------------------------------
(* The program of a stream.                                                  *)

\* A layer, for a microbatch: the attention and its all-reduce, the fused launch, and
\* the residual add that reads the launch's output.
Kinds == << "reduce", "launch", "use" >>
StepsEach == NumLayers * Len(Kinds)

\* The k-th step of a microbatch.
StepOf(u, k, f) ==
    [kind |-> Kinds[((k - 1) % Len(Kinds)) + 1], ubatch |-> u,
     layer |-> (k - 1) \div Len(Kinds), forward |-> f]

\* The turns that microbatch u has had when turn i is over.
TurnsOf(t, u, i) == Cardinality({j \in 1..i : t[j] = u})

ForwardLen == NumUbatches * StepsEach
Turns == {t \in [1..ForwardLen -> Ubatches] :
            \A u \in Ubatches : TurnsOf(t, u, ForwardLen) = StepsEach}

\* Step p of the stream: the zeroing of the pads, then the forwards.  A replay repeats
\* the captured order.
ProgramLen == 1 + NumForwards * ForwardLen
Step(p) ==
    IF p = 1 THEN [kind |-> "zero", ubatch |-> 0, layer |-> 0, forward |-> 0]
    ELSE LET i == ((p - 2) % ForwardLen) + 1
             u == order[i]
         IN StepOf(u, TurnsOf(order, u, i), (p - 2) \div ForwardLen + 1)

At(r, kind) == pc[r] <= ProgramLen /\ Step(pc[r]).kind = kind

-----------------------------------------------------------------------------
(* The launch and its pool.                                                  *)

\* _FusedTPPlan.slot: the microbatch that has the turn.
MutSlot(item) == 0
Slot(item) == item.ubatch

\* A launch is told from all others by its layer, microbatch and forward.
Tag(item) == << item.layer, item.ubatch, item.forward >>
Nothing == << >>
NoShards == [r \in Ranks |-> Nothing]

\* The sequence of a launch, from the counter on the device.
LaunchSeq(r, item) == seqctr[r] + 1

\* The pads are "never cleared again".
NoArrivals == [q \in Ranks |-> << 0, 0 >>]
MutCleared(r) == NoArrivals
Cleared(r) == pads[r]

PoolInit ==
    /\ order \in Turns
    /\ pc = [r \in Ranks |-> 1]
    /\ stage = [r \in Ranks |-> "idle"]
    /\ pads \in [Ranks -> {[q \in Ranks |-> << g, g >>] : g \in {0, Garbage}}]
    /\ seqctr = [r \in Ranks |-> 0]
    /\ out = [r \in Ranks |-> [s \in Ubatches |-> [terms |-> Nothing, shards |-> NoShards]]]

Advance(r) == pc' = [pc EXCEPT ![r] = @ + 1]

\* The rank's pads, after the rendezvous.
Zero(r) ==
    /\ At(r, "zero")
    /\ pads' = [pads EXCEPT ![r] = NoArrivals]
    /\ Advance(r)
    /\ UNCHANGED << order, stage, seqctr, out >>

\* An all-reduce ends on a rank when every rank has come to it.
Reduce(r) ==
    /\ At(r, "reduce")
    /\ \A q \in Ranks : pc[q] >= pc[r]
    /\ Advance(r)
    /\ UNCHANGED << order, stage, pads, seqctr, out >>

\* The terms of the rank are in its own slot, and it says so to all.
Start(r) ==
    /\ At(r, "launch") /\ stage[r] = "idle"
    /\ LET item == Step(pc[r])
           cleared == [pads EXCEPT ![r] = Cleared(r)]
       IN /\ out' = [out EXCEPT ![r][Slot(item)] =
                        [terms |-> Tag(item), shards |-> NoShards]]
          /\ pads' = [q \in Ranks |-> [cleared[q] EXCEPT ![r][1] = LaunchSeq(r, item)]]
          /\ stage' = [stage EXCEPT ![r] = "sum"]
    /\ UNCHANGED << order, pc, seqctr >>

\* The barriers before and after the sums have a pad each.
Met(r, pad) == \A q \in Ranks : pads[r][q][pad] >= LaunchSeq(r, Step(pc[r]))

\* The rank sums its shard over the terms of all, and stores it on all.
Sum(r) ==
    /\ stage[r] = "sum" /\ Met(r, 1)
    /\ LET item == Step(pc[r])
           s == Slot(item)
           sum == IF \A q \in Ranks : out[q][s].terms = Tag(item) THEN Tag(item) ELSE Nothing
       IN /\ out' = [q \in Ranks |-> [out[q] EXCEPT ![s].shards[r] = sum]]
          /\ pads' = [q \in Ranks |-> [pads[q] EXCEPT ![r][2] = LaunchSeq(r, item)]]
    /\ stage' = [stage EXCEPT ![r] = "done"]
    /\ UNCHANGED << order, pc, seqctr >>

Finish(r) ==
    /\ stage[r] = "done" /\ Met(r, 2)
    /\ stage' = [stage EXCEPT ![r] = "idle"]
    /\ seqctr' = [seqctr EXCEPT ![r] = @ + 1]
    /\ Advance(r)
    /\ UNCHANGED << order, pads, out >>

\* The residual add reads the slot.
Use(r) ==
    /\ At(r, "use")
    /\ Advance(r)
    /\ UNCHANGED << order, stage, pads, seqctr, out >>

RankStep(r) == Zero(r) \/ Reduce(r) \/ Start(r) \/ Sum(r) \/ Finish(r) \/ Use(r)

Served == \A r \in Ranks : pc[r] > ProgramLen

PoolNext == (\E r \in Ranks : RankStep(r)) \/ (Served /\ UNCHANGED poolVars)

PoolSpec == PoolInit /\ [][PoolNext]_poolVars

\* Every stream runs.
FairPoolSpec == PoolSpec /\ \A r \in Ranks : WF_poolVars(RankStep(r))

-----------------------------------------------------------------------------
(* Properties.                                                               *)

\* The launch whose output the rank's next step reads.
LaunchOf(r) == Tag([Step(pc[r]) EXCEPT !.kind = "launch"])

\* A residual add reads the sums of its own launch, all of them and over the terms of
\* all ranks, for as long as it may read: no other microbatch, later layer or early
\* release touches the slot before.
OutputIntact ==
    \A r \in Ranks : At(r, "use") =>
        \A q \in Ranks : out[r][Slot(Step(pc[r]))].shards[q] = LaunchOf(r)

\* All forwards end on all ranks: no arrival is lost in pads that are zeroed after it,
\* and no launch waits for a sequence that does not come.
AllServed == <>Served

=============================================================================
