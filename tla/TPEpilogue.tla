------------------------------ MODULE TPEpilogue ------------------------------
(* The tensor-parallel epilogue of the prefill kernel: Phase 3 of every      *)
(* rank, launch after launch, when the all-reduce is fused into it.          *)
(*                                                                           *)
(* On each rank NComp blocks write the rank's partial output, chunk by       *)
(* chunk, and NComm blocks wait for a chunk, meet their peers on the other   *)
(* ranks at a pad, reduce one shard of the chunk through the multicast alias *)
(* and store the sum to every rank.  A last pad, entered by the last block   *)
(* of a rank to finish, tells a rank that its buffer is complete.            *)
(*                                                                           *)
(* Phases 0 to 2 and the grid barriers before Phase 3 are the step Enter:    *)
(* they touch nothing modelled here but the launch's sequence number.        *)
EXTENDS Integers, FiniteSets

CONSTANTS
    World,          \* tp_world
    Grids,          \* grids and builds considered: << NComp, NComm, MaxChunk >>
    NChunks,        \* tp_nchunk arguments considered
    MaxLaunches     \* bound: fused launches in one behaviour

ASSUME EpilogueAssumption ==
    /\ World \in Nat \ {0}
    /\ Grids \subseteq (Nat \ {0}) \X (Nat \ {0}) \X (Nat \ {0})
    /\ NChunks \subseteq Nat
    /\ MaxLaunches \in Nat

VARIABLES
    grid,       \* the grid of every launch, the same on every rank
    chunksOf    \* launch -> its tp_nchunk, the same on every rank

NComp == grid[1]    \* compute blocks of a rank, GRID_SIZE - tp_ncomm
NComm == grid[2]    \* communication blocks of a rank, tp_ncomm
MaxChunk == grid[3] \* TP_MAX_C

Ranks == 0..(World - 1)
CompBlocks == 0..(NComp - 1)
CommBlocks == 0..(NComm - 1)
Chunks == 0..(MaxChunk - 1)
Shards == 0..(World * NComm - 1)

\* A cell is the part of a shard that one compute block writes.
Cells == Chunks \X Shards \X CompBlocks

\* Barrier words of one rank: prefill_wgmma_tp_pad_words.
Pads == 0..(MaxChunk * NComm)

VARIABLES
    launch,     \* rank -> fused launches it has started
    running,    \* ranks whose kernel has not retired
    seqctr,     \* rank -> tp_seqctr, which no launch clears
    seqPub,     \* rank -> tp_seq_pub
    ready,      \* rank -> chunk -> tp_ready
    doneLocal,  \* rank -> tp_done_local
    doneFlag,   \* rank -> tp_done_flag
    pads,       \* rank -> pad -> source rank -> the sequence it arrived with
    buf,        \* rank -> cell -> what the output holds: launch and kind
    inFlight,   \* multimem stores not yet performed at their destination
    comp,       \* rank -> compute block -> its chunk, and whether it is written
    comm        \* rank -> communication block -> its chunk, place, and arrivals sent

words == << seqctr, seqPub, ready, doneLocal, doneFlag, pads >>
fixed == << grid, chunksOf >>
vars == << fixed, launch, running, words, buf, inFlight, comp, comm >>

NC(r) == chunksOf[launch[r]]

-----------------------------------------------------------------------------
(* The host: one fused launch on a rank.                                     *)

\* tp_nchunk outside 1..TP_MAX_C is refused (-110).
Accepts(n) == n \in 1..MaxChunk

Init ==
    /\ grid \in Grids
    /\ chunksOf \in [1..MaxLaunches -> {n \in NChunks : Accepts(n)}]
    /\ launch = [r \in Ranks |-> 0]
    /\ running = {}
    /\ seqctr = [r \in Ranks |-> 0]
    /\ seqPub = [r \in Ranks |-> 0]
    /\ ready = [r \in Ranks |-> [c \in Chunks |-> 0]]
    /\ doneLocal = [r \in Ranks |-> 0]
    /\ doneFlag = [r \in Ranks |-> 0]
    /\ pads = [r \in Ranks |-> [p \in Pads |-> [q \in Ranks |-> 0]]]
    /\ buf = [r \in Ranks |-> [x \in Cells |-> << 0, "part" >>]]
    /\ inFlight = {}
    /\ comp = [r \in Ranks |-> [j \in CompBlocks |-> [chunk |-> 0, wrote |-> FALSE]]]
    /\ comm = [r \in Ranks |-> [k \in CommBlocks |-> [chunk |-> 0, at |-> "ready", sent |-> 0]]]

MutSequence(r) == 1
Sequence(r) == seqctr[r] + 1

MutClear(f, r, zero) == f
Clear(f, r, zero) == [f EXCEPT ![r] = zero]

\* The workspace is zeroed and the kernel of rank r starts, after r's previous
\* one has retired; block 0 takes the next sequence number and publishes it.
Enter(r) ==
    /\ r \notin running
    /\ launch[r] < MaxLaunches
    /\ launch' = [launch EXCEPT ![r] = @ + 1]
    /\ running' = running \cup {r}
    /\ seqctr' = [seqctr EXCEPT ![r] = @ + 1]
    /\ seqPub' = [seqPub EXCEPT ![r] = Sequence(r)]
    /\ ready' = Clear(ready, r, [c \in Chunks |-> 0])
    /\ doneLocal' = Clear(doneLocal, r, 0)
    /\ doneFlag' = Clear(doneFlag, r, 0)
    /\ comp' = [comp EXCEPT ![r] = [j \in CompBlocks |-> [chunk |-> 0, wrote |-> FALSE]]]
    /\ comm' = [comm EXCEPT ![r] =
            [k \in CommBlocks |-> [chunk |-> 0, at |-> "ready", sent |-> 0]]]
    /\ UNCHANGED << fixed, pads, buf, inFlight >>

-----------------------------------------------------------------------------
(* A compute block.                                                          *)

\* Block j writes its part of every shard of the chunk.
Write(r, j) ==
    /\ r \in running
    /\ comp[r][j].chunk < NC(r)
    /\ ~ comp[r][j].wrote
    /\ buf' = [buf EXCEPT ![r] = [x \in Cells |->
            IF x[1] = comp[r][j].chunk /\ x[3] = j THEN << launch[r], "part" >> ELSE @[x]]]
    /\ comp' = [comp EXCEPT ![r][j].wrote = TRUE]
    /\ UNCHANGED << fixed, launch, running, words, inFlight, comm >>

\* __threadfence_system, __syncthreads, atomicAdd(&tp_ready[c], 1), next chunk.
Signal(r, j) ==
    /\ r \in running
    /\ comp[r][j].wrote
    /\ ready' = [ready EXCEPT ![r][comp[r][j].chunk] = @ + 1]
    /\ comp' = [comp EXCEPT ![r][j] = [chunk |-> @.chunk + 1, wrote |-> FALSE]]
    /\ UNCHANGED << fixed, launch, running, seqctr, seqPub, doneLocal, doneFlag, pads,
                    buf, inFlight, comm >>

-----------------------------------------------------------------------------
(* A communication block.                                                    *)

At(r, k, place) == r \in running /\ comm[r][k].at = place
Go(r, k, place) == [comm EXCEPT ![r][k].at = place]

\* The chunk is over on this rank once every compute block has signalled it.
MutEnough(n) == n >= 1
Enough(n) == n >= NComp

AwaitReady(r, k) ==
    /\ At(r, k, "ready")
    /\ Enough(ready[r][comm[r][k].chunk])
    /\ comm' = Go(r, k, "arrive")
    /\ UNCHANGED << fixed, launch, running, words, buf, inFlight, comp >>

\* One pad per chunk and communication block, and one for the end.
MutPad(r, k) == k
Pad(r, k) ==
    IF comm[r][k].chunk = NC(r) THEN NC(r) * NComm ELSE comm[r][k].chunk * NComm + k

\* tp_rank_barrier, first loop: one store to the pad of each rank, in order.
ArriveAt(r, k) ==
    /\ At(r, k, "arrive")
    /\ pads' = [pads EXCEPT ![comm[r][k].sent][Pad(r, k)][r] = seqPub[r]]
    /\ comm' = IF comm[r][k].sent + 1 < World
               THEN [comm EXCEPT ![r][k].sent = @ + 1]
               ELSE [comm EXCEPT ![r][k].sent = 0, ![r][k].at = "await"]
    /\ UNCHANGED << fixed, launch, running, seqctr, seqPub, ready, doneLocal, doneFlag,
                    buf, inFlight, comp >>

\* Second loop: until every rank's arrival shows.  A pad only grows, so the
\* ranks may be awaited together.
AwaitPeers(r, k) ==
    /\ At(r, k, "await")
    /\ \A q \in Ranks : pads[r][Pad(r, k)][q] >= seqPub[r]
    /\ comm' = Go(r, k, IF comm[r][k].chunk = NC(r) THEN "flagset" ELSE "reduce")
    /\ UNCHANGED << fixed, launch, running, words, buf, inFlight, comp >>

MyShard(r, k) == r * NComm + k

\* The multimem load adds up what the ranks' buffers hold at that moment.  It
\* is the wanted sum when that is every rank's partial of this launch.
Reduced(r, x) ==
    IF \A q \in Ranks : buf[q][x] = << launch[r], "part" >>
    THEN << launch[r], "sum" >>
    ELSE << launch[r], "wrong" >>

\* tp_mm_reduce: load and add up the shard, issue its store to every rank, and
\* go on to the next chunk.
Reduce(r, k) ==
    /\ At(r, k, "reduce")
    /\ LET c == comm[r][k].chunk IN
        /\ inFlight' = inFlight \cup
                {[from |-> << r, k >>, to |-> q, chunk |-> c,
                  value |-> [j \in CompBlocks |-> Reduced(r, << c, MyShard(r, k), j >>)]] :
                    q \in Ranks}
        /\ comm' = [comm EXCEPT ![r][k] =
                [chunk |-> c + 1, at |-> IF c + 1 < NC(r) THEN "ready" ELSE "fence", sent |-> 0]]
    /\ UNCHANGED << fixed, launch, running, words, buf, comp >>

\* The stores of a shard reach the ranks one by one, in any order.
Perform(s) ==
    /\ buf' = [buf EXCEPT ![s.to] = [x \in Cells |->
            IF x[1] = s.chunk /\ x[2] = MyShard(s.from[1], s.from[2])
            THEN s.value[x[3]] ELSE @[x]]]
    /\ inFlight' = inFlight \ {s}
    /\ UNCHANGED << fixed, launch, running, words, comp, comm >>

MutFenced(r, k) == TRUE
Fenced(r, k) == \A s \in inFlight : s.from # << r, k >>

\* __threadfence_system, then atomicAdd(&tp_done_local, 1): the last block of
\* the rank goes on to the final pad, the others wait for its flag.
MutLast(r) == doneLocal[r] = NComm
Last(r) == doneLocal[r] = NComm - 1

CountDone(r, k) ==
    /\ At(r, k, "fence")
    /\ Fenced(r, k)
    /\ doneLocal' = [doneLocal EXCEPT ![r] = @ + 1]
    /\ comm' = Go(r, k, IF Last(r) THEN "arrive" ELSE "flagwait")
    /\ UNCHANGED << fixed, launch, running, seqctr, seqPub, ready, doneFlag, pads,
                    buf, inFlight, comp >>

SetFlag(r, k) ==
    /\ At(r, k, "flagset")
    /\ doneFlag' = [doneFlag EXCEPT ![r] = 1]
    /\ comm' = Go(r, k, "done")
    /\ UNCHANGED << fixed, launch, running, seqctr, seqPub, ready, doneLocal, pads,
                    buf, inFlight, comp >>

AwaitFlag(r, k) ==
    /\ At(r, k, "flagwait")
    /\ doneFlag[r] # 0
    /\ comm' = Go(r, k, "done")
    /\ UNCHANGED << fixed, launch, running, words, buf, inFlight, comp >>

\* The kernel of rank r ends when all its blocks have; whatever follows on the
\* stream may then read the output.
Retire(r) ==
    /\ r \in running
    /\ \A j \in CompBlocks : comp[r][j].chunk = NC(r)
    /\ \A k \in CommBlocks : comm[r][k].at = "done"
    /\ running' = running \ {r}
    /\ UNCHANGED << fixed, launch, words, buf, inFlight, comp, comm >>

Compute(r, j) == Write(r, j) \/ Signal(r, j)
Communicate(r, k) ==
    \/ AwaitReady(r, k) \/ ArriveAt(r, k) \/ AwaitPeers(r, k) \/ Reduce(r, k)
    \/ CountDone(r, k) \/ SetFlag(r, k) \/ AwaitFlag(r, k)

\* No rank launches again.
Finished ==
    /\ running = {} /\ inFlight = {}
    /\ \A r \in Ranks : launch[r] = MaxLaunches
    /\ UNCHANGED vars

Next ==
    \/ \E r \in Ranks :
        \/ Enter(r) \/ Retire(r)
        \/ \E j \in CompBlocks : Compute(r, j)
        \/ \E k \in CommBlocks : Communicate(r, k)
    \/ \E s \in inFlight : Perform(s)
    \/ Finished

Spec == Init /\ [][Next]_vars

AnyBlock == UNION {0..(g[1] + g[2] - 1) : g \in Grids}

\* Resident blocks run and stores reach their rank.  A rank need not launch.
Fairness ==
    /\ \A r \in Ranks :
        /\ WF_vars(Retire(r))
        /\ \A b \in AnyBlock :
            /\ WF_vars(b \in CompBlocks /\ Compute(r, b))
            /\ WF_vars(b \in CommBlocks /\ Communicate(r, b))
    /\ WF_vars(\E s \in inFlight : Perform(s))
FairSpec == Spec /\ Fairness

-----------------------------------------------------------------------------
(* Properties.                                                               *)

Values == (0..MaxLaunches) \X {"part", "sum", "wrong"}

TypeOK ==
    /\ grid \in Grids
    /\ chunksOf \in [1..MaxLaunches -> 1..MaxChunk]
    /\ launch \in [Ranks -> 0..MaxLaunches]
    /\ running \subseteq Ranks
    /\ seqctr \in [Ranks -> 0..MaxLaunches]
    /\ seqPub \in [Ranks -> 0..MaxLaunches]
    /\ ready \in [Ranks -> [Chunks -> 0..NComp]]
    /\ doneLocal \in [Ranks -> 0..NComm]
    /\ doneFlag \in [Ranks -> {0, 1}]
    /\ pads \in [Ranks -> [Pads -> [Ranks -> 0..MaxLaunches]]]
    /\ buf \in [Ranks -> [Cells -> Values]]
    /\ inFlight \subseteq [from : Ranks \X CommBlocks, to : Ranks, chunk : Chunks,
                      value : [CompBlocks -> Values]]
    /\ comp \in [Ranks -> [CompBlocks -> [chunk : 0..MaxChunk, wrote : BOOLEAN]]]
    /\ comm \in [Ranks -> [CommBlocks ->
            [chunk : 0..MaxChunk, sent : 0..(World - 1),
             at : {"ready", "arrive", "await", "reduce", "fence", "flagset", "flagwait", "done"}]]]

\* Each shard is added up from every rank's partial of the same launch: never
\* from a partial not yet written, from one of an earlier launch, or from a sum
\* ("each byte is summed exactly once").
SumsRight == \A s \in inFlight : \A j \in CompBlocks : s.value[j][2] = "sum"

\* Cells of the launch that rank r runs or ran last.
UsedCells(r) == {x \in Cells : x[1] < NC(r)}
Complete(r) ==
    /\ launch[r] > 0
    /\ \A x \in UsedCells(r) : buf[r][x] = << launch[r], "sum" >>

\* A rank whose kernel has retired has the whole sum, of finished partials only,
\* and no store of a slower rank is still on its way to it ("the local buffer is
\* complete only once every rank's every communication block has stored its
\* shard").
RetiredComplete ==
    /\ SumsRight
    /\ \A r \in Ranks : launch[r] > 0 /\ r \notin running =>
        /\ Complete(r)
        /\ \A s \in inFlight : s.to # r

\* Rank r's kernel has not retired and its buffer is not complete: the fused
\* collectives behave as all-reduces.
Collective == INSTANCE AbstractAllReduce
    WITH Collectives <- MaxLaunches,
         entered <- launch,
         left <- [r \in Ranks |-> IF r \in running THEN launch[r] - 1 ELSE launch[r]],
         result <- [r \in Ranks |-> IF Complete(r) THEN launch[r] ELSE 0]
ImplementsAllReduce == Collective!Spec

\* The pads are never cleared, yet no rank gets two launches ahead, so a pad
\* never lets a rank through on account of an arrival it does not wait for.
RanksInStep == \A q, r \in Ranks : launch[q] <= launch[r] + 1
NoStaleRelease ==
    \A r \in Ranks : \A k \in CommBlocks : \A q \in Ranks :
        At(r, k, "await") /\ pads[r][Pad(r, k)][q] >= seqPub[r] => launch[q] >= launch[r]

\* The pads of three launches tell them apart though nobody clears them.
PadsSafe == TypeOK /\ RanksInStep /\ NoStaleRelease

\* Once every rank has started its n-th launch, every rank finishes it.
AllRetire ==
    \A n \in 1..MaxLaunches :
        (\A r \in Ranks : launch[r] >= n) ~>
        (\A r \in Ranks : launch[r] > n \/ (launch[r] = n /\ r \notin running))

=============================================================================
