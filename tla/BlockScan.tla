------------------------------ MODULE BlockScan ------------------------------
(* Phase 1b of the prefill kernel in detail: the threads of block 0, one per *)
(* expert, turn the histogram into the offsets and the tile schedule with an *)
(* in-place Hillis-Steele scan in shared memory.  MonoKernel has the phase   *)
(* as the one step Schedule.                                                 *)
(*                                                                           *)
(* A partial sum is represented by the set of experts it adds up, which does *)
(* for the scan of the counts and for the scan of the tile counts at once:   *)
(* both arrays go through the same assignments.                              *)
EXTENDS Integers, FiniteSets, FiniteSetsExt

CONSTANTS
    NumExperts,     \* NUM_EXPERTS, which is also the number of threads
    TopK,           \* TOP_K
    MaxTokens,      \* bound: tokens of a launch
    BlockMs,        \* block_m arguments considered
    MaxTiles        \* MAX_TILES

ASSUME ScanAssumption ==
    /\ NumExperts \in Nat \ {0}
    /\ TopK \in Nat \ {0}
    /\ MaxTokens \in Nat
    /\ BlockMs \subseteq Nat \ {0}
    /\ MaxTiles \in Nat

Experts == 0..(NumExperts - 1)

VARIABLES
    tokens,     \* num_tokens
    blockM,     \* block_m
    counts,     \* expert_counts, as Phase 0 left it
    round,      \* thread -> the __syncthreads it makes next
    inside,     \* threads waiting in __syncthreads
    stage,      \* thread -> the code it runs next
    dist,       \* thread -> d
    sums,       \* sc[e] and st[e]: the experts added up so far
    loaded,     \* vc and vt of each thread
    offsets,    \* expert_offsets
    total,      \* total_tiles
    tiles       \* entries written to tile_expert and tile_row_start

launch == << tokens, blockM, counts >>
sync == << round, inside >>
result == << offsets, total, tiles >>
scanVars == << launch, sync, stage, dist, sums, loaded, result >>

\* The __syncthreads of the block: two a doubling of d, and one before them.
Sync == INSTANCE AbstractBarrier
    WITH Blocks <- Experts, IdOf <- [e \in Experts |-> 0], Calls <- 2 * NumExperts + 1

\* numel / block_m + NUM_EXPERTS > MAX_TILES is refused (-102).
MutAccepts(n, m) == TRUE
Accepts(n, m) == (n * TopK) \div m + NumExperts <= MaxTiles

TotalOf(f, S) == MapThenSumSet(LAMBDA e : f[e], S)

\* The histograms Phase 0 can leave: an expert is chosen at most once a token,
\* and under expert parallelism some slots count nowhere.
Histograms(n) ==
    {h \in [Experts -> 0..n] : TotalOf(h, Experts) <= n * TopK}

TilesOf == [e \in Experts |-> (counts[e] + blockM - 1) \div blockM]

\* Shared memory starts with what earlier phases left there: -1 stands for it.
ScanInit ==
    /\ tokens \in 1..MaxTokens
    /\ blockM \in BlockMs
    /\ Accepts(tokens, blockM)
    /\ counts \in Histograms(tokens)
    /\ round = [e \in Experts |-> 1]
    /\ inside = {}
    /\ stage = [e \in Experts |-> "start"]
    /\ dist = [e \in Experts |-> 1]
    /\ sums = [e \in Experts |-> {-1}]
    /\ loaded = [e \in Experts |-> {}]
    /\ offsets = [e \in 0..NumExperts |-> 0]
    /\ total = 0
    /\ tiles = {}

At(e, label) == stage[e] = label /\ e \notin inside
GoOn(d) == IF d < NumExperts THEN "load" ELSE "publish"

\* sc[e] = cnt; st[e] = tiles_e; __syncthreads()
Start(e) ==
    /\ At(e, "start")
    /\ sums' = [sums EXCEPT ![e] = {e}]
    /\ stage' = [stage EXCEPT ![e] = GoOn(dist[e])]
    /\ Sync!Arrive(e)
    /\ UNCHANGED << dist, loaded, launch, result >>

\* vc = (e >= d) ? sc[e - d] : 0; __syncthreads()
MutLower(e) == IF e > dist[e] THEN sums[e - dist[e]] ELSE {}
Lower(e) == IF e >= dist[e] THEN sums[e - dist[e]] ELSE {}

Load(e) ==
    /\ At(e, "load")
    /\ loaded' = [loaded EXCEPT ![e] = Lower(e)]
    /\ stage' = [stage EXCEPT ![e] = "add"]
    /\ Sync!Arrive(e)
    /\ UNCHANGED << dist, sums, launch, result >>

\* sc[e] += vc; __syncthreads(); d <<= 1
MutNextDist(d) == d
NextDist(d) == 2 * d

Add(e) ==
    /\ At(e, "add")
    /\ sums' = [sums EXCEPT ![e] = @ \cup loaded[e]]
    /\ dist' = [dist EXCEPT ![e] = NextDist(@)]
    /\ stage' = [stage EXCEPT ![e] = GoOn(NextDist(dist[e]))]
    /\ Sync!Arrive(e)
    /\ UNCHANGED << loaded, launch, result >>

Leave(e) ==
    /\ Sync!Leave(e)
    /\ UNCHANGED << stage, dist, sums, loaded, launch, result >>

\* off_e = sc[e] - cnt; tbase = st[e] - tiles_e
MutExclusive(f, e) == TotalOf(f, sums[e])
Exclusive(f, e) == TotalOf(f, sums[e]) - f[e]

Entries(e) ==
    {[at |-> Exclusive(TilesOf, e) + i,
      expert |-> e,
      row0 |-> Exclusive(counts, e) + i * blockM] : i \in 0..(TilesOf[e] - 1)}

\* After the last __syncthreads a thread writes its own part of the result; the
\* last expert's thread also writes the end of the offsets and the total.
Publish(e) ==
    /\ At(e, "publish")
    /\ offsets' = [x \in 0..NumExperts |->
            CASE x = e -> Exclusive(counts, e)
              [] x = NumExperts /\ e = NumExperts - 1 -> Exclusive(counts, e) + counts[e]
              [] OTHER -> offsets[x]]
    /\ total' = IF e = NumExperts - 1 THEN Exclusive(TilesOf, e) + TilesOf[e] ELSE total
    /\ tiles' = tiles \cup Entries(e)
    /\ stage' = [stage EXCEPT ![e] = "done"]
    /\ UNCHANGED << dist, sums, loaded, launch, sync >>

ScanDone == \A e \in Experts : stage[e] = "done"

Thread(e) == Start(e) \/ Load(e) \/ Add(e) \/ Leave(e) \/ Publish(e)

ScanNext ==
    \/ \E e \in Experts : Thread(e)
    \/ ScanDone /\ UNCHANGED scanVars

ScanSpec == ScanInit /\ [][ScanNext]_scanVars

-----------------------------------------------------------------------------
(* Properties.                                                               *)

ScanTypeOK ==
    /\ tokens \in 1..MaxTokens
    /\ blockM \in BlockMs
    /\ counts \in [Experts -> Nat]
    /\ round \in [Experts -> 1..(2 * NumExperts + 1)]
    /\ inside \subseteq Experts
    /\ stage \in [Experts -> {"start", "load", "add", "publish", "done"}]
    /\ dist \in [Experts -> Nat \ {0}]
    /\ sums \in [Experts -> SUBSET (Experts \cup {-1})]
    /\ loaded \in [Experts -> SUBSET (Experts \cup {-1})]
    /\ offsets \in [0..NumExperts -> Nat]
    /\ total \in Nat
    /\ \A t \in tiles : t.expert \in Experts /\ {t.at, t.row0} \subseteq Nat

\* The in-place scan is free of races: while a thread has still to add what it
\* loaded, that is the sum of the window just below its own, so no count is
\* added twice or skipped, whichever thread is ahead of which.
Window(e, d) == {x \in Experts : e - d < x /\ x <= e}
NoDoubleCount ==
    \A e \in Experts :
        /\ stage[e] # "start" => sums[e] = Window(e, dist[e])
        /\ stage[e] = "add" => loaded[e] = {x \in Experts : e - 2 * dist[e] < x /\ x <= e - dist[e]}

\* The scan in shared memory gives what the serial loop would: exclusive
\* prefix sums, "byte-identical output to the old serial loop".
Below(e) == 0..(e - 1)
OffsetsExact ==
    /\ \A e \in Experts : stage[e] = "done" => offsets[e] = TotalOf(counts, Below(e))
    /\ ScanDone => /\ offsets[NumExperts] = TotalOf(counts, Experts)
               /\ total = TotalOf(TilesOf, Experts)

\* No thread writes past MAX_TILES or over another thread's entry, and in the
\* end the entries are 0..total_tiles-1 without a gap.
TilesFit ==
    /\ \A t \in tiles : t.at < MaxTiles
    /\ \A t, u \in tiles : t.at = u.at => t = u
    /\ ScanDone => {t.at : t \in tiles} = 0..(total - 1)

\* The parallel scan is the serial loop, at every step and at its end.
ScanExact == ScanTypeOK /\ NoDoubleCount /\ OffsetsExact /\ TilesFit

\* The block gets through: no thread is left waiting in a __syncthreads that
\* another has skipped.
ScanEnds == (\E e \in Experts : stage[e] # "start") ~> ScanDone

=============================================================================
