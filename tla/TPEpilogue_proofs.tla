-------------------------- MODULE TPEpilogue_proofs ---------------------------
(* TLAPS proofs about TPEpilogue, for any number of ranks, blocks, chunks and *)
(* launches: the pads, which no launch clears, never release a rank on an old *)
(* arrival; a rank whose kernel retires holds the whole sum; and the launches *)
(* behave as all-reduces.                                                     *)
EXTENDS TPEpilogue, FiniteSetTheorems, TLAPS

-----------------------------------------------------------------------------
(* The inductive invariant.                                                  *)

Block == [chunk : 0..MaxChunk, sent : 0..(World - 1),
          at : {"ready", "arrive", "await", "reduce", "fence", "flagset", "flagwait", "done"}]

\* Where a communication block can be in a launch of n chunks.
Placed(b, n) ==
    /\ b.chunk <= n
    /\ b.at \in {"ready", "reduce"} => b.chunk < n
    /\ b.at \in {"fence", "flagset", "flagwait", "done"} => b.chunk = n

\* The block has added itself to tp_done_local.
Counted(b, n) ==
    \/ b.at \in {"flagset", "flagwait", "done"}
    \/ b.at \in {"arrive", "await"} /\ b.chunk = n

\* The block has been let through a pad in this launch.
Through(b) == b.chunk >= 1 \/ b.at = "reduce"

Signalled(r, c) == {j \in CompBlocks : comp[r][j].chunk > c}
CountedSet(r) == {k \in CommBlocks : Counted(comm[r][k], NC(r))}

\* The sequence numbers count the launches, and an arrival carries one of its
\* sender's.
Numbered ==
    /\ \A r \in Ranks : seqctr[r] = launch[r] /\ seqPub[r] = launch[r]
    /\ \A r \in Ranks : \A p \in Pads : \A q \in Ranks : pads[r][p][q] <= launch[q]

BlocksPlaced ==
    \A r \in running :
        /\ launch[r] >= 1
        /\ \A j \in CompBlocks : /\ comp[r][j].chunk <= NC(r)
                                 /\ comp[r][j].wrote => comp[r][j].chunk < NC(r)
        /\ \A k \in CommBlocks : Placed(comm[r][k], NC(r))

\* A block that a pad has let through has met every rank in this launch; and
\* every block of a rank that has retired was let through one.
Met ==
    \A r \in Ranks : \A k \in CommBlocks :
        /\ Through(comm[r][k]) => \A q \in Ranks : launch[q] >= launch[r]
        /\ r \notin running /\ launch[r] >= 1 => Through(comm[r][k])

CountsRight ==
    /\ \A r \in Ranks : \A c \in Chunks : ready[r][c] = Cardinality(Signalled(r, c))
    /\ \A r \in running : doneLocal[r] = Cardinality(CountedSet(r))

IInv == TypeOK /\ Numbered /\ BlocksPlaced /\ Met /\ CountsRight /\ RanksInStep

-----------------------------------------------------------------------------
(* Lemmas.                                                                   *)

LEMMA GridFacts ==
    ASSUME TypeOK
    PROVE  /\ NComp \in Nat \ {0} /\ NComm \in Nat \ {0} /\ MaxChunk \in Nat \ {0}
           /\ World \in Nat \ {0} /\ MaxLaunches \in Nat
  BY EpilogueAssumption DEF TypeOK, NComp, NComm, MaxChunk

LEMMA ChunkCount ==
    ASSUME IInv, NEW r \in running
    PROVE  NC(r) \in 1..MaxChunk /\ r \in Ranks /\ launch[r] \in 1..MaxLaunches
<1>1. r \in Ranks /\ launch[r] \in 1..MaxLaunches
  BY EpilogueAssumption DEF IInv, TypeOK, BlocksPlaced
<1> QED
  BY <1>1 DEF IInv, TypeOK, NC

\* A part of the blocks is at most all of them.
LEMMA PartSize ==
    ASSUME NEW n \in Nat, NEW S \in SUBSET (0..(n - 1))
    PROVE  IsFiniteSet(S) /\ Cardinality(S) \in 0..n
<1>1. IsFiniteSet(0..(n - 1)) /\ Cardinality(0..(n - 1)) = n
  BY FS_Interval
<1>2. IsFiniteSet(S) /\ Cardinality(S) <= n
  BY <1>1, FS_Subset
<1> QED
  BY <1>2, FS_CardinalityType

LEMMA OneMore ==
    ASSUME NEW n \in Nat, NEW S \in SUBSET (0..(n - 1)), NEW x \in (0..(n - 1)) \ S
    PROVE  Cardinality(S \cup {x}) = Cardinality(S) + 1 /\ Cardinality(S) + 1 \in 0..n
<1>1. IsFiniteSet(S)
  BY PartSize
<1>2. Cardinality(S \cup {x}) = Cardinality(S) + 1
  BY <1>1, FS_AddElement
<1>3. Cardinality(S \cup {x}) \in 0..n
  BY PartSize
<1> QED
  BY <1>2, <1>3

\* The state of a block, and what the invariant says of it.
LEMMA BlockFacts ==
    ASSUME IInv, NEW r \in running, NEW k \in CommBlocks
    PROVE  /\ r \in Ranks /\ NC(r) \in 1..MaxChunk /\ MaxChunk \in Nat
           /\ comm[r][k] \in Block /\ Placed(comm[r][k], NC(r))
           /\ Through(comm[r][k]) => \A q \in Ranks : launch[q] >= launch[r]
<1>1. r \in Ranks /\ NC(r) \in 1..MaxChunk
  BY ChunkCount
<1>2. comm[r][k] \in Block
  BY <1>1 DEF IInv, TypeOK, Block
<1>3. Placed(comm[r][k], NC(r))
  BY DEF IInv, BlocksPlaced
<1>4. Through(comm[r][k]) => \A q \in Ranks : launch[q] >= launch[r]
  BY <1>1 DEF IInv, Met
<1> QED
  BY <1>1, <1>2, <1>3, <1>4, GridFacts DEF IInv

LEMMA PadInRange ==
    ASSUME IInv, NEW r \in running, NEW k \in CommBlocks
    PROVE  Pad(r, k) \in Pads
<1> DEFINE c == comm[r][k].chunk
<1>1. c \in Nat /\ c <= NC(r) /\ NC(r) \in 1..MaxChunk
  BY BlockFacts DEF Placed, Block
<1>2. NComm \in Nat \ {0} /\ MaxChunk \in Nat \ {0} /\ k \in 0..(NComm - 1)
  BY GridFacts DEF IInv, CommBlocks
<1> HIDE DEF c
<1>3. CASE c = NC(r)
  <2>1. NC(r) * NComm \in 0..(MaxChunk * NComm)
    BY <1>1, <1>2
  <2> QED
    BY <2>1, <1>3 DEF Pad, Pads, c
<1>4. CASE c # NC(r)
  <2>1. c + 1 <= MaxChunk
    BY <1>1, <1>2, <1>4
  <2>2. (c + 1) * NComm <= MaxChunk * NComm /\ (c + 1) * NComm = c * NComm + NComm
    BY <2>1, <1>1, <1>2
  <2>3. c * NComm \in Nat /\ MaxChunk * NComm \in Nat
    BY <1>1, <1>2
  <2>4. c * NComm + k \in 0..(MaxChunk * NComm)
    BY <2>2, <2>3, <1>2
  <2> QED
    BY <2>4, <1>4 DEF Pad, Pads, c
<1> QED
  BY <1>3, <1>4

LEMMA InvariantSuffices == IInv => PadsSafe
<1> SUFFICES ASSUME IInv
             PROVE  PadsSafe
  OBVIOUS
<1>1. NoStaleRelease
  <2> SUFFICES ASSUME NEW r \in Ranks, NEW k \in CommBlocks, NEW q \in Ranks,
                      At(r, k, "await"), pads[r][Pad(r, k)][q] >= seqPub[r]
               PROVE  launch[q] >= launch[r]
    BY DEF NoStaleRelease
  <2>1. Pad(r, k) \in Pads
    BY PadInRange DEF At
  <2>2. pads[r][Pad(r, k)][q] <= launch[q] /\ pads[r][Pad(r, k)][q] \in Nat
    BY <2>1 DEF IInv, TypeOK, Numbered
  <2> QED
    BY <2>2 DEF IInv, TypeOK, Numbered
<1> QED
  BY <1>1 DEF IInv, PadsSafe

-----------------------------------------------------------------------------
(* The start.                                                                *)

LEMMA Initially == Init => IInv
<1> SUFFICES ASSUME Init
             PROVE  IInv
  OBVIOUS
<1>1. TypeOK
  <2>1. grid \in Grids /\ NComp \in Nat \ {0} /\ NComm \in Nat \ {0} /\ MaxChunk \in Nat \ {0}
    BY EpilogueAssumption DEF Init, NComp, NComm, MaxChunk
  <2>2. chunksOf \in [1..MaxLaunches -> 1..MaxChunk]
    BY DEF Init, Accepts
  <2>3. /\ launch \in [Ranks -> 0..MaxLaunches] /\ running \subseteq Ranks
        /\ seqctr \in [Ranks -> 0..MaxLaunches] /\ seqPub \in [Ranks -> 0..MaxLaunches]
        /\ ready \in [Ranks -> [Chunks -> 0..NComp]]
        /\ doneLocal \in [Ranks -> 0..NComm] /\ doneFlag \in [Ranks -> {0, 1}]
    BY <2>1, EpilogueAssumption DEF Init
  <2>4. /\ pads \in [Ranks -> [Pads -> [Ranks -> 0..MaxLaunches]]]
        /\ buf \in [Ranks -> [Cells -> Values]]
    BY EpilogueAssumption DEF Init, Values
  <2>5. /\ comp \in [Ranks -> [CompBlocks -> [chunk : 0..MaxChunk, wrote : BOOLEAN]]]
        /\ comm \in [Ranks -> [CommBlocks -> Block]]
    BY <2>1, EpilogueAssumption DEF Init, Block
  <2> QED
    BY <2>1, <2>2, <2>3, <2>4, <2>5 DEF Init, TypeOK, Block
<1>2. Numbered /\ RanksInStep
  BY DEF Init, Numbered, RanksInStep
<1>3. BlocksPlaced
  BY DEF Init, BlocksPlaced
<1>4. Met
  BY DEF Init, Met, Through
<1>5. CountsRight
  <2>1. \A r \in Ranks : \A c \in Chunks : Signalled(r, c) = {}
    BY GridFacts, <1>1 DEF Init, Signalled, Chunks
  <2> QED
    BY <2>1, FS_EmptySet DEF Init, CountsRight
<1> QED
  BY <1>1, <1>2, <1>3, <1>4, <1>5 DEF IInv

-----------------------------------------------------------------------------
(* A step of one communication block, whichever it is.                       *)

Store == [from : Ranks \X CommBlocks, to : Ranks, chunk : Chunks,
          value : [CompBlocks -> Values]]

LEMMA SameGrid ==
    ASSUME UNCHANGED fixed
    PROVE  /\ NComp' = NComp /\ NComm' = NComm /\ MaxChunk' = MaxChunk
           /\ CompBlocks' = CompBlocks /\ CommBlocks' = CommBlocks /\ Chunks' = Chunks
           /\ Cells' = Cells /\ Pads' = Pads /\ Store' = Store /\ Block' = Block
  BY DEF fixed, NComp, NComm, MaxChunk, CompBlocks, CommBlocks, Chunks, Shards, Cells, Pads,
         Store, Block

LEMMA BlockMoves ==
    ASSUME IInv, UNCHANGED << fixed, launch, running, seqctr, seqPub, ready, buf, comp >>,
           NEW r \in running, NEW k \in CommBlocks, NEW b \in Block,
           comm' = [comm EXCEPT ![r][k] = b],
           Placed(b, NC(r)),
           Through(b) => \A q \in Ranks : launch[q] >= launch[r],
           \/ /\ doneLocal' = doneLocal
              /\ Counted(b, NC(r)) <=> Counted(comm[r][k], NC(r))
           \/ /\ doneLocal' = [doneLocal EXCEPT ![r] = @ + 1]
              /\ Counted(b, NC(r)) /\ ~ Counted(comm[r][k], NC(r)),
           doneFlag' \in [Ranks -> {0, 1}],
           pads' \in [Ranks -> [Pads -> [Ranks -> 0..MaxLaunches]]],
           \A d \in Ranks : \A p \in Pads : \A q \in Ranks : pads'[d][p][q] <= launch[q],
           inFlight' \subseteq Store
    PROVE  IInv'
<1>1. r \in Ranks /\ NC(r) \in 1..MaxChunk
  BY ChunkCount
<1>2. /\ \A q : NC(q)' = NC(q)
      /\ comm \in [Ranks -> [CommBlocks -> Block]]
      /\ comm'[r][k] = b
      /\ \A q \in Ranks : \A i \in CommBlocks : << q, i >> # << r, k >> => comm'[q][i] = comm[q][i]
  <2>1. comm \in [Ranks -> [CommBlocks -> Block]]
    BY DEF IInv, TypeOK, Block
  <2>2. \A q : NC(q)' = NC(q)
    BY DEF NC, fixed
  <2> QED
    BY <1>1, <2>1, <2>2
<1>3. \A q \in running : q # r => CountedSet(q)' = CountedSet(q)
  BY <1>2, SameGrid DEF CountedSet, Counted, IInv, TypeOK
<1>4. /\ \A q \in running : doneLocal'[q] = Cardinality(CountedSet(q)')
      /\ doneLocal' \in [Ranks -> 0..NComm]
  <2>1. doneLocal \in [Ranks -> 0..NComm] /\ running \subseteq Ranks /\ NComm \in Nat \ {0}
    BY GridFacts DEF IInv, TypeOK
  <2>2. \A q \in running : doneLocal[q] = Cardinality(CountedSet(q))
    BY DEF IInv, CountsRight
  <2>3. CASE /\ doneLocal' = doneLocal
             /\ Counted(b, NC(r)) <=> Counted(comm[r][k], NC(r))
    <3>1. CountedSet(r)' = CountedSet(r)
      BY <1>1, <1>2, <2>3, SameGrid DEF CountedSet, Counted
    <3> QED
      BY <1>3, <2>1, <2>2, <2>3, <3>1
  <2>4. CASE /\ doneLocal' = [doneLocal EXCEPT ![r] = @ + 1]
             /\ Counted(b, NC(r)) /\ ~ Counted(comm[r][k], NC(r))
    <3>1. CountedSet(r)' = CountedSet(r) \cup {k}
      BY <1>1, <1>2, <2>4, SameGrid DEF CountedSet, Counted
    <3>2. k \notin CountedSet(r) /\ CountedSet(r) \subseteq CommBlocks
      BY <2>4 DEF CountedSet
    <3>3. /\ Cardinality(CountedSet(r) \cup {k}) = Cardinality(CountedSet(r)) + 1
          /\ Cardinality(CountedSet(r)) + 1 \in 0..NComm
      BY <2>1, <3>2, OneMore DEF CommBlocks
    <3>4. doneLocal'[r] = Cardinality(CountedSet(r)') /\ doneLocal'[r] \in 0..NComm
      BY <1>1, <2>1, <2>2, <2>4, <3>1, <3>3
    <3>5. \A q \in Ranks : q # r => doneLocal'[q] = doneLocal[q]
      BY <2>4, <2>1
    <3>6. \A q \in running : doneLocal'[q] = Cardinality(CountedSet(q)')
      BY <1>3, <2>1, <2>2, <3>4, <3>5
    <3> QED
      BY <2>1, <2>4, <3>4, <3>5, <3>6
  <2> QED
    BY <2>3, <2>4
<1>5. TypeOK'
  <2>1. comm' \in [Ranks -> [CommBlocks -> Block]]
    BY <1>1, <1>2
  <2> QED
    BY <1>4, <2>1, SameGrid DEF IInv, TypeOK, Block, Store, fixed
<1>6. Numbered'
  BY SameGrid DEF IInv, Numbered
<1>7. BlocksPlaced'
  <2>1. /\ BlocksPlaced /\ running \subseteq Ranks
        /\ running' = running /\ launch' = launch /\ comp' = comp
    BY DEF IInv, TypeOK
  <2>2. \A q \in running : \A i \in CommBlocks : Placed(comm'[q][i], NC(q))
    <3> SUFFICES ASSUME NEW q \in running, NEW i \in CommBlocks
                 PROVE  Placed(comm'[q][i], NC(q))
      OBVIOUS
    <3>1. CASE << q, i >> = << r, k >>
      BY <1>2, <3>1
    <3>2. CASE << q, i >> # << r, k >>
      BY <1>2, <2>1, <3>2 DEF BlocksPlaced
    <3> QED
      BY <3>1, <3>2
  <2>3. \A q \in running : \A i \in CommBlocks : Placed(comm[q][i], NC(q))'
    BY <1>2, <2>1, <2>2, SameGrid DEF Placed
  <2> QED
    BY <1>2, <2>1, <2>3, SameGrid DEF BlocksPlaced
<1>8. Met'
  <2>1. Met
    BY DEF IInv
  <2>2. r \in running' /\ launch' = launch
    OBVIOUS
  <2> QED
    BY <1>1, <1>2, <2>1, <2>2, SameGrid DEF Met, Through
<1>9. CountsRight'
  <2>1. \A q \in Ranks : \A c \in Chunks : Signalled(q, c)' = Signalled(q, c)
    BY SameGrid DEF Signalled
  <2> QED
    BY <1>4, <2>1, SameGrid DEF IInv, CountsRight
<1>10. RanksInStep'
  BY DEF IInv, RanksInStep
<1> QED
  BY <1>5, <1>6, <1>7, <1>8, <1>9, <1>10 DEF IInv

\* What a step that leaves the words alone keeps of them.
LEMMA WordFacts ==
    ASSUME IInv
    PROVE  /\ doneFlag \in [Ranks -> {0, 1}]
           /\ pads \in [Ranks -> [Pads -> [Ranks -> 0..MaxLaunches]]]
           /\ \A d \in Ranks : \A p \in Pads : \A q \in Ranks : pads[d][p][q] <= launch[q]
           /\ inFlight \subseteq Store
  BY DEF IInv, TypeOK, Numbered, Store

LEMMA StepAwaitReady ==
    ASSUME IInv, NEW r \in Ranks, NEW k \in CommBlocks, AwaitReady(r, k)
    PROVE  IInv'
<1> DEFINE b == [comm[r][k] EXCEPT !.at = "arrive"]
<1>1. r \in running /\ comm[r][k].at = "ready" /\ comm' = [comm EXCEPT ![r][k] = b]
  BY DEF AwaitReady, At, Go
<1>2. b \in Block /\ b.at = "arrive" /\ b.chunk = comm[r][k].chunk /\ b.chunk \in Nat
  BY <1>1, BlockFacts DEF Block
<1> HIDE DEF b
<1>3. Placed(b, NC(r)) /\ (Counted(b, NC(r)) <=> Counted(comm[r][k], NC(r)))
  BY <1>1, <1>2, BlockFacts DEF Placed, Counted
<1>4. Through(b) => \A q \in Ranks : launch[q] >= launch[r]
  BY <1>1, <1>2, BlockFacts DEF Through
<1>5. UNCHANGED << fixed, launch, running, words, buf, inFlight, comp >>
  BY DEF AwaitReady
<1> QED
  BY <1>1, <1>2, <1>3, <1>4, <1>5, WordFacts, BlockMoves DEF words

LEMMA StepArriveAt ==
    ASSUME IInv, NEW r \in Ranks, NEW k \in CommBlocks, ArriveAt(r, k)
    PROVE  IInv'
<1> DEFINE more == comm[r][k].sent + 1 < World
           b == IF more THEN [comm[r][k] EXCEPT !.sent = @ + 1]
                ELSE [comm[r][k] EXCEPT !.sent = 0, !.at = "await"]
<1>1. /\ r \in running /\ comm[r][k].at = "arrive"
      /\ pads' = [pads EXCEPT ![comm[r][k].sent][Pad(r, k)][r] = seqPub[r]]
      /\ UNCHANGED << fixed, launch, running, seqctr, seqPub, ready, doneLocal, doneFlag,
                      buf, inFlight, comp >>
  BY DEF ArriveAt, At
<1>2. comm' = [comm EXCEPT ![r][k] = b]
  BY DEF ArriveAt
<1>3. World \in Nat \ {0} /\ comm[r][k] \in Block
  BY <1>1, BlockFacts, EpilogueAssumption
<1>4. b \in Block /\ b.at \in {"arrive", "await"} /\ b.chunk = comm[r][k].chunk
  <2>1. CASE more
    <3>1. b = [comm[r][k] EXCEPT !.sent = comm[r][k].sent + 1]
      BY <2>1
    <3>2. comm[r][k].sent + 1 \in 0..(World - 1)
      BY <1>3, <2>1 DEF Block
    <3> QED
      BY <1>1, <1>3, <3>1, <3>2 DEF Block
  <2>2. CASE ~ more
    <3>1. b = [comm[r][k] EXCEPT !.sent = 0, !.at = "await"]
      BY <2>2
    <3>2. b = [chunk |-> comm[r][k].chunk, sent |-> 0, at |-> "await"]
      BY <1>3, <3>1 DEF Block
    <3>3. comm[r][k].chunk \in 0..MaxChunk /\ 0 \in 0..(World - 1)
      BY <1>3 DEF Block
    <3> HIDE DEF b
    <3> QED
      BY <3>2, <3>3 DEF Block
  <2> QED
    BY <2>1, <2>2
<1> HIDE DEF b
<1>5. Placed(b, NC(r)) /\ (Counted(b, NC(r)) <=> Counted(comm[r][k], NC(r)))
  BY <1>1, <1>4, BlockFacts DEF Placed, Counted
<1>6. Through(b) => \A q \in Ranks : launch[q] >= launch[r]
  BY <1>1, <1>4, BlockFacts DEF Through
<1>7. comm[r][k].sent \in Ranks /\ Pad(r, k) \in Pads
      /\ seqPub[r] = launch[r] /\ launch[r] \in 0..MaxLaunches
  <2>1. comm[r][k].sent \in Ranks
    BY <1>3 DEF Block, Ranks
  <2>2. seqPub[r] = launch[r] /\ launch[r] \in 0..MaxLaunches
    BY DEF IInv, Numbered, TypeOK
  <2> QED
    BY <1>1, <2>1, <2>2, PadInRange
<1>8. /\ pads' \in [Ranks -> [Pads -> [Ranks -> 0..MaxLaunches]]]
      /\ \A d \in Ranks : \A p \in Pads : \A q \in Ranks : pads'[d][p][q] <= launch[q]
  BY <1>1, <1>7, WordFacts
<1> QED
  BY <1>1, <1>2, <1>4, <1>5, <1>6, <1>8, WordFacts, BlockMoves

LEMMA StepAwaitPeers ==
    ASSUME IInv, NEW r \in Ranks, NEW k \in CommBlocks, AwaitPeers(r, k)
    PROVE  IInv'
<1> DEFINE last == comm[r][k].chunk = NC(r)
           b == [comm[r][k] EXCEPT !.at = IF last THEN "flagset" ELSE "reduce"]
<1>1. r \in running /\ comm[r][k].at = "await" /\ comm' = [comm EXCEPT ![r][k] = b]
  BY DEF AwaitPeers, At, Go
<1>2. /\ b \in Block /\ b.chunk = comm[r][k].chunk /\ b.chunk \in Nat
      /\ b.at = IF last THEN "flagset" ELSE "reduce"
  BY <1>1, BlockFacts DEF Block
<1> HIDE DEF b
<1>3. Placed(b, NC(r)) /\ (Counted(b, NC(r)) <=> Counted(comm[r][k], NC(r)))
  BY <1>1, <1>2, BlockFacts DEF Placed, Counted
<1>4. \A q \in Ranks : launch[q] >= launch[r]
  <2> SUFFICES ASSUME NEW q \in Ranks
               PROVE  launch[q] >= launch[r]
    OBVIOUS
  <2>1. pads[r][Pad(r, k)][q] >= seqPub[r] /\ seqPub[r] = launch[r]
    BY DEF AwaitPeers, IInv, Numbered
  <2>2. pads[r][Pad(r, k)][q] <= launch[q] /\ pads[r][Pad(r, k)][q] \in Nat
    BY <1>1, PadInRange, WordFacts
  <2> QED
    BY <2>1, <2>2 DEF IInv, TypeOK
<1>5. UNCHANGED << fixed, launch, running, words, buf, inFlight, comp >>
  BY DEF AwaitPeers
<1> QED
  BY <1>1, <1>2, <1>3, <1>4, <1>5, WordFacts, BlockMoves DEF words

LEMMA StepReduce ==
    ASSUME IInv, NEW r \in Ranks, NEW k \in CommBlocks, Reduce(r, k)
    PROVE  IInv'
<1> DEFINE c == comm[r][k].chunk
           b == [chunk |-> c + 1, at |-> IF c + 1 < NC(r) THEN "ready" ELSE "fence", sent |-> 0]
<1>1. /\ r \in running /\ comm[r][k].at = "reduce" /\ comm' = [comm EXCEPT ![r][k] = b]
      /\ UNCHANGED << fixed, launch, running, words, buf, comp >>
  BY DEF Reduce, At
<1>2. c \in Nat /\ c < NC(r) /\ NC(r) \in 1..MaxChunk /\ MaxChunk \in Nat
  BY <1>1, BlockFacts DEF Placed, Block
<1>3. b \in Block
  BY <1>2, EpilogueAssumption DEF Block
<1>4. Placed(b, NC(r)) /\ ~ Counted(b, NC(r)) /\ ~ Counted(comm[r][k], NC(r))
  BY <1>1, <1>2 DEF Placed, Counted
<1>5. \A q \in Ranks : launch[q] >= launch[r]
  BY <1>1, BlockFacts DEF Through
<1>6. inFlight' \subseteq Store
  <2>1. \A x : Reduced(r, x) \in Values
    BY DEF Reduced, Values, IInv, TypeOK
  <2>2. c \in Chunks
    BY <1>2 DEF Chunks
  <2>3. \A q \in Ranks :
            [from |-> << r, k >>, to |-> q, chunk |-> c,
             value |-> [j \in CompBlocks |-> Reduced(r, << c, MyShard(r, k), j >>)]] \in Store
    BY <2>1, <2>2 DEF Store
  <2> QED
    BY <2>3, WordFacts DEF Reduce
<1> HIDE DEF b
<1> QED
  BY <1>1, <1>3, <1>4, <1>5, <1>6, WordFacts, BlockMoves DEF words

LEMMA StepCountDone ==
    ASSUME IInv, NEW r \in Ranks, NEW k \in CommBlocks, CountDone(r, k)
    PROVE  IInv'
<1> DEFINE last == Last(r)
           b == [comm[r][k] EXCEPT !.at = IF last THEN "arrive" ELSE "flagwait"]
<1>1. /\ r \in running /\ comm[r][k].at = "fence" /\ comm' = [comm EXCEPT ![r][k] = b]
      /\ doneLocal' = [doneLocal EXCEPT ![r] = @ + 1]
      /\ UNCHANGED << fixed, launch, running, seqctr, seqPub, ready, doneFlag, pads,
                      buf, inFlight, comp >>
  BY DEF CountDone, At, Go
<1>2. b \in Block /\ b.chunk = comm[r][k].chunk /\ b.chunk \in Nat
      /\ b.at \in {"arrive", "flagwait"}
  BY <1>1, BlockFacts DEF Block
<1> HIDE DEF b
<1>3. /\ Placed(b, NC(r)) /\ Counted(b, NC(r)) /\ ~ Counted(comm[r][k], NC(r))
      /\ Through(comm[r][k])
  BY <1>1, <1>2, BlockFacts DEF Placed, Counted, Through
<1>4. \A q \in Ranks : launch[q] >= launch[r]
  BY <1>1, <1>3, BlockFacts
<1> QED
  BY <1>1, <1>2, <1>3, <1>4, WordFacts, BlockMoves

LEMMA StepSetFlag ==
    ASSUME IInv, NEW r \in Ranks, NEW k \in CommBlocks, SetFlag(r, k)
    PROVE  IInv'
<1> DEFINE b == [comm[r][k] EXCEPT !.at = "done"]
<1>1. /\ r \in running /\ comm[r][k].at = "flagset" /\ comm' = [comm EXCEPT ![r][k] = b]
      /\ doneFlag' = [doneFlag EXCEPT ![r] = 1]
      /\ UNCHANGED << fixed, launch, running, seqctr, seqPub, ready, doneLocal, pads,
                      buf, inFlight, comp >>
  BY DEF SetFlag, At, Go
<1>2. b \in Block /\ b.at = "done" /\ b.chunk = comm[r][k].chunk /\ b.chunk \in Nat
  BY <1>1, BlockFacts DEF Block
<1> HIDE DEF b
<1>3. Placed(b, NC(r)) /\ Counted(b, NC(r)) /\ Counted(comm[r][k], NC(r))
      /\ Through(comm[r][k])
  BY <1>1, <1>2, BlockFacts DEF Placed, Counted, Through
<1>4. \A q \in Ranks : launch[q] >= launch[r]
  BY <1>1, <1>3, BlockFacts
<1>5. doneFlag' \in [Ranks -> {0, 1}]
  BY <1>1, WordFacts
<1> QED
  BY <1>1, <1>2, <1>3, <1>4, <1>5, WordFacts, BlockMoves

LEMMA StepAwaitFlag ==
    ASSUME IInv, NEW r \in Ranks, NEW k \in CommBlocks, AwaitFlag(r, k)
    PROVE  IInv'
<1> DEFINE b == [comm[r][k] EXCEPT !.at = "done"]
<1>1. r \in running /\ comm[r][k].at = "flagwait" /\ comm' = [comm EXCEPT ![r][k] = b]
  BY DEF AwaitFlag, At, Go
<1>2. b \in Block /\ b.at = "done" /\ b.chunk = comm[r][k].chunk /\ b.chunk \in Nat
  BY <1>1, BlockFacts DEF Block
<1> HIDE DEF b
<1>3. Placed(b, NC(r)) /\ Counted(b, NC(r)) /\ Counted(comm[r][k], NC(r))
      /\ Through(comm[r][k])
  BY <1>1, <1>2, BlockFacts DEF Placed, Counted, Through
<1>4. \A q \in Ranks : launch[q] >= launch[r]
  BY <1>1, <1>3, BlockFacts
<1>5. UNCHANGED << fixed, launch, running, words, buf, inFlight, comp >>
  BY DEF AwaitFlag
<1> QED
  BY <1>1, <1>2, <1>3, <1>4, <1>5, WordFacts, BlockMoves DEF words

-----------------------------------------------------------------------------
(* The other steps.                                                          *)

\* What a step that touches no communication block has still to show.
LEMMA BlocksRest ==
    ASSUME IInv,
           UNCHANGED << fixed, launch, running, seqctr, seqPub, doneLocal, doneFlag, pads, comm >>,
           comp' \in [Ranks -> [CompBlocks -> [chunk : 0..MaxChunk, wrote : BOOLEAN]]],
           \A q \in running : \A j \in CompBlocks :
               /\ comp'[q][j].chunk <= NC(q)
               /\ comp'[q][j].wrote => comp'[q][j].chunk < NC(q),
           ready' \in [Ranks -> [Chunks -> 0..NComp]],
           \A q \in Ranks : \A c \in Chunks : ready'[q][c] = Cardinality(Signalled(q, c)'),
           buf' \in [Ranks -> [Cells -> Values]],
           inFlight' \subseteq Store
    PROVE  IInv'
<1>1. TypeOK'
  BY SameGrid DEF IInv, TypeOK, Block, Store, fixed
<1>2. Numbered' /\ RanksInStep'
  BY SameGrid DEF IInv, Numbered, RanksInStep
<1>3. \A q : NC(q)' = NC(q)
  BY DEF NC, fixed
<1>4. BlocksPlaced'
  BY <1>3, SameGrid DEF IInv, BlocksPlaced, Placed
<1>5. Met'
  BY SameGrid DEF IInv, Met, Through
<1>6. CountsRight'
  <2>1. \A q : CountedSet(q)' = CountedSet(q)
    BY <1>3, SameGrid DEF CountedSet, Counted
  <2> QED
    BY <2>1, SameGrid DEF IInv, CountsRight
<1> QED
  BY <1>1, <1>2, <1>4, <1>5, <1>6 DEF IInv

LEMMA ComputeFacts ==
    ASSUME IInv
    PROVE  /\ comp \in [Ranks -> [CompBlocks -> [chunk : 0..MaxChunk, wrote : BOOLEAN]]]
           /\ \A q \in running : \A j \in CompBlocks :
               /\ comp[q][j].chunk <= NC(q)
               /\ comp[q][j].wrote => comp[q][j].chunk < NC(q)
           /\ ready \in [Ranks -> [Chunks -> 0..NComp]]
           /\ \A q \in Ranks : \A c \in Chunks : ready[q][c] = Cardinality(Signalled(q, c))
           /\ buf \in [Ranks -> [Cells -> Values]]
  BY DEF IInv, TypeOK, BlocksPlaced, CountsRight

LEMMA StepWrite ==
    ASSUME IInv, NEW r \in Ranks, NEW j \in CompBlocks, Write(r, j)
    PROVE  IInv'
<1>1. /\ r \in running /\ comp[r][j].chunk < NC(r)
      /\ comp' = [comp EXCEPT ![r][j].wrote = TRUE]
      /\ UNCHANGED << fixed, launch, running, words, inFlight, comm >>
  BY DEF Write
<1>2. comp' \in [Ranks -> [CompBlocks -> [chunk : 0..MaxChunk, wrote : BOOLEAN]]]
  <2> DEFINE b == [comp[r][j] EXCEPT !.wrote = TRUE]
  <2>1. comp' = [comp EXCEPT ![r][j] = b]
    BY <1>1
  <2>2. comp[r][j] \in [chunk : 0..MaxChunk, wrote : BOOLEAN]
    BY ComputeFacts
  <2>3. b \in [chunk : 0..MaxChunk, wrote : BOOLEAN]
    BY <2>2
  <2> HIDE DEF b
  <2> QED
    BY <2>1, <2>3, ComputeFacts
<1>3. \A q \in Ranks : \A i \in CompBlocks :
        /\ comp'[q][i].chunk = comp[q][i].chunk
        /\ << q, i >> # << r, j >> => comp'[q][i] = comp[q][i]
  BY <1>1, ComputeFacts
<1>4. \A q \in running : \A i \in CompBlocks :
        /\ comp'[q][i].chunk <= NC(q)
        /\ comp'[q][i].wrote => comp'[q][i].chunk < NC(q)
  <2>1. running \subseteq Ranks
    BY DEF IInv, TypeOK
  <2> QED
    BY <1>1, <1>3, <2>1, ComputeFacts
<1>5. \A q \in Ranks : \A c \in Chunks : Signalled(q, c)' = Signalled(q, c)
  BY <1>1, <1>3, SameGrid DEF Signalled
<1>6. buf' \in [Ranks -> [Cells -> Values]]
  <2>1. << launch[r], "part" >> \in Values
    BY DEF IInv, TypeOK, Values
  <2> QED
    BY <2>1, ComputeFacts DEF Write
<1> QED
  BY <1>1, <1>2, <1>4, <1>5, <1>6, ComputeFacts, WordFacts, BlocksRest DEF words

LEMMA StepSignal ==
    ASSUME IInv, NEW r \in Ranks, NEW j \in CompBlocks, Signal(r, j)
    PROVE  IInv'
<1> DEFINE c0 == comp[r][j].chunk
           b == [chunk |-> c0 + 1, wrote |-> FALSE]
<1>1. /\ r \in running /\ comp[r][j].wrote
      /\ ready' = [ready EXCEPT ![r][c0] = @ + 1]
      /\ comp' = [comp EXCEPT ![r][j] = b]
      /\ UNCHANGED << fixed, launch, running, seqctr, seqPub, doneLocal, doneFlag, pads,
                      buf, inFlight, comm >>
  BY DEF Signal
<1>2. c0 \in Nat /\ c0 < NC(r) /\ NC(r) \in 1..MaxChunk /\ MaxChunk \in Nat /\ c0 \in Chunks
  <2>1. c0 \in Nat
    BY ComputeFacts
  <2>2. c0 < NC(r) /\ NC(r) \in 1..MaxChunk /\ MaxChunk \in Nat
    BY <1>1, ComputeFacts, ChunkCount, GridFacts DEF IInv
  <2> QED
    BY <2>1, <2>2 DEF Chunks
<1>3. b \in [chunk : 0..MaxChunk, wrote : BOOLEAN]
  BY <1>2
<1> HIDE DEF c0
<1>4. comp' \in [Ranks -> [CompBlocks -> [chunk : 0..MaxChunk, wrote : BOOLEAN]]]
  BY <1>1, <1>3, ComputeFacts
<1>5. /\ comp'[r][j] = b
      /\ \A q \in Ranks : \A i \in CompBlocks :
            << q, i >> # << r, j >> => comp'[q][i] = comp[q][i]
  BY <1>1, ComputeFacts
<1>6. \A q \in running : \A i \in CompBlocks :
        /\ comp'[q][i].chunk <= NC(q)
        /\ comp'[q][i].wrote => comp'[q][i].chunk < NC(q)
  <2> SUFFICES ASSUME NEW q \in running, NEW i \in CompBlocks
               PROVE  /\ comp'[q][i].chunk <= NC(q)
                      /\ comp'[q][i].wrote => comp'[q][i].chunk < NC(q)
    OBVIOUS
  <2>1. q \in Ranks
    BY DEF IInv, TypeOK
  <2>2. CASE << q, i >> = << r, j >>
    BY <1>2, <1>5, <2>2
  <2>3. CASE << q, i >> # << r, j >>
    BY <1>5, <2>1, <2>3, ComputeFacts
  <2> QED
    BY <2>2, <2>3
<1>7. /\ ready' \in [Ranks -> [Chunks -> 0..NComp]]
      /\ \A q \in Ranks : \A c \in Chunks : ready'[q][c] = Cardinality(Signalled(q, c)')
  <2>1. \A q \in Ranks : \A c \in Chunks :
            ready'[q][c] = Cardinality(Signalled(q, c)') /\ ready'[q][c] \in 0..NComp
    <3> SUFFICES ASSUME NEW q \in Ranks, NEW c \in Chunks
                 PROVE  ready'[q][c] = Cardinality(Signalled(q, c)') /\ ready'[q][c] \in 0..NComp
      OBVIOUS
    <3>1. c \in Nat /\ NComp \in Nat \ {0}
      BY GridFacts DEF IInv, Chunks
    <3>2. ready[q][c] = Cardinality(Signalled(q, c)) /\ ready[q][c] \in 0..NComp
      BY ComputeFacts
    <3>3. CASE q = r /\ c = c0
      <4>1. ready'[r][c] = ready[r][c] + 1
        BY <1>1, <1>2, <3>3, ComputeFacts
      <4>2. comp'[r][j].chunk > c /\ ~ (comp[r][j].chunk > c)
        BY <1>2, <1>5, <3>3 DEF c0
      <4>3. Signalled(r, c)' = Signalled(r, c) \cup {j}
        BY <1>1, <1>5, <4>2, SameGrid DEF Signalled
      <4>4. j \notin Signalled(r, c) /\ Signalled(r, c) \subseteq 0..(NComp - 1)
            /\ j \in 0..(NComp - 1)
        BY <4>2 DEF Signalled, CompBlocks
      <4>5. /\ Cardinality(Signalled(r, c) \cup {j}) = Cardinality(Signalled(r, c)) + 1
            /\ Cardinality(Signalled(r, c)) + 1 \in 0..NComp
        BY <3>1, <4>4, OneMore
      <4> QED
        BY <3>2, <3>3, <4>1, <4>3, <4>5
    <3>4. CASE q = r /\ c # c0
      <4>1. comp'[r][j].chunk > c <=> comp[r][j].chunk > c
        BY <1>2, <1>5, <3>1, <3>4 DEF c0
      <4>2. Signalled(r, c)' = Signalled(r, c)
        BY <1>1, <1>5, <4>1, SameGrid DEF Signalled
      <4>3. ready'[r][c] = ready[r][c]
        BY <1>1, <3>4, ComputeFacts
      <4> QED
        BY <3>2, <3>4, <4>2, <4>3
    <3>5. CASE q # r
      <4>1. Signalled(q, c)' = Signalled(q, c) /\ ready'[q][c] = ready[q][c]
        BY <1>1, <1>5, <3>5, ComputeFacts, SameGrid DEF Signalled
      <4> QED
        BY <3>2, <4>1
    <3> QED
      BY <3>3, <3>4, <3>5
  <2>2. ready' \in [Ranks -> [Chunks -> 0..NComp]]
    BY <1>1, <2>1, ComputeFacts
  <2> QED
    BY <2>1, <2>2
<1> QED
  BY <1>1, <1>4, <1>6, <1>7, ComputeFacts, WordFacts, BlocksRest

LEMMA StepPerform ==
    ASSUME IInv, NEW s \in inFlight, Perform(s)
    PROVE  IInv'
<1>1. UNCHANGED << fixed, launch, running, words, comp, comm >> /\ inFlight' = inFlight \ {s}
  BY DEF Perform
<1>2. s \in Store
  BY WordFacts
<1>3. buf' \in [Ranks -> [Cells -> Values]]
  <2>1. \A x \in Cells : x[3] \in CompBlocks
    BY DEF Cells
  <2>2. \A j \in CompBlocks : s.value[j] \in Values
    BY <1>2 DEF Store
  <2> QED
    BY <2>1, <2>2, ComputeFacts DEF Perform
<1>4. \A q \in Ranks : \A c \in Chunks : Signalled(q, c)' = Signalled(q, c)
  BY <1>1, SameGrid DEF Signalled
<1> QED
  BY <1>1, <1>3, <1>4, ComputeFacts, WordFacts, BlocksRest DEF words

\* A kernel retires only after every block of it was let through a pad.
LEMMA StepRetire ==
    ASSUME IInv, NEW r \in Ranks, Retire(r)
    PROVE  IInv'
<1>1. /\ r \in running /\ running' = running \ {r}
      /\ UNCHANGED << fixed, launch, words, buf, inFlight, comp, comm >>
  BY DEF Retire
<1>2. TypeOK'
  BY <1>1, SameGrid DEF IInv, TypeOK, Block, Store, fixed, words
<1>3. Numbered' /\ RanksInStep'
  BY <1>1, SameGrid DEF IInv, Numbered, RanksInStep, words
<1>4. \A q : NC(q)' = NC(q)
  BY <1>1 DEF NC, fixed
<1>5. BlocksPlaced'
  BY <1>1, <1>4, SameGrid DEF IInv, BlocksPlaced, Placed
<1>6. Met'
  <2>1. \A k \in CommBlocks : Through(comm[r][k])
    <3> SUFFICES ASSUME NEW k \in CommBlocks
                 PROVE  Through(comm[r][k])
      OBVIOUS
    <3> QED
      BY <1>1, BlockFacts DEF Retire, Placed, Through
  <2> QED
    BY <1>1, <2>1, SameGrid DEF IInv, Met, Through
<1>7. CountsRight'
  <2>1. \A q : CountedSet(q)' = CountedSet(q)
    BY <1>1, <1>4, SameGrid DEF CountedSet, Counted
  <2>2. \A q \in Ranks : \A c \in Chunks : Signalled(q, c)' = Signalled(q, c)
    BY <1>1, SameGrid DEF Signalled
  <2> QED
    BY <1>1, <2>1, <2>2, SameGrid DEF IInv, CountsRight, words
<1> QED
  BY <1>2, <1>3, <1>5, <1>6, <1>7 DEF IInv

\* A rank starts its next launch only when every rank has started this one, for
\* it has met them all: this is what keeps the ranks in step.
LEMMA StepEnter ==
    ASSUME IInv, NEW r \in Ranks, Enter(r)
    PROVE  IInv'
<1> DEFINE fresh == [chunk |-> 0, at |-> "ready", sent |-> 0]
<1>1. /\ r \notin running /\ launch[r] < MaxLaunches /\ running' = running \cup {r}
      /\ launch' = [launch EXCEPT ![r] = @ + 1]
      /\ seqctr' = [seqctr EXCEPT ![r] = @ + 1]
      /\ seqPub' = [seqPub EXCEPT ![r] = seqctr[r] + 1]
      /\ ready' = [ready EXCEPT ![r] = [c \in Chunks |-> 0]]
      /\ doneLocal' = [doneLocal EXCEPT ![r] = 0]
      /\ doneFlag' = [doneFlag EXCEPT ![r] = 0]
      /\ comp' = [comp EXCEPT ![r] = [j \in CompBlocks |-> [chunk |-> 0, wrote |-> FALSE]]]
      /\ comm' = [comm EXCEPT ![r] = [k \in CommBlocks |-> fresh]]
      /\ UNCHANGED << fixed, pads, buf, inFlight >>
  BY DEF Enter, Sequence, Clear
<1>2. /\ NComp \in Nat \ {0} /\ NComm \in Nat \ {0} /\ MaxChunk \in Nat \ {0}
      /\ World \in Nat \ {0} /\ MaxLaunches \in Nat
  BY GridFacts DEF IInv
<1>3. /\ launch \in [Ranks -> 0..MaxLaunches] /\ seqctr = [q \in Ranks |-> launch[q]]
      /\ seqctr \in [Ranks -> 0..MaxLaunches] /\ seqPub \in [Ranks -> 0..MaxLaunches]
      /\ \A q \in Ranks : seqctr[q] = launch[q] /\ seqPub[q] = launch[q]
  BY DEF IInv, TypeOK, Numbered
<1>4. /\ launch'[r] = launch[r] + 1 /\ launch'[r] \in 1..MaxLaunches
      /\ \A q \in Ranks : q # r => launch'[q] = launch[q]
      /\ \A q \in Ranks : launch'[q] >= launch[q]
  BY <1>1, <1>2, <1>3
<1>5. \A q \in Ranks : launch[q] >= launch[r]
  <2>1. CASE launch[r] = 0
    BY <1>3, <2>1
  <2>2. CASE launch[r] >= 1
    <3>1. 0 \in CommBlocks
      BY <1>2 DEF CommBlocks
    <3>2. Through(comm[r][0])
      BY <1>1, <2>2, <3>1 DEF IInv, Met
    <3> QED
      BY <3>1, <3>2 DEF IInv, Met
  <2> QED
    BY <1>3, <2>1, <2>2
<1>6. TypeOK'
  <2>1. /\ launch' \in [Ranks -> 0..MaxLaunches] /\ seqctr' \in [Ranks -> 0..MaxLaunches]
        /\ seqPub' \in [Ranks -> 0..MaxLaunches] /\ running' \subseteq Ranks
    <3>1. running \subseteq Ranks
      BY DEF IInv, TypeOK
    <3> QED
      BY <1>1, <1>2, <1>3, <3>1
  <2>2. /\ ready' \in [Ranks -> [Chunks -> 0..NComp]] /\ doneLocal' \in [Ranks -> 0..NComm]
        /\ doneFlag' \in [Ranks -> {0, 1}]
    BY <1>1, <1>2 DEF IInv, TypeOK
  <2>3. comp' \in [Ranks -> [CompBlocks -> [chunk : 0..MaxChunk, wrote : BOOLEAN]]]
    BY <1>1, <1>2, ComputeFacts
  <2>4. comm' \in [Ranks -> [CommBlocks -> Block]]
    <3>1. comm \in [Ranks -> [CommBlocks -> Block]]
      BY DEF IInv, TypeOK, Block
    <3>2. fresh \in Block
      BY <1>2 DEF Block
    <3> HIDE DEF fresh
    <3> QED
      BY <1>1, <3>1, <3>2
  <2> HIDE DEF fresh
  <2> QED
    BY <1>1, <2>1, <2>2, <2>3, <2>4, SameGrid DEF IInv, TypeOK, Block, Store, fixed
<1>7. Numbered'
  <2>1. \A q \in Ranks : seqctr'[q] = launch'[q] /\ seqPub'[q] = launch'[q]
    BY <1>1, <1>3
  <2>2. \A d \in Ranks : \A p \in Pads : \A q \in Ranks : pads[d][p][q] <= launch'[q]
    <3> SUFFICES ASSUME NEW d \in Ranks, NEW p \in Pads, NEW q \in Ranks
                 PROVE  pads[d][p][q] <= launch'[q]
      OBVIOUS
    <3>1. pads[d][p][q] \in Nat /\ pads[d][p][q] <= launch[q]
      BY WordFacts
    <3>2. launch[q] \in Nat /\ launch'[q] \in Nat /\ launch'[q] >= launch[q]
      BY <1>3, <1>4
    <3> QED
      BY <3>1, <3>2
  <2> QED
    BY <1>1, <2>1, <2>2, SameGrid DEF Numbered
<1>8. RanksInStep'
  <2> SUFFICES ASSUME NEW p \in Ranks, NEW q \in Ranks
               PROVE  launch'[p] <= launch'[q] + 1
    BY DEF RanksInStep
  <2>1. /\ launch[p] \in Nat /\ launch[q] \in Nat /\ launch[r] \in Nat
        /\ launch[p] <= launch[q] + 1 /\ launch[q] >= launch[r]
    BY <1>3, <1>5 DEF IInv, RanksInStep
  <2>2. CASE p = r
    BY <1>4, <2>1, <2>2
  <2>3. CASE p # r
    BY <1>4, <2>1, <2>3
  <2> QED
    BY <2>2, <2>3
<1>9. NC(r)' \in 1..MaxChunk /\ \A q \in Ranks : q # r => NC(q)' = NC(q)
  <2>1. chunksOf' = chunksOf /\ chunksOf \in [1..MaxLaunches -> 1..MaxChunk]
    BY <1>1 DEF fixed, IInv, TypeOK
  <2> QED
    BY <1>4, <2>1 DEF NC
<1>10. /\ \A k \in CommBlocks : comm'[r][k] = fresh
       /\ \A j \in CompBlocks : comp'[r][j] = [chunk |-> 0, wrote |-> FALSE]
       /\ \A q \in Ranks : q # r => comm'[q] = comm[q] /\ comp'[q] = comp[q]
  BY <1>1 DEF IInv, TypeOK
<1>11. BlocksPlaced'
  <2> SUFFICES ASSUME NEW q \in running'
               PROVE  /\ launch'[q] >= 1
                      /\ \A j \in CompBlocks : /\ comp'[q][j].chunk <= NC(q)'
                                               /\ comp'[q][j].wrote => comp'[q][j].chunk < NC(q)'
                      /\ \A k \in CommBlocks : Placed(comm'[q][k], NC(q)')
    BY <1>1, SameGrid DEF BlocksPlaced, Placed
  <2>1. CASE q = r
    BY <1>2, <1>4, <1>9, <1>10, <2>1 DEF Placed
  <2>2. CASE q # r
    <3>1. q \in running /\ q \in Ranks
      BY <1>1, <2>2 DEF IInv, TypeOK
    <3> QED
      BY <1>4, <1>9, <1>10, <2>2, <3>1 DEF IInv, BlocksPlaced
  <2> QED
    BY <2>1, <2>2
<1>12. Met'
  <2> SUFFICES ASSUME NEW p \in Ranks, NEW k \in CommBlocks
               PROVE  /\ Through(comm'[p][k]) => \A q \in Ranks : launch'[q] >= launch'[p]
                      /\ p \notin running' /\ launch'[p] >= 1 => Through(comm'[p][k])
    BY <1>1, SameGrid DEF Met, Through
  <2>1. CASE p = r
    BY <1>1, <1>10, <2>1 DEF Through
  <2>2. CASE p # r
    <3>1. comm'[p] = comm[p] /\ launch'[p] = launch[p] /\ (p \in running' <=> p \in running)
      BY <1>1, <1>4, <1>10, <2>2
    <3>2. Through(comm[p][k]) => \A q \in Ranks : launch'[q] >= launch[p]
      <4> SUFFICES ASSUME Through(comm[p][k]), NEW q \in Ranks
                   PROVE  launch'[q] >= launch[p]
        OBVIOUS
      <4>1. launch[q] >= launch[p] /\ launch'[q] >= launch[q]
        BY <1>4 DEF IInv, Met
      <4>2. launch[q] \in Nat /\ launch[p] \in Nat /\ launch'[q] \in Nat
        BY <1>3, <1>4
      <4> QED
        BY <4>1, <4>2
    <3> QED
      BY <3>1, <3>2 DEF IInv, Met
  <2> QED
    BY <2>1, <2>2
<1>13. CountsRight'
  <2>1. \A q \in Ranks : \A c \in Chunks : ready'[q][c] = Cardinality(Signalled(q, c)')
    <3> SUFFICES ASSUME NEW q \in Ranks, NEW c \in Chunks
                 PROVE  ready'[q][c] = Cardinality(Signalled(q, c)')
      OBVIOUS
    <3>1. CASE q = r
      <4>1. c \in Nat
        BY <1>2 DEF Chunks
      <4>2. Signalled(r, c)' = {}
        BY <1>1, <1>10, <4>1, SameGrid DEF Signalled
      <4>3. ready'[r][c] = 0
        BY <1>1, ComputeFacts
      <4> QED
        BY <3>1, <4>2, <4>3, FS_EmptySet
    <3>2. CASE q # r
      <4>1. Signalled(q, c)' = Signalled(q, c)
        BY <1>1, <1>10, <3>2, SameGrid DEF Signalled
      <4>2. ready'[q][c] = ready[q][c]
        BY <1>1, <3>2, ComputeFacts
      <4> QED
        BY <4>1, <4>2, ComputeFacts
    <3> QED
      BY <3>1, <3>2
  <2>2. \A q \in running' : doneLocal'[q] = Cardinality(CountedSet(q)')
    <3> SUFFICES ASSUME NEW q \in running'
                 PROVE  doneLocal'[q] = Cardinality(CountedSet(q)')
      OBVIOUS
    <3>0. doneLocal \in [Ranks -> 0..NComm] /\ running \subseteq Ranks
      BY DEF IInv, TypeOK
    <3>1. CASE q = r
      <4>1. CountedSet(r)' = {}
        BY <1>1, <1>10, SameGrid DEF CountedSet, Counted
      <4> QED
        BY <1>1, <3>0, <3>1, <4>1, FS_EmptySet
    <3>2. CASE q # r
      <4>1. q \in running /\ q \in Ranks
        BY <1>1, <3>0, <3>2
      <4>2. CountedSet(q)' = CountedSet(q)
        BY <1>1, <1>9, <1>10, <3>2, <4>1, SameGrid DEF CountedSet, Counted
      <4>3. doneLocal'[q] = doneLocal[q]
        BY <1>1, <3>0, <3>2, <4>1
      <4> QED
        BY <4>1, <4>2, <4>3 DEF IInv, CountsRight
    <3> QED
      BY <3>1, <3>2
  <2> QED
    BY <1>1, <2>1, <2>2, SameGrid DEF CountsRight
<1> QED
  BY <1>6, <1>7, <1>8, <1>11, <1>12, <1>13 DEF IInv

LEMMA StepNothing ==
    ASSUME IInv, UNCHANGED vars
    PROVE  IInv'
<1>1. /\ UNCHANGED << fixed, launch, running, words, buf, inFlight, comp, comm >>
      /\ \A q \in Ranks : \A c \in Chunks : Signalled(q, c)' = Signalled(q, c)
  BY SameGrid DEF vars, Signalled
<1> QED
  BY <1>1, ComputeFacts, WordFacts, BlocksRest DEF words

-----------------------------------------------------------------------------
(* The theorem.                                                              *)

LEMMA EveryStep == IInv /\ [Next]_vars => IInv'
<1> SUFFICES ASSUME IInv, [Next]_vars
             PROVE  IInv'
  OBVIOUS
<1>1. ASSUME NEW r \in Ranks, Enter(r) \/ Retire(r)
      PROVE  IInv'
  BY <1>1, StepEnter, StepRetire
<1>2. ASSUME NEW r \in Ranks, NEW j \in CompBlocks, Compute(r, j)
      PROVE  IInv'
  BY <1>2, StepWrite, StepSignal DEF Compute
<1>3. ASSUME NEW r \in Ranks, NEW k \in CommBlocks, Communicate(r, k)
      PROVE  IInv'
  BY <1>3, StepAwaitReady, StepArriveAt, StepAwaitPeers, StepReduce, StepCountDone,
     StepSetFlag, StepAwaitFlag DEF Communicate
<1>4. ASSUME NEW s \in inFlight, Perform(s)
      PROVE  IInv'
  BY <1>4, StepPerform
<1>5. CASE Finished \/ UNCHANGED vars
  BY <1>5, StepNothing DEF Finished
<1> QED
  BY <1>1, <1>2, <1>3, <1>4, <1>5 DEF Next

\* Whatever the number of ranks, blocks, chunks and launches: the pads that no
\* launch clears and the sequence numbers they carry keep the ranks within one
\* launch of each other, and no rank goes past a pad on the arrival of a launch
\* it does not wait for (tp_rank_barrier and the launch prologue).
THEOREM PadsNeverStale == Spec => []PadsSafe
<1>1. Init => IInv
  BY Initially
<1>2. IInv /\ [Next]_vars => IInv'
  BY EveryStep
<1>3. IInv => PadsSafe
  BY InvariantSuffices
<1> QED
  BY <1>1, <1>2, <1>3, PTL DEF Spec

-----------------------------------------------------------------------------
(* What a rank's buffer holds, cell by cell: before block k of rank q has     *)
(* reduced the cell in this launch, the rank's own finished partial; after,   *)
(* once k's store has arrived, the sum.  What makes it inductive is what an   *)
(* arrival at a pad says about its sender (PadsRight), hence what whoever a   *)
(* pad has let through may rely on (ThroughRight).                            *)

\* Block j of rank r has written its part of chunk c in the rank's last launch.
Written(r, j, c) == comp[r][j].chunk > c \/ (comp[r][j].chunk = c /\ comp[r][j].wrote)

\* By launch n of rank q, or since: every compute block has signalled chunk c;
\* communication block k has reduced chunk c; every communication block has
\* fenced its stores and counted itself.
ChunkOver(q, n, c) ==
    \/ launch[q] > n
    \/ launch[q] = n /\ \A j \in CompBlocks : comp[q][j].chunk > c
ShardOver(q, k, n, c) ==
    \/ launch[q] > n
    \/ launch[q] = n /\ comm[q][k].chunk > c
StoresOver(q, n) ==
    \/ launch[q] > n
    \/ launch[q] = n /\ \A k \in CommBlocks : Counted(comm[q][k], NC(q))

\* The final pad of the launch has let rank q through.
Final(q) == doneFlag[q] = 1 \/ \E k \in CommBlocks : comm[q][k].at \in {"flagset", "done"}
PastFinal(q, n) == n < launch[q] \/ (n = launch[q] /\ Final(q))

RetiredDone ==
    \A r \in Ranks : r \notin running /\ launch[r] >= 1 =>
        /\ \A j \in CompBlocks : comp[r][j].chunk = NC(r)
        /\ \A k \in CommBlocks : comm[r][k].at = "done" /\ comm[r][k].chunk = NC(r)

\* What a block may rely on when it arrives at a pad, of its own rank.
ArrivalsRight ==
    \A r \in running : \A k \in CommBlocks :
        /\ \A c \in Chunks :
            comm[r][k].at \in {"arrive", "await"} /\ comm[r][k].chunk = c /\ c < NC(r) =>
                ChunkOver(r, launch[r], c)
        /\ comm[r][k].at \in {"arrive", "await"} /\ comm[r][k].chunk = NC(r) =>
                StoresOver(r, launch[r])

\* What an arrival at a pad says, for as long as it stays there.
PadsRight ==
    \A d, q \in Ranks : \A n \in 1..MaxLaunches :
        /\ \A c \in Chunks : \A k \in CommBlocks :
            c < chunksOf[n] /\ pads[d][c * NComm + k][q] = n => ChunkOver(q, n, c)
        /\ pads[d][chunksOf[n] * NComm][q] = n => StoresOver(q, n)

\* What a block that a pad has let through may rely on, of every rank.
ThroughRight ==
    \A r, q \in Ranks :
        /\ \A k \in CommBlocks : \A c \in Chunks :
            comm[r][k].chunk > c \/ (comm[r][k].at = "reduce" /\ comm[r][k].chunk = c) =>
                ChunkOver(q, launch[r], c)
        /\ \A n \in 1..MaxLaunches : PastFinal(r, n) => StoresOver(q, n)

\* A store in flight carries a sum of the launch its sender and its destination
\* are both in, and its sender has not counted itself.
StoresRight ==
    \A s \in inFlight :
        LET r == s.from[1]
            k == s.from[2]
        IN  /\ r \in running
            /\ launch[s.to] = launch[r]
            /\ s.chunk < comm[r][k].chunk
            /\ ~ Counted(comm[r][k], NC(r))
            /\ \A j \in CompBlocks : s.value[j] = << launch[r], "sum" >>

\* No store of block k of rank q to rank r is left for chunk c.
Arrived(q, k, r, c) == \A s \in inFlight : ~ (s.from = << q, k >> /\ s.to = r /\ s.chunk = c)

\* What a rank's buffer holds, cell by cell.
BufferRight ==
    \A r \in Ranks :
        /\ \A x \in Cells :
            /\ buf[r][x][1] <= launch[r]
            /\ launch[r] >= 1 /\ ~ Written(r, x[3], x[1]) => buf[r][x][1] < launch[r]
        /\ launch[r] >= 1 =>
            \A c \in Chunks : \A q \in Ranks : \A k \in CommBlocks : \A j \in CompBlocks :
                c < NC(r) /\ Written(r, j, c) =>
                    /\ ~ ShardOver(q, k, launch[r], c) =>
                            buf[r][<< c, MyShard(q, k), j >>] = << launch[r], "part" >>
                    /\ ShardOver(q, k, launch[r], c) /\ Arrived(q, k, r, c) =>
                            buf[r][<< c, MyShard(q, k), j >>] = << launch[r], "sum" >>

SInv ==
    /\ IInv /\ RetiredDone /\ ArrivalsRight /\ PadsRight /\ ThroughRight
    /\ StoresRight /\ BufferRight

-----------------------------------------------------------------------------
(* Numbers: the pads and the shards are numbered a * n + i with i below n.   *)

LEMMA SplitOnce ==
    ASSUME NEW n \in Nat, NEW a \in Nat, NEW b \in Nat,
           NEW i \in 0..(n - 1), NEW j \in 0..(n - 1), a * n + i = b * n + j
    PROVE  a = b /\ i = j
<1>1. ~ (a < b)
  <2> SUFFICES ASSUME a < b
               PROVE  FALSE
    OBVIOUS
  <2> DEFINE p == a * n
             q == b * n
  <2>1. a + 1 <= b /\ (a + 1) * n = p + n
    OBVIOUS
  <2>2. (a + 1) * n <= q
    BY <2>1
  <2>3. p \in Int /\ q \in Int /\ p + n <= q /\ p + i = q + j
    BY <2>1, <2>2
  <2> HIDE DEF p, q
  <2> QED
    BY <2>3
<1>2. ~ (b < a)
  <2> SUFFICES ASSUME b < a
               PROVE  FALSE
    OBVIOUS
  <2> DEFINE p == a * n
             q == b * n
  <2>1. b + 1 <= a /\ (b + 1) * n = q + n
    OBVIOUS
  <2>2. (b + 1) * n <= p
    BY <2>1
  <2>3. p \in Int /\ q \in Int /\ q + n <= p /\ p + i = q + j
    BY <2>1, <2>2
  <2> HIDE DEF p, q
  <2> QED
    BY <2>3
<1> QED
  BY <1>1, <1>2

LEMMA SplitExists ==
    ASSUME NEW w \in Nat, NEW n \in Nat \ {0}, NEW s \in 0..(w * n - 1)
    PROVE  \E a \in 0..(w - 1) : \E i \in 0..(n - 1) : s = a * n + i
<1> DEFINE a == s \div n
           i == s % n
<1>1. s \in Nat /\ s < w * n
  OBVIOUS
<1>2. a \in Nat /\ i \in 0..(n - 1) /\ s = a * n + i
  BY <1>1
<1> HIDE DEF a, i
<1>3. a < w
  <2> SUFFICES ASSUME w <= a
               PROVE  FALSE
    BY <1>2
  <2>1. w * n <= a * n
    BY <1>2
  <2> QED
    BY <1>1, <1>2, <2>1
<1> QED
  BY <1>2, <1>3

LEMMA SplitBelow ==
    ASSUME NEW w \in Nat, NEW n \in Nat \ {0}, NEW a \in 0..(w - 1), NEW i \in 0..(n - 1)
    PROVE  a * n + i \in 0..(w * n - 1)
<1>1. (a + 1) * n <= w * n /\ (a + 1) * n = a * n + n /\ a * n \in Nat
  <2>1. a + 1 <= w /\ a \in Nat
    OBVIOUS
  <2> QED
    BY <2>1
<1> QED
  BY <1>1

-----------------------------------------------------------------------------
(* What the types give.                                                      *)

LEMMA Numbers ==
    ASSUME IInv
    PROVE  /\ NComp \in Nat \ {0} /\ NComm \in Nat \ {0} /\ MaxChunk \in Nat \ {0}
           /\ World \in Nat \ {0} /\ MaxLaunches \in Nat
           /\ launch \in [Ranks -> 0..MaxLaunches]
           /\ running \subseteq Ranks
           /\ chunksOf \in [1..MaxLaunches -> 1..MaxChunk]
           /\ \A r \in Ranks : seqPub[r] = launch[r]
           /\ \A r \in running : launch[r] \in 1..MaxLaunches
           /\ \A r \in Ranks : launch[r] >= 1 =>
                  launch[r] \in 1..MaxLaunches /\ NC(r) \in 1..MaxChunk
<1>1. /\ NComp \in Nat \ {0} /\ NComm \in Nat \ {0} /\ MaxChunk \in Nat \ {0}
      /\ World \in Nat \ {0} /\ MaxLaunches \in Nat
  BY GridFacts DEF IInv
<1>2. /\ launch \in [Ranks -> 0..MaxLaunches] /\ running \subseteq Ranks
      /\ chunksOf \in [1..MaxLaunches -> 1..MaxChunk]
      /\ \A r \in Ranks : seqPub[r] = launch[r]
      /\ \A r \in running : launch[r] >= 1
  BY DEF IInv, TypeOK, Numbered, BlocksPlaced
<1>3. \A r \in Ranks : launch[r] >= 1 => launch[r] \in 1..MaxLaunches /\ NC(r) \in 1..MaxChunk
  BY <1>1, <1>2 DEF NC
<1> QED
  BY <1>1, <1>2, <1>3

LEMMA BlockTypes ==
    ASSUME IInv
    PROVE  /\ comm \in [Ranks -> [CommBlocks -> Block]]
           /\ comp \in [Ranks -> [CompBlocks -> [chunk : 0..MaxChunk, wrote : BOOLEAN]]]
           /\ \A r \in Ranks : \A k \in CommBlocks :
                  comm[r][k] \in Block /\ comm[r][k].chunk \in Nat
           /\ \A r \in Ranks : \A j \in CompBlocks :
                  comp[r][j].chunk \in Nat /\ comp[r][j].wrote \in BOOLEAN
           /\ buf \in [Ranks -> [Cells -> Values]]
           /\ inFlight \subseteq Store
           /\ doneFlag \in [Ranks -> {0, 1}]
           /\ doneLocal \in [Ranks -> 0..NComm]
<1>1. /\ comm \in [Ranks -> [CommBlocks -> Block]]
      /\ comp \in [Ranks -> [CompBlocks -> [chunk : 0..MaxChunk, wrote : BOOLEAN]]]
      /\ buf \in [Ranks -> [Cells -> Values]]
      /\ inFlight \subseteq Store
      /\ doneFlag \in [Ranks -> {0, 1}]
      /\ doneLocal \in [Ranks -> 0..NComm]
  BY DEF IInv, TypeOK, Block, Store
<1>2. \A r \in Ranks : \A k \in CommBlocks : comm[r][k] \in Block
  BY <1>1
<1>3. \A r \in Ranks : \A k \in CommBlocks : comm[r][k].chunk \in Nat
  BY <1>2, Numbers DEF Block
<1>4. \A r \in Ranks : \A j \in CompBlocks :
          comp[r][j] \in [chunk : 0..MaxChunk, wrote : BOOLEAN]
  BY <1>1
<1>5. \A r \in Ranks : \A j \in CompBlocks :
          comp[r][j].chunk \in Nat /\ comp[r][j].wrote \in BOOLEAN
  BY <1>4, Numbers
<1> QED
  BY <1>1, <1>2, <1>3, <1>5

\* A cell is owned by one communication block of one rank.
LEMMA ShardFacts ==
    ASSUME IInv
    PROVE  /\ \A q \in Ranks : \A k \in CommBlocks : MyShard(q, k) \in Shards
           /\ \A q, p \in Ranks : \A k, i \in CommBlocks :
                  MyShard(q, k) = MyShard(p, i) => q = p /\ k = i
           /\ \A h \in Shards : \E q \in Ranks : \E k \in CommBlocks : h = MyShard(q, k)
<1>1. NComm \in Nat \ {0} /\ World \in Nat \ {0}
  BY Numbers
<1>2. \A q \in Ranks : \A k \in CommBlocks : MyShard(q, k) \in Shards
  BY <1>1, SplitBelow DEF MyShard, Shards, Ranks, CommBlocks
<1>3. ASSUME NEW q \in Ranks, NEW p \in Ranks, NEW k \in CommBlocks, NEW i \in CommBlocks,
             MyShard(q, k) = MyShard(p, i)
      PROVE  q = p /\ k = i
  <2>1. q \in Nat /\ p \in Nat /\ k \in 0..(NComm - 1) /\ i \in 0..(NComm - 1) /\ NComm \in Nat
    BY <1>1 DEF Ranks, CommBlocks
  <2>2. q * NComm + k = p * NComm + i
    BY <1>3 DEF MyShard
  <2> QED
    BY <2>1, <2>2, SplitOnce
<1>4. ASSUME NEW h \in Shards
      PROVE  \E q \in Ranks : \E k \in CommBlocks : h = MyShard(q, k)
  <2>1. h \in 0..(World * NComm - 1) /\ World \in Nat
    BY <1>1 DEF Shards
  <2> QED
    BY <1>1, <2>1, SplitExists DEF MyShard, Ranks, CommBlocks
<1> QED
  BY <1>2, <1>3, <1>4

\* The pads of a chunk, and the final one, are among the pads.
LEMMA PadNumbers ==
    ASSUME IInv
    PROVE  /\ \A c \in Chunks : \A i \in CommBlocks : c * NComm + i \in Pads
           /\ \A n \in 1..MaxLaunches : chunksOf[n] * NComm \in Pads
<1>1. NComm \in Nat \ {0} /\ MaxChunk \in Nat \ {0} /\ MaxChunk * NComm \in Nat
  BY Numbers
<1>2. ASSUME NEW c \in Chunks, NEW i \in CommBlocks
      PROVE  c * NComm + i \in Pads
  <2>1. c \in 0..(MaxChunk - 1) /\ i \in 0..(NComm - 1)
    BY DEF Chunks, CommBlocks
  <2>2. c * NComm + i \in 0..(MaxChunk * NComm - 1)
    BY <1>1, <2>1, SplitBelow
  <2> QED
    BY <1>1, <2>2 DEF Pads
<1>3. ASSUME NEW n \in 1..MaxLaunches
      PROVE  chunksOf[n] * NComm \in Pads
  <2>1. chunksOf[n] \in 1..MaxChunk
    BY Numbers
  <2> QED
    BY <1>1, <2>1 DEF Pads
<1> QED
  BY <1>2, <1>3

-----------------------------------------------------------------------------
(* What is over stays over.                                                  *)

LEMMA OverKept ==
    ASSUME IInv, UNCHANGED fixed,
           \A q \in Ranks : launch'[q] \in Nat /\ launch'[q] >= launch[q],
           \A q \in Ranks : launch'[q] = launch[q] =>
               /\ \A j \in CompBlocks :
                      comp'[q][j].chunk \in Nat /\ comp'[q][j].chunk >= comp[q][j].chunk
               /\ \A k \in CommBlocks :
                      /\ comm'[q][k].chunk \in Nat /\ comm'[q][k].chunk >= comm[q][k].chunk
                      /\ Counted(comm[q][k], NC(q)) => Counted(comm'[q][k], NC(q))
    PROVE  \A q \in Ranks : \A n \in Nat :
               /\ \A c \in Nat : ChunkOver(q, n, c) => ChunkOver(q, n, c)'
               /\ \A k \in CommBlocks : \A c \in Nat :
                      ShardOver(q, k, n, c) => ShardOver(q, k, n, c)'
               /\ StoresOver(q, n) => StoresOver(q, n)'
<1> SUFFICES ASSUME NEW q \in Ranks, NEW n \in Nat
             PROVE  /\ \A c \in Nat : ChunkOver(q, n, c) => ChunkOver(q, n, c)'
                    /\ \A k \in CommBlocks : \A c \in Nat :
                           ShardOver(q, k, n, c) => ShardOver(q, k, n, c)'
                    /\ StoresOver(q, n) => StoresOver(q, n)'
  OBVIOUS
<1>1. launch[q] \in Nat /\ launch'[q] \in Nat /\ launch'[q] >= launch[q]
  BY Numbers
<1>2. CASE launch'[q] # launch[q]
  <2>1. launch[q] >= n => launch'[q] > n
    BY <1>1, <1>2
  <2> QED
    BY <1>1, <2>1 DEF ChunkOver, ShardOver, StoresOver
<1>3. CASE launch'[q] = launch[q]
  <2>1. NC(q)' = NC(q)
    BY <1>3 DEF NC, fixed
  <2>2. ASSUME NEW c \in Nat, ChunkOver(q, n, c)
        PROVE  ChunkOver(q, n, c)'
    <3>1. \A j \in CompBlocks : comp[q][j].chunk > c => comp'[q][j].chunk > c
      BY <1>3, BlockTypes
    <3> QED
      BY <1>3, <2>2, <3>1, SameGrid DEF ChunkOver
  <2>3. ASSUME NEW k \in CommBlocks, NEW c \in Nat, ShardOver(q, k, n, c)
        PROVE  ShardOver(q, k, n, c)'
    BY <1>3, <2>3, BlockTypes DEF ShardOver
  <2>4. StoresOver(q, n) => StoresOver(q, n)'
    BY <1>3, <2>1, SameGrid DEF StoresOver, Counted
  <2> QED
    BY <2>2, <2>3, <2>4
<1> QED
  BY <1>2, <1>3

\* All communication blocks of a rank have counted themselves: every chunk is
\* reduced.
LEMMA StoresThenShards ==
    ASSUME SInv, NEW q \in Ranks, NEW n \in Nat \ {0}, StoresOver(q, n),
           NEW k \in CommBlocks, NEW c \in Nat, n \in 1..MaxLaunches, c < chunksOf[n]
    PROVE  ShardOver(q, k, n, c)
<1>1. CASE launch[q] > n
  BY <1>1 DEF ShardOver
<1>2. CASE launch[q] = n /\ Counted(comm[q][k], NC(q))
  <2>1. NC(q) = chunksOf[n] /\ comm[q][k] \in Block /\ comm[q][k].chunk \in Nat
    BY <1>2, BlockTypes DEF NC, SInv
  <2>2. comm[q][k].chunk = NC(q)
    <3>1. CASE q \in running
      <4>1. Placed(comm[q][k], NC(q))
        BY <3>1 DEF SInv, IInv, BlocksPlaced
      <4> QED
        BY <1>2, <4>1 DEF Counted, Placed
    <3>2. CASE q \notin running
      BY <1>2, <3>2 DEF SInv, RetiredDone
    <3> QED
      BY <3>1, <3>2
  <2> QED
    BY <1>2, <2>1, <2>2 DEF ShardOver
<1> QED
  BY <1>1, <1>2 DEF StoresOver

\* A rank that has started a later launch, or was let through the final pad of
\* this one, has seen every rank fence its stores.
LEMMA BeyondFinal ==
    ASSUME SInv, NEW r \in Ranks, NEW q \in Ranks, launch[r] > launch[q], launch[q] >= 1
    PROVE  \A p \in Ranks : StoresOver(p, launch[q])
<1>1. launch[q] \in 1..MaxLaunches /\ launch[r] \in Nat
  BY Numbers DEF SInv
<1>2. PastFinal(r, launch[q])
  BY DEF PastFinal
<1> QED
  BY <1>1, <1>2 DEF SInv, ThroughRight

\* While a block has a chunk to reduce, no rank has left its launch.
LEMMA NobodyAhead ==
    ASSUME SInv, NEW r \in running, NEW k \in CommBlocks, ~ Counted(comm[r][k], NC(r)),
           NEW q \in Ranks, launch[q] >= launch[r]
    PROVE  launch[q] = launch[r] /\ ~ Final(q)
<1>1. r \in Ranks /\ launch[r] \in 1..MaxLaunches /\ launch[q] \in Nat
  BY Numbers DEF SInv
<1>2. ~ StoresOver(r, launch[r])
  BY <1>1 DEF StoresOver
<1>3. ~ PastFinal(q, launch[r])
  BY <1>1, <1>2 DEF SInv, ThroughRight
<1> QED
  BY <1>1, <1>3 DEF PastFinal

\* A rank that has retired was let through the final pad.
LEMMA RetiredFinal ==
    ASSUME SInv, NEW r \in Ranks, r \notin running, launch[r] >= 1
    PROVE  Final(r)
<1>1. 0 \in CommBlocks
  BY Numbers DEF SInv, CommBlocks
<1> QED
  BY <1>1 DEF SInv, RetiredDone, Final

\* When the final pad has let a rank through and its compute blocks are over, its
\* buffer is complete and nothing is on its way to it.
LEMMA FinalThenComplete ==
    ASSUME SInv, NEW r \in Ranks, launch[r] >= 1, Final(r),
           \A j \in CompBlocks : comp[r][j].chunk = NC(r)
    PROVE  Complete(r) /\ \A s \in inFlight : s.to # r
<1> DEFINE n == launch[r]
<1>1. n \in 1..MaxLaunches /\ NC(r) \in 1..MaxChunk /\ NC(r) = chunksOf[n] /\ n \in Nat \ {0}
  BY Numbers DEF SInv, NC
<1>2. \A q \in Ranks : StoresOver(q, n)
  <2>1. PastFinal(r, n)
    BY DEF PastFinal
  <2> QED
    BY <1>1, <2>1 DEF SInv, ThroughRight
<1>3. ASSUME NEW s \in inFlight, s.to = r
      PROVE  FALSE
  <2>1. /\ s.from[1] \in Ranks /\ s.from[2] \in CommBlocks
        /\ launch[s.from[1]] = n /\ ~ Counted(comm[s.from[1]][s.from[2]], NC(s.from[1]))
    BY <1>3, BlockTypes DEF SInv, StoresRight, Store
  <2> QED
    BY <1>1, <1>2, <2>1 DEF StoresOver
<1>4. ASSUME NEW x \in Cells, x[1] < NC(r)
      PROVE  buf[r][x] = << n, "sum" >>
  <2>1. PICK c \in Chunks, h \in Shards, j \in CompBlocks : x = << c, h, j >>
    BY DEF Cells
  <2>2. PICK q \in Ranks, k \in CommBlocks : h = MyShard(q, k)
    BY ShardFacts DEF SInv
  <2>3. c \in Nat /\ c < NC(r)
    BY <1>4, <2>1, Numbers DEF SInv, Chunks
  <2>4. Written(r, j, c)
    BY <1>1, <2>3 DEF Written
  <2>5. ShardOver(q, k, n, c)
    BY <1>1, <1>2, <2>3, StoresThenShards
  <2>6. Arrived(q, k, r, c)
    BY <1>3 DEF Arrived
  <2> QED
    BY <2>1, <2>2, <2>3, <2>4, <2>5, <2>6 DEF SInv, BufferRight
<1> QED
  BY <1>1, <1>3, <1>4 DEF Complete, UsedCells

LEMMA RetiredThenComplete ==
    ASSUME SInv, NEW r \in Ranks, r \notin running, launch[r] >= 1
    PROVE  Complete(r) /\ \A s \in inFlight : s.to # r
<1>1. \A j \in CompBlocks : comp[r][j].chunk = NC(r)
  BY DEF SInv, RetiredDone
<1> QED
  BY <1>1, RetiredFinal, FinalThenComplete

LEMMA SumsSuffice == SInv => RetiredComplete
<1> SUFFICES ASSUME SInv
             PROVE  RetiredComplete
  OBVIOUS
<1>1. SumsRight
  BY DEF SInv, StoresRight, SumsRight
<1>2. \A r \in Ranks : launch[r] > 0 => launch[r] >= 1
  BY Numbers DEF SInv
<1> QED
  BY <1>1, <1>2, RetiredThenComplete DEF RetiredComplete

-----------------------------------------------------------------------------
(* The start.                                                                *)

LEMMA SumsInitially == Init => SInv
<1> SUFFICES ASSUME Init
             PROVE  SInv
  OBVIOUS
<1>1. IInv
  BY Initially
<1>2. /\ launch = [r \in Ranks |-> 0] /\ running = {} /\ inFlight = {}
      /\ doneFlag = [r \in Ranks |-> 0]
      /\ pads = [r \in Ranks |-> [p \in Pads |-> [q \in Ranks |-> 0]]]
      /\ buf = [r \in Ranks |-> [x \in Cells |-> << 0, "part" >>]]
      /\ comm = [r \in Ranks |-> [k \in CommBlocks |-> [chunk |-> 0, at |-> "ready", sent |-> 0]]]
      /\ comp = [r \in Ranks |-> [j \in CompBlocks |-> [chunk |-> 0, wrote |-> FALSE]]]
  BY DEF Init
<1>3. RetiredDone /\ ArrivalsRight /\ StoresRight
  BY <1>2 DEF RetiredDone, ArrivalsRight, StoresRight
<1>4. PadsRight
  <2> SUFFICES ASSUME NEW d \in Ranks, NEW q \in Ranks, NEW n \in 1..MaxLaunches
               PROVE  /\ \A c \in Chunks : \A k \in CommBlocks :
                             c < chunksOf[n] => pads[d][c * NComm + k][q] # n
                      /\ pads[d][chunksOf[n] * NComm][q] # n
    BY DEF PadsRight
  <2>1. \A p \in Pads : pads[d][p][q] = 0
    BY <1>2
  <2> QED
    BY <1>1, <2>1, PadNumbers
<1>5. ThroughRight
  <2>1. \A r \in Ranks : ~ Final(r) /\ launch[r] = 0
    BY <1>2 DEF Final
  <2>2. \A r \in Ranks : \A n \in 1..MaxLaunches : ~ PastFinal(r, n)
    BY <2>1 DEF PastFinal
  <2>3. \A r \in Ranks : \A k \in CommBlocks : \A c \in Chunks :
            ~ (comm[r][k].chunk > c) /\ comm[r][k].at = "ready"
    BY <1>1, <1>2, Numbers DEF Chunks
  <2> QED
    BY <2>2, <2>3 DEF ThroughRight
<1>6. BufferRight
  BY <1>2 DEF BufferRight
<1> QED
  BY <1>1, <1>3, <1>4, <1>5, <1>6 DEF SInv

-----------------------------------------------------------------------------
(* A step of one communication block that reduces nothing.                   *)

\* The pads of a launch are told apart by their number.
LEMMA PadFacts ==
    ASSUME IInv, NEW r \in running, NEW k \in CommBlocks
    PROVE  /\ \A c \in Chunks : \A i \in CommBlocks :
                  c < NC(r) /\ c * NComm + i = Pad(r, k) => c = comm[r][k].chunk /\ i = k
           /\ NC(r) * NComm = Pad(r, k) => comm[r][k].chunk = NC(r)
<1> DEFINE c0 == comm[r][k].chunk
<1>1. c0 \in Nat /\ c0 <= NC(r) /\ NC(r) \in Nat
  BY BlockFacts DEF Placed, Block
<1>2. NComm \in Nat /\ k \in 0..(NComm - 1) /\ 0 \in 0..(NComm - 1) /\ Chunks \subseteq Nat
  BY Numbers DEF CommBlocks, Chunks
<1>3. Pad(r, k) = IF c0 = NC(r) THEN NC(r) * NComm ELSE c0 * NComm + k
  BY DEF Pad
<1> HIDE DEF c0
<1>4. ASSUME NEW c \in Chunks, NEW i \in CommBlocks, c < NC(r), c * NComm + i = Pad(r, k)
      PROVE  c = c0 /\ i = k
  <2>1. c \in Nat /\ i \in 0..(NComm - 1)
    BY <1>2 DEF CommBlocks
  <2>2. c0 # NC(r)
    <3> SUFFICES ASSUME c0 = NC(r)
                 PROVE  FALSE
      OBVIOUS
    <3>1. c * NComm + i = NC(r) * NComm + 0
      BY <1>1, <1>2, <1>3, <1>4
    <3>2. c = NC(r)
      BY <1>1, <1>2, <2>1, <3>1, SplitOnce
    <3> QED
      BY <1>4, <2>1, <3>2
  <2>3. c * NComm + i = c0 * NComm + k
    BY <1>3, <1>4, <2>2
  <2> QED
    BY <1>1, <1>2, <2>1, <2>3, SplitOnce
<1>5. ASSUME NC(r) * NComm = Pad(r, k)
      PROVE  c0 = NC(r)
  <2> SUFFICES ASSUME c0 # NC(r)
               PROVE  FALSE
    OBVIOUS
  <2>1. NC(r) * NComm + 0 = c0 * NComm + k
    BY <1>1, <1>2, <1>3, <1>5
  <2> QED
    BY <1>1, <1>2, <2>1, SplitOnce
<1> QED
  BY <1>4, <1>5 DEF c0

LEMMA BlockKeeps ==
    ASSUME SInv, IInv',
           UNCHANGED << fixed, launch, running, seqctr, seqPub, ready, buf, inFlight, comp >>,
           NEW r \in running, NEW k \in CommBlocks, NEW b \in Block,
           comm' = [comm EXCEPT ![r][k] = b],
           b.chunk = comm[r][k].chunk,
           Counted(comm[r][k], NC(r)) => Counted(b, NC(r)),
           Counted(b, NC(r)) => Counted(comm[r][k], NC(r)) \/ Fenced(r, k),
           b.at \in {"arrive", "await"} /\ b.chunk < NC(r) => ChunkOver(r, launch[r], b.chunk),
           b.at \in {"arrive", "await"} /\ b.chunk = NC(r) => StoresOver(r, launch[r])',
           b.at = "reduce" => \A q \in Ranks : ChunkOver(q, launch[r], b.chunk),
           doneFlag'[r] = 1 \/ b.at \in {"flagset", "done"} =>
               Final(r) \/ \A q \in Ranks : StoresOver(q, launch[r]),
           \A q \in Ranks : q # r => doneFlag'[q] = doneFlag[q],
           \A d \in Ranks : \A p \in Pads : \A q \in Ranks :
               \/ pads'[d][p][q] = pads[d][p][q]
               \/ q = r /\ p = Pad(r, k) /\ comm[r][k].at = "arrive"
    PROVE  SInv'
<1>1. /\ r \in Ranks /\ NC(r) \in 1..MaxChunk /\ \A q : NC(q)' = NC(q)
      /\ launch[r] \in 1..MaxLaunches /\ NC(r) = chunksOf[launch[r]]
  BY ChunkCount DEF SInv, NC, fixed
<1>2. /\ comm'[r][k] = b
      /\ \A q \in Ranks : \A i \in CommBlocks : << q, i >> # << r, k >> => comm'[q][i] = comm[q][i]
      /\ \A q \in Ranks : \A i \in CommBlocks : comm'[q][i].chunk = comm[q][i].chunk
      /\ \A q \in Ranks : \A i \in CommBlocks :
             Counted(comm[q][i], NC(q)) => Counted(comm'[q][i], NC(q))
  <2>1. comm \in [Ranks -> [CommBlocks -> Block]]
    BY BlockTypes DEF SInv
  <2>2. /\ comm'[r][k] = b
        /\ \A q \in Ranks : \A i \in CommBlocks :
               << q, i >> # << r, k >> => comm'[q][i] = comm[q][i]
    BY <1>1, <2>1
  <2> QED
    BY <1>1, <2>2
<1>3. \A q \in Ranks : \A n \in Nat :
          /\ \A c \in Nat : ChunkOver(q, n, c) => ChunkOver(q, n, c)'
          /\ \A i \in CommBlocks : \A c \in Nat :
                 ShardOver(q, i, n, c)' <=> ShardOver(q, i, n, c)
          /\ StoresOver(q, n) => StoresOver(q, n)'
  <2>1. /\ \A q \in Ranks : launch'[q] \in Nat /\ launch'[q] >= launch[q]
        /\ \A q \in Ranks : \A j \in CompBlocks :
               comp'[q][j].chunk \in Nat /\ comp'[q][j].chunk >= comp[q][j].chunk
        /\ \A q \in Ranks : \A i \in CommBlocks :
               comm'[q][i].chunk \in Nat /\ comm'[q][i].chunk >= comm[q][i].chunk
    BY <1>2, Numbers, BlockTypes DEF SInv
  <2>2. \A q \in Ranks : \A n \in Nat : \A i \in CommBlocks : \A c \in Nat :
            ShardOver(q, i, n, c)' <=> ShardOver(q, i, n, c)
    BY <1>2 DEF ShardOver
  <2> QED
    BY <1>2, <2>1, <2>2, OverKept DEF SInv
<1>4. Chunks \subseteq Nat /\ 1..MaxLaunches \subseteq Nat /\ launch \in [Ranks -> Nat]
  BY Numbers DEF SInv, Chunks
<1>5. RetiredDone'
  <2>1. RetiredDone
    BY DEF SInv
  <2>2. \A q \in Ranks : q \notin running => q # r
    OBVIOUS
  <2> QED
    BY <1>1, <1>2, <2>1, <2>2, SameGrid DEF RetiredDone
<1>6. ArrivalsRight'
  <2> SUFFICES ASSUME NEW q \in running, NEW i \in CommBlocks
               PROVE  /\ \A c \in Chunks : comm'[q][i].at \in {"arrive", "await"}
                                           /\ comm'[q][i].chunk = c /\ c < NC(q) =>
                              ChunkOver(q, launch[q], c)'
                      /\ comm'[q][i].at \in {"arrive", "await"} /\ comm'[q][i].chunk = NC(q) =>
                              StoresOver(q, launch[q])'
    BY <1>1, SameGrid DEF ArrivalsRight
  <2>1. q \in Ranks /\ launch[q] \in Nat
    BY <1>4, Numbers DEF SInv
  <2>2. CASE << q, i >> = << r, k >>
    BY <1>2, <1>3, <1>4, <2>1, <2>2
  <2>3. CASE << q, i >> # << r, k >>
    BY <1>2, <1>3, <1>4, <2>1, <2>3 DEF SInv, ArrivalsRight
  <2> QED
    BY <2>2, <2>3
<1>7. PadsRight'
  <2> SUFFICES ASSUME NEW d \in Ranks, NEW q \in Ranks, NEW n \in 1..MaxLaunches
               PROVE  /\ \A c \in Chunks : \A i \in CommBlocks :
                             c < chunksOf[n] /\ pads'[d][c * NComm + i][q] = n =>
                                 ChunkOver(q, n, c)'
                      /\ pads'[d][chunksOf[n] * NComm][q] = n => StoresOver(q, n)'
    BY SameGrid DEF PadsRight, fixed
  <2>0. /\ NComm \in Nat \ {0} /\ MaxChunk \in Nat \ {0} /\ chunksOf[n] \in 1..MaxChunk
        /\ n \in Nat /\ Chunks = 0..(MaxChunk - 1)
    BY Numbers DEF SInv, Chunks
  <2>1. ASSUME NEW p \in Pads, pads'[d][p][q] = n, pads'[d][p][q] # pads[d][p][q]
        PROVE  /\ q = r /\ p = Pad(r, k) /\ comm[r][k].at = "arrive"
               /\ n <= launch[r]
               /\ n = launch[r] => chunksOf[n] = NC(r)
    <3>1. pads'[d][p][q] <= launch'[q]
      BY <2>1, SameGrid DEF IInv, Numbered
    <3> QED
      BY <1>1, <2>1, <3>1
  <2>2. ASSUME n < launch[r]
        PROVE  StoresOver(r, n)' /\ \A c \in Nat : ChunkOver(r, n, c)'
    BY <2>2 DEF StoresOver, ChunkOver
  <2>3. ASSUME NEW c \in Chunks, NEW i \in CommBlocks, c < chunksOf[n],
               pads'[d][c * NComm + i][q] = n
        PROVE  ChunkOver(q, n, c)'
    <3>1. c * NComm + i \in Pads /\ c \in Nat
      BY <2>0, PadNumbers DEF SInv
    <3>2. CASE pads[d][c * NComm + i][q] = n
      <4>1. ChunkOver(q, n, c)
        BY <2>3, <3>2 DEF SInv, PadsRight
      <4> QED
        BY <1>3, <2>0, <3>1, <4>1
    <3>3. CASE pads[d][c * NComm + i][q] # n
      <4>1. /\ q = r /\ c * NComm + i = Pad(r, k) /\ comm[r][k].at = "arrive"
            /\ n <= launch[r] /\ (n = launch[r] => chunksOf[n] = NC(r))
        BY <2>1, <2>3, <3>1, <3>3
      <4>2. CASE n < launch[r]
        BY <2>2, <3>1, <4>1, <4>2
      <4>3. CASE n = launch[r]
        <5>1. c = comm[r][k].chunk /\ c < NC(r)
          BY <2>3, <4>1, <4>3, PadFacts DEF SInv
        <5>2. ChunkOver(r, n, c)
          BY <4>1, <4>3, <5>1 DEF SInv, ArrivalsRight
        <5> QED
          BY <1>3, <2>0, <3>1, <4>1, <5>2
      <4> QED
        BY <1>1, <2>0, <4>1, <4>2, <4>3
    <3> QED
      BY <3>2, <3>3
  <2>4. ASSUME pads'[d][chunksOf[n] * NComm][q] = n
        PROVE  StoresOver(q, n)'
    <3>1. chunksOf[n] * NComm \in Pads
      BY PadNumbers DEF SInv
    <3>2. CASE pads[d][chunksOf[n] * NComm][q] = n
      <4>1. StoresOver(q, n)
        BY <3>2 DEF SInv, PadsRight
      <4> QED
        BY <1>3, <2>0, <4>1
    <3>3. CASE pads[d][chunksOf[n] * NComm][q] # n
      <4>1. /\ q = r /\ chunksOf[n] * NComm = Pad(r, k) /\ comm[r][k].at = "arrive"
            /\ n <= launch[r] /\ (n = launch[r] => chunksOf[n] = NC(r))
        BY <2>1, <2>4, <3>1, <3>3
      <4>2. CASE n < launch[r]
        BY <2>2, <4>1, <4>2
      <4>3. CASE n = launch[r]
        <5>1. comm[r][k].chunk = NC(r)
          BY <4>1, <4>3, PadFacts DEF SInv
        <5>2. StoresOver(r, n)
          BY <4>1, <4>3, <5>1 DEF SInv, ArrivalsRight
        <5> QED
          BY <1>3, <2>0, <4>1, <5>2
      <4> QED
        BY <1>1, <2>0, <4>1, <4>2, <4>3
    <3> QED
      BY <3>2, <3>3
  <2> QED
    BY <2>3, <2>4
<1>8. ThroughRight'
  <2> SUFFICES ASSUME NEW p \in Ranks, NEW q \in Ranks
               PROVE  /\ \A i \in CommBlocks : \A c \in Chunks :
                          comm'[p][i].chunk > c
                          \/ (comm'[p][i].at = "reduce" /\ comm'[p][i].chunk = c) =>
                              ChunkOver(q, launch[p], c)'
                      /\ \A n \in 1..MaxLaunches : PastFinal(p, n)' => StoresOver(q, n)'
    BY SameGrid DEF ThroughRight
  <2>1. ASSUME NEW i \in CommBlocks, NEW c \in Chunks,
               comm'[p][i].chunk > c \/ (comm'[p][i].at = "reduce" /\ comm'[p][i].chunk = c)
        PROVE  ChunkOver(q, launch[p], c)'
    <3>1. ChunkOver(q, launch[p], c)
      <4>1. CASE << p, i >> = << r, k >> /\ b.at = "reduce" /\ b.chunk = c
        BY <4>1
      <4>2. CASE << p, i >> # << r, k >> \/ comm'[p][i].chunk > c
        BY <1>2, <2>1, <4>2 DEF SInv, ThroughRight
      <4> QED
        BY <1>2, <2>1, <4>1, <4>2
    <3> QED
      BY <1>3, <1>4, <3>1
  <2>2. ASSUME NEW n \in 1..MaxLaunches, PastFinal(p, n)'
        PROVE  StoresOver(q, n)'
    <3>1. StoresOver(q, n)
      <4>1. CASE PastFinal(p, n)
        BY <4>1 DEF SInv, ThroughRight
      <4>2. CASE ~ PastFinal(p, n)
        <5>1. n = launch[p] /\ Final(p)' /\ ~ Final(p)
          BY <2>2, <4>2 DEF PastFinal
        <5>2. p = r
          <6> SUFFICES ASSUME p # r
                       PROVE  Final(p)' => Final(p)
            BY <5>1
          <6>1. doneFlag'[p] = doneFlag[p] /\ \A i \in CommBlocks : comm'[p][i] = comm[p][i]
            BY <1>2
          <6> QED
            BY <6>1, SameGrid DEF Final
        <5>3. doneFlag'[r] = 1 \/ b.at \in {"flagset", "done"}
          BY <1>1, <1>2, <5>1, <5>2, SameGrid DEF Final
        <5> QED
          BY <5>1, <5>2, <5>3
      <4> QED
        BY <4>1, <4>2
    <3> QED
      BY <1>3, <1>4, <3>1
  <2> QED
    BY <2>1, <2>2
<1>9. StoresRight'
  <2> SUFFICES ASSUME NEW s \in inFlight
               PROVE  /\ s.from[1] \in running
                      /\ launch[s.to] = launch[s.from[1]]
                      /\ s.chunk < comm'[s.from[1]][s.from[2]].chunk
                      /\ ~ Counted(comm'[s.from[1]][s.from[2]], NC(s.from[1]))
                      /\ \A j \in CompBlocks :
                             s.value[j] = << launch[s.from[1]], "sum" >>
    BY <1>1, SameGrid DEF StoresRight, Counted
  <2>1. /\ s.from[1] \in Ranks /\ s.from[2] \in CommBlocks
        /\ s.from = << s.from[1], s.from[2] >>
    BY BlockTypes DEF SInv, Store
  <2>2. /\ s.from[1] \in running
        /\ launch[s.to] = launch[s.from[1]]
        /\ s.chunk < comm[s.from[1]][s.from[2]].chunk
        /\ ~ Counted(comm[s.from[1]][s.from[2]], NC(s.from[1]))
        /\ \A j \in CompBlocks : s.value[j] = << launch[s.from[1]], "sum" >>
    BY DEF SInv, StoresRight
  <2>3. CASE s.from = << r, k >>
    <3>1. ~ Fenced(r, k)
      BY <2>3 DEF Fenced
    <3> QED
      BY <1>2, <2>1, <2>2, <2>3, <3>1
  <2>4. CASE s.from # << r, k >>
    BY <1>2, <2>1, <2>2, <2>4
  <2> QED
    BY <2>3, <2>4
<1>10. BufferRight'
  <2>1. /\ \A q \in Ranks : \A j : \A c : Written(q, j, c)' <=> Written(q, j, c)
        /\ \A q, i, p, c : Arrived(q, i, p, c)' <=> Arrived(q, i, p, c)
        /\ \A q, i : MyShard(q, i)' = MyShard(q, i)
    BY SameGrid DEF Written, Arrived, MyShard
  <2>2. \A p \in Ranks : \A q \in Ranks : \A i \in CommBlocks : \A c \in Chunks :
            ShardOver(q, i, launch[p], c)' <=> ShardOver(q, i, launch[p], c)
    BY <1>3, <1>4
  <2> QED
    BY <1>1, <2>1, <2>2, SameGrid DEF SInv, BufferRight
<1> QED
  BY <1>5, <1>6, <1>7, <1>8, <1>9, <1>10 DEF SInv

\* All blocks counted, the count of tp_done_local says so.
LEMMA AllCounted ==
    ASSUME IInv, NEW r \in running, doneLocal[r] = NComm
    PROVE  StoresOver(r, launch[r])
<1>1. NComm \in Nat /\ CountedSet(r) \subseteq CommBlocks /\ CommBlocks = 0..(NComm - 1)
  BY Numbers DEF CountedSet, CommBlocks
<1>2. IsFiniteSet(CommBlocks) /\ Cardinality(CommBlocks) = NComm
  BY <1>1, FS_Interval
<1>3. Cardinality(CountedSet(r)) = NComm
  BY DEF IInv, CountsRight
<1>4. CountedSet(r) = CommBlocks
  BY <1>1, <1>2, <1>3, FS_Subset
<1> QED
  BY <1>4 DEF CountedSet, StoresOver

\* All compute blocks have signalled a chunk, its tp_ready says so.
LEMMA AllSignalled ==
    ASSUME IInv, NEW r \in running, NEW c \in Chunks, ready[r][c] >= NComp
    PROVE  ChunkOver(r, launch[r], c)
<1>1. /\ NComp \in Nat /\ Signalled(r, c) \subseteq CompBlocks /\ CompBlocks = 0..(NComp - 1)
      /\ r \in Ranks
  BY Numbers DEF Signalled, CompBlocks
<1>2. IsFiniteSet(CompBlocks) /\ Cardinality(CompBlocks) = NComp
  BY <1>1, FS_Interval
<1>3. Cardinality(Signalled(r, c)) >= NComp
  BY <1>1 DEF IInv, CountsRight
<1>4. Cardinality(Signalled(r, c)) \in 0..NComp
  BY <1>1, PartSize
<1>5. Signalled(r, c) = CompBlocks
  BY <1>1, <1>2, <1>3, <1>4, FS_Subset
<1> QED
  BY <1>5 DEF Signalled, ChunkOver

LEMMA SumsAwaitReady ==
    ASSUME SInv, IInv', NEW r \in Ranks, NEW k \in CommBlocks, AwaitReady(r, k)
    PROVE  SInv'
<1> DEFINE b == [comm[r][k] EXCEPT !.at = "arrive"]
<1>1. r \in running /\ comm[r][k].at = "ready" /\ comm' = [comm EXCEPT ![r][k] = b]
  BY DEF AwaitReady, At, Go
<1>2. b \in Block /\ b.at = "arrive" /\ b.chunk = comm[r][k].chunk /\ b.chunk \in Nat
  BY <1>1, BlockFacts DEF Block, SInv
<1> HIDE DEF b
<1>3. b.chunk < NC(r) /\ NC(r) \in 1..MaxChunk /\ MaxChunk \in Nat
  BY <1>1, <1>2, BlockFacts DEF Placed, SInv
<1>4. ~ Counted(comm[r][k], NC(r)) /\ ~ Counted(b, NC(r))
  BY <1>1, <1>2, <1>3 DEF Counted
<1>5. ChunkOver(r, launch[r], b.chunk)
  <2>1. b.chunk \in Chunks
    BY <1>2, <1>3 DEF Chunks
  <2>2. ready[r][b.chunk] >= NComp
    BY <1>2 DEF AwaitReady, Enough
  <2> QED
    BY <1>1, <2>1, <2>2, AllSignalled DEF SInv
<1>6. UNCHANGED << fixed, launch, running, words, buf, inFlight, comp >>
  BY DEF AwaitReady
<1>7. doneFlag'[r] = 1 => Final(r)
  BY <1>6 DEF words, Final
<1>8. b.chunk # NC(r) /\ b.at \notin {"reduce", "flagset", "done"}
  BY <1>2, <1>3
<1>9. \A d \in Ranks : \A p \in Pads : \A q \in Ranks : pads'[d][p][q] = pads[d][p][q]
  BY <1>6 DEF words
<1> QED
  BY <1>1, <1>2, <1>4, <1>5, <1>6, <1>7, <1>8, <1>9, BlockKeeps DEF words

LEMMA SumsArriveAt ==
    ASSUME SInv, IInv', NEW r \in Ranks, NEW k \in CommBlocks, ArriveAt(r, k)
    PROVE  SInv'
<1> DEFINE b == comm'[r][k]
<1>1. /\ r \in running /\ comm[r][k].at = "arrive"
      /\ pads' = [pads EXCEPT ![comm[r][k].sent][Pad(r, k)][r] = seqPub[r]]
      /\ UNCHANGED << fixed, launch, running, seqctr, seqPub, ready, doneLocal, doneFlag,
                      buf, inFlight, comp >>
  BY DEF ArriveAt, At
<1>2. /\ comm \in [Ranks -> [CommBlocks -> Block]] /\ comm[r][k] \in Block
      /\ comm[r][k].sent \in Ranks
  BY BlockTypes DEF SInv, Block, Ranks
<1>3. /\ comm' = [comm EXCEPT ![r][k] = b] /\ b \in Block
      /\ b.at \in {"arrive", "await"} /\ b.chunk = comm[r][k].chunk
  <2>1. comm' \in [Ranks -> [CommBlocks -> Block]]
    <3>1. IInv'
      OBVIOUS
    <3> QED
      BY <1>1, <3>1, SameGrid DEF IInv, TypeOK, Block
  <2>2. CASE comm[r][k].sent + 1 < World
    BY <1>1, <1>2, <2>1, <2>2 DEF ArriveAt, Block
  <2>3. CASE ~ (comm[r][k].sent + 1 < World)
    BY <1>1, <1>2, <2>1, <2>3 DEF ArriveAt, Block
  <2> QED
    BY <2>2, <2>3
<1> HIDE DEF b
<1>4. Counted(b, NC(r)) <=> Counted(comm[r][k], NC(r))
  BY <1>1, <1>3 DEF Counted
<1>5. /\ b.chunk < NC(r) => ChunkOver(r, launch[r], b.chunk)
      /\ b.chunk = NC(r) => StoresOver(r, launch[r])
  <2>1. b.chunk \in Nat /\ NC(r) \in 1..MaxChunk /\ MaxChunk \in Nat
    BY <1>1, <1>3, BlockFacts DEF SInv, Block
  <2>2. b.chunk < NC(r) => b.chunk \in Chunks
    BY <2>1 DEF Chunks
  <2> QED
    BY <1>1, <1>3, <2>2 DEF SInv, ArrivalsRight
<1>6. StoresOver(r, launch[r]) => StoresOver(r, launch[r])'
  <2>1. /\ launch'[r] = launch[r] /\ NC(r)' = NC(r) /\ CommBlocks' = CommBlocks
        /\ launch[r] \in Nat
    BY <1>1, SameGrid, Numbers DEF NC, fixed, SInv
  <2>2. \A i \in CommBlocks : Counted(comm[r][i], NC(r)) => Counted(comm'[r][i], NC(r))
    BY <1>2, <1>3, <1>4
  <2>3. \A i \in CommBlocks : Counted(comm[r][i], NC(r)) => Counted(comm[r][i], NC(r))'
    BY <2>1, <2>2 DEF Counted
  <2> QED
    BY <2>1, <2>3 DEF StoresOver
<1>7. doneFlag'[r] = 1 => Final(r)
  BY <1>1 DEF Final
<1>8. \A d \in Ranks : \A p \in Pads : \A q \in Ranks :
          \/ pads'[d][p][q] = pads[d][p][q]
          \/ q = r /\ p = Pad(r, k) /\ comm[r][k].at = "arrive"
  BY <1>1, WordFacts DEF SInv
<1> QED
  BY <1>1, <1>3, <1>4, <1>5, <1>6, <1>7, <1>8, BlockKeeps

LEMMA SumsAwaitPeers ==
    ASSUME SInv, IInv', NEW r \in Ranks, NEW k \in CommBlocks, AwaitPeers(r, k)
    PROVE  SInv'
<1> DEFINE c == comm[r][k].chunk
           b == [comm[r][k] EXCEPT !.at = IF c = NC(r) THEN "flagset" ELSE "reduce"]
<1>1. /\ r \in running /\ comm[r][k].at = "await" /\ comm' = [comm EXCEPT ![r][k] = b]
      /\ \A q \in Ranks : pads[r][Pad(r, k)][q] >= seqPub[r]
      /\ UNCHANGED << fixed, launch, running, words, buf, inFlight, comp >>
  BY DEF AwaitPeers, At, Go
<1>2. /\ b \in Block /\ b.at = IF c = NC(r) THEN "flagset" ELSE "reduce"
      /\ b.chunk = c /\ c \in Nat
  BY <1>1, BlockFacts DEF Block, SInv
<1>3. /\ c \in Nat /\ c <= NC(r) /\ NC(r) \in 1..MaxChunk /\ MaxChunk \in Nat
      /\ launch[r] \in 1..MaxLaunches /\ NC(r) = chunksOf[launch[r]]
  BY <1>1, <1>2, BlockFacts, ChunkCount DEF Placed, SInv, NC
<1>4. Pad(r, k) = IF c = NC(r) THEN NC(r) * NComm ELSE c * NComm + k
  BY DEF Pad
<1> HIDE DEF b, c
<1>5. Counted(b, NC(r)) <=> Counted(comm[r][k], NC(r))
  BY <1>1, <1>2, <1>3 DEF Counted, c
<1>6. ASSUME NEW q \in Ranks
      PROVE  \/ launch[q] > launch[r]
             \/ launch[q] = launch[r] /\ pads[r][Pad(r, k)][q] = launch[r]
  <2>1. Pad(r, k) \in Pads
    BY <1>1, PadInRange DEF SInv
  <2>2. pads[r][Pad(r, k)][q] <= launch[q] /\ pads[r][Pad(r, k)][q] \in Nat
    BY <2>1, WordFacts, Numbers DEF SInv
  <2> QED
    BY <1>1, <2>2, Numbers DEF SInv
<1>7. ASSUME b.at = "reduce", NEW q \in Ranks
      PROVE  ChunkOver(q, launch[r], b.chunk)
  <2>1. c \in Chunks /\ c < NC(r) /\ Pad(r, k) = c * NComm + k
    BY <1>2, <1>3, <1>4, <1>7 DEF Chunks
  <2>2. CASE launch[q] > launch[r]
    BY <2>2 DEF ChunkOver
  <2>3. CASE pads[r][Pad(r, k)][q] = launch[r]
    BY <1>2, <1>3, <2>1, <2>3 DEF SInv, PadsRight
  <2> QED
    BY <1>6, <2>2, <2>3
<1>8. ASSUME b.at = "flagset", NEW q \in Ranks
      PROVE  StoresOver(q, launch[r])
  <2>1. Pad(r, k) = chunksOf[launch[r]] * NComm
    BY <1>2, <1>3, <1>4, <1>8
  <2>2. CASE launch[q] > launch[r]
    BY <2>2 DEF StoresOver
  <2>3. CASE pads[r][Pad(r, k)][q] = launch[r]
    BY <1>3, <2>1, <2>3 DEF SInv, PadsRight
  <2> QED
    BY <1>6, <2>2, <2>3
<1>9. b.at \in {"flagset", "reduce"} /\ b.chunk = comm[r][k].chunk
  BY <1>2 DEF c
<1>10. doneFlag'[r] = 1 => Final(r)
  BY <1>1 DEF words, Final
<1> QED
  BY <1>1, <1>2, <1>5, <1>7, <1>8, <1>9, <1>10, BlockKeeps DEF words

LEMMA SumsCountDone ==
    ASSUME SInv, IInv', NEW r \in Ranks, NEW k \in CommBlocks, CountDone(r, k)
    PROVE  SInv'
<1> DEFINE b == [comm[r][k] EXCEPT !.at = IF Last(r) THEN "arrive" ELSE "flagwait"]
<1>1. /\ r \in running /\ comm[r][k].at = "fence" /\ comm' = [comm EXCEPT ![r][k] = b]
      /\ Fenced(r, k) /\ doneLocal' = [doneLocal EXCEPT ![r] = @ + 1]
      /\ UNCHANGED << fixed, launch, running, seqctr, seqPub, ready, doneFlag, pads,
                      buf, inFlight, comp >>
  BY DEF CountDone, At, Go
<1>2. /\ b \in Block /\ b.at = IF Last(r) THEN "arrive" ELSE "flagwait"
      /\ b.chunk = comm[r][k].chunk
  BY <1>1, BlockFacts DEF Block, SInv
<1>3. comm[r][k].chunk = NC(r) /\ NC(r) \in 1..MaxChunk /\ MaxChunk \in Nat
  BY <1>1, BlockFacts DEF Placed, SInv
<1> HIDE DEF b
<1>4. ~ Counted(comm[r][k], NC(r)) /\ b.at \in {"arrive", "flagwait"}
  BY <1>1, <1>2 DEF Counted
<1>5. b.at = "arrive" => StoresOver(r, launch[r])'
  <2> SUFFICES ASSUME Last(r)
               PROVE  StoresOver(r, launch[r])'
    BY <1>2
  <2>1. IInv' /\ r \in running' /\ NComm' = NComm
    BY <1>1, SameGrid
  <2>2. doneLocal'[r] = NComm
    BY <1>1, BlockTypes, Numbers DEF Last, SInv
  <2>3. (doneLocal[r] = NComm)'
    BY <2>1, <2>2
  <2>4. NComm' \in Nat /\ CountedSet(r)' \subseteq CommBlocks' /\ CommBlocks' = 0..(NComm' - 1)
    BY <2>1, Numbers DEF CountedSet, CommBlocks, SInv
  <2>5. IsFiniteSet(CommBlocks') /\ Cardinality(CommBlocks') = NComm'
    BY <2>4, FS_Interval
  <2>6. Cardinality(CountedSet(r)') = NComm'
    BY <2>1, <2>3 DEF IInv, CountsRight
  <2>7. CountedSet(r)' = CommBlocks'
    BY <2>4, <2>5, <2>6, FS_Subset
  <2> QED
    BY <2>7 DEF CountedSet, StoresOver
<1>6. doneFlag'[r] = 1 => Final(r)
  BY <1>1 DEF Final
<1>7. ~ (b.chunk < NC(r)) /\ b.at \notin {"await", "reduce", "flagset", "done"}
  BY <1>2, <1>3, <1>4
<1>8. \A d \in Ranks : \A p \in Pads : \A q \in Ranks : pads'[d][p][q] = pads[d][p][q]
  BY <1>1
<1> QED
  BY <1>1, <1>2, <1>4, <1>5, <1>6, <1>7, <1>8, BlockKeeps

LEMMA SumsSetFlag ==
    ASSUME SInv, IInv', NEW r \in Ranks, NEW k \in CommBlocks, SetFlag(r, k)
    PROVE  SInv'
<1> DEFINE b == [comm[r][k] EXCEPT !.at = "done"]
<1>1. /\ r \in running /\ comm[r][k].at = "flagset" /\ comm' = [comm EXCEPT ![r][k] = b]
      /\ doneFlag' = [doneFlag EXCEPT ![r] = 1]
      /\ UNCHANGED << fixed, launch, running, seqctr, seqPub, ready, doneLocal, pads,
                      buf, inFlight, comp >>
  BY DEF SetFlag, At, Go
<1>2. b \in Block /\ b.at = "done" /\ b.chunk = comm[r][k].chunk
  BY <1>1, BlockFacts DEF Block, SInv
<1> HIDE DEF b
<1>3. Final(r) /\ Counted(comm[r][k], NC(r)) /\ Counted(b, NC(r))
  BY <1>1, <1>2 DEF Final, Counted
<1>4. \A q \in Ranks : q # r => doneFlag'[q] = doneFlag[q]
  BY <1>1, BlockTypes DEF SInv
<1> QED
  BY <1>1, <1>2, <1>3, <1>4, BlockKeeps

LEMMA SumsAwaitFlag ==
    ASSUME SInv, IInv', NEW r \in Ranks, NEW k \in CommBlocks, AwaitFlag(r, k)
    PROVE  SInv'
<1> DEFINE b == [comm[r][k] EXCEPT !.at = "done"]
<1>1. /\ r \in running /\ comm[r][k].at = "flagwait" /\ comm' = [comm EXCEPT ![r][k] = b]
      /\ doneFlag[r] # 0
      /\ UNCHANGED << fixed, launch, running, words, buf, inFlight, comp >>
  BY DEF AwaitFlag, At, Go
<1>2. b \in Block /\ b.at = "done" /\ b.chunk = comm[r][k].chunk
  BY <1>1, BlockFacts DEF Block, SInv
<1> HIDE DEF b
<1>3. Final(r) /\ Counted(comm[r][k], NC(r)) /\ Counted(b, NC(r))
  BY <1>1, <1>2, BlockTypes DEF Final, Counted, SInv
<1> QED
  BY <1>1, <1>2, <1>3, BlockKeeps DEF words

-----------------------------------------------------------------------------
(* The steps of the compute blocks, and of the stores in flight.             *)

LEMMA OthersKeep ==
    ASSUME SInv, IInv', UNCHANGED << fixed, launch, running, doneFlag, pads, comm >>,
           inFlight' \subseteq inFlight,
           \A q \in Ranks : q \notin running => comp'[q] = comp[q],
           \A q \in Ranks : \A j \in CompBlocks :
               comp'[q][j].chunk \in Nat /\ comp'[q][j].chunk >= comp[q][j].chunk
    PROVE  /\ RetiredDone' /\ ArrivalsRight' /\ PadsRight' /\ ThroughRight' /\ StoresRight'
           /\ \A q \in Ranks : NC(q)' = NC(q)
           /\ \A p \in Ranks : \A q \in Ranks : \A i \in CommBlocks : \A c \in Chunks :
                  ShardOver(q, i, launch[p], c)' <=> ShardOver(q, i, launch[p], c)
<1>1. \A q : NC(q)' = NC(q)
  BY DEF NC, fixed
<1>2. \A q \in Ranks : \A n \in Nat :
          /\ \A c \in Nat : ChunkOver(q, n, c) => ChunkOver(q, n, c)'
          /\ StoresOver(q, n) => StoresOver(q, n)'
  <2>1. /\ \A q \in Ranks : launch'[q] \in Nat /\ launch'[q] >= launch[q]
        /\ \A q \in Ranks : \A i \in CommBlocks :
               comm'[q][i].chunk \in Nat /\ comm'[q][i].chunk >= comm[q][i].chunk
    BY Numbers, BlockTypes DEF SInv
  <2> QED
    BY <2>1, OverKept DEF SInv
<1>3. Chunks \subseteq Nat /\ 1..MaxLaunches \subseteq Nat /\ launch \in [Ranks -> Nat]
      /\ running \subseteq Ranks
  BY Numbers DEF SInv, Chunks
<1>4. RetiredDone'
  BY <1>1, SameGrid DEF SInv, RetiredDone
<1>5. ArrivalsRight'
  <2> SUFFICES ASSUME NEW q \in running, NEW i \in CommBlocks
               PROVE  /\ \A c \in Chunks : comm[q][i].at \in {"arrive", "await"}
                                           /\ comm[q][i].chunk = c /\ c < NC(q) =>
                              ChunkOver(q, launch[q], c)'
                      /\ comm[q][i].at \in {"arrive", "await"} /\ comm[q][i].chunk = NC(q) =>
                              StoresOver(q, launch[q])'
    BY <1>1, SameGrid DEF ArrivalsRight
  <2> QED
    BY <1>2, <1>3 DEF SInv, ArrivalsRight
<1>6. PadsRight'
  <2> SUFFICES ASSUME NEW d \in Ranks, NEW q \in Ranks, NEW n \in 1..MaxLaunches
               PROVE  /\ \A c \in Chunks : \A i \in CommBlocks :
                             c < chunksOf[n] /\ pads[d][c * NComm + i][q] = n =>
                                 ChunkOver(q, n, c)'
                      /\ pads[d][chunksOf[n] * NComm][q] = n => StoresOver(q, n)'
    BY SameGrid DEF PadsRight, fixed
  <2> QED
    BY <1>2, <1>3 DEF SInv, PadsRight
<1>7. ThroughRight'
  <2> SUFFICES ASSUME NEW p \in Ranks, NEW q \in Ranks
               PROVE  /\ \A i \in CommBlocks : \A c \in Chunks :
                          comm[p][i].chunk > c
                          \/ (comm[p][i].at = "reduce" /\ comm[p][i].chunk = c) =>
                              ChunkOver(q, launch[p], c)'
                      /\ \A n \in 1..MaxLaunches : PastFinal(p, n)' => StoresOver(q, n)'
    BY SameGrid DEF ThroughRight
  <2>1. \A n : PastFinal(p, n)' <=> PastFinal(p, n)
    BY SameGrid DEF PastFinal, Final
  <2> QED
    BY <1>2, <1>3, <2>1 DEF SInv, ThroughRight
<1>8. StoresRight'
  <2>1. \A q : \A i : Counted(comm[q][i], NC(q))' <=> Counted(comm[q][i], NC(q))
    BY <1>1 DEF Counted
  <2> QED
    BY <2>1, SameGrid DEF SInv, StoresRight
<1>9. \A p \in Ranks : \A q \in Ranks : \A i \in CommBlocks : \A c \in Chunks :
          ShardOver(q, i, launch[p], c)' <=> ShardOver(q, i, launch[p], c)
  BY DEF ShardOver
<1> QED
  BY <1>1, <1>4, <1>5, <1>6, <1>7, <1>8, <1>9

\* A chunk that some compute block of a rank has not signalled yet has been
\* reduced by nobody in the rank's launch.
LEMMA NotOverYet ==
    ASSUME SInv, NEW r \in running, NEW j \in CompBlocks, NEW c \in Chunks,
           c < NC(r), comp[r][j].chunk <= c,
           NEW q \in Ranks, NEW k \in CommBlocks
    PROVE  ~ ShardOver(q, k, launch[r], c)
<1> SUFFICES ASSUME ShardOver(q, k, launch[r], c)
             PROVE  FALSE
  OBVIOUS
<1>1. /\ r \in Ranks /\ launch[r] \in 1..MaxLaunches /\ launch[q] \in Nat /\ c \in Nat
      /\ NC(r) = chunksOf[launch[r]] /\ launch[r] \in Nat \ {0}
      /\ comp[r][j].chunk \in Nat
  BY Numbers, BlockTypes DEF SInv, Chunks, NC
<1>2. ~ ChunkOver(r, launch[r], c)
  BY <1>1 DEF ChunkOver
<1>3. \A i \in CommBlocks : ~ (comm[r][i].chunk > c)
  BY <1>1, <1>2 DEF SInv, ThroughRight
<1>4. CASE launch[q] = launch[r]
  BY <1>1, <1>2, <1>4 DEF SInv, ThroughRight, ShardOver
<1>5. CASE launch[q] > launch[r]
  <2>1. StoresOver(r, launch[r])
    BY <1>1, <1>5, BeyondFinal
  <2>2. ShardOver(r, k, launch[r], c)
    BY <1>1, <2>1, StoresThenShards
  <2> QED
    BY <1>1, <1>3, <2>2 DEF ShardOver
<1> QED
  BY <1>1, <1>4, <1>5 DEF ShardOver

LEMMA SumsWrite ==
    ASSUME SInv, IInv', NEW r \in Ranks, NEW j \in CompBlocks, Write(r, j)
    PROVE  SInv'
<1> DEFINE c0 == comp[r][j].chunk
<1>1. /\ r \in running /\ c0 < NC(r) /\ ~ comp[r][j].wrote
      /\ buf' = [buf EXCEPT ![r] = [x \in Cells |->
              IF x[1] = c0 /\ x[3] = j THEN << launch[r], "part" >> ELSE @[x]]]
      /\ comp' = [comp EXCEPT ![r][j].wrote = TRUE]
      /\ UNCHANGED << fixed, launch, running, words, inFlight, comm >>
  BY DEF Write
<1>2. /\ c0 \in Nat /\ c0 \in Chunks /\ NC(r) \in 1..MaxChunk
      /\ launch[r] \in 1..MaxLaunches /\ launch \in [Ranks -> Nat]
  <2>1. c0 \in Nat /\ NC(r) \in 1..MaxChunk /\ launch[r] \in 1..MaxLaunches
    BY <1>1, BlockTypes, Numbers DEF SInv
  <2> QED
    BY <1>1, <2>1, Numbers DEF SInv, Chunks
<1>3. \A q \in Ranks : \A i \in CompBlocks :
          /\ comp'[q][i].chunk = comp[q][i].chunk
          /\ comp'[q][i].wrote = (comp[q][i].wrote \/ (q = r /\ i = j))
  <2> SUFFICES ASSUME NEW q \in Ranks, NEW i \in CompBlocks
               PROVE  /\ comp'[q][i].chunk = comp[q][i].chunk
                      /\ comp'[q][i].wrote = (comp[q][i].wrote \/ (q = r /\ i = j))
    OBVIOUS
  <2>1. comp[q][i] \in [chunk : 0..MaxChunk, wrote : BOOLEAN]
    BY BlockTypes DEF SInv
  <2>2. CASE q = r /\ i = j
    <3>1. comp'[r][j] = [comp[r][j] EXCEPT !.wrote = TRUE]
      BY <1>1, BlockTypes DEF SInv
    <3> QED
      BY <2>1, <2>2, <3>1
  <2>3. CASE ~ (q = r /\ i = j)
    <3>1. comp'[q][i] = comp[q][i]
      BY <1>1, <2>3, BlockTypes DEF SInv
    <3> QED
      BY <2>1, <2>3, <3>1
  <2> QED
    BY <2>2, <2>3
<1> HIDE DEF c0
<1>4. /\ \A q \in Ranks : q # r => buf'[q] = buf[q]
      /\ \A x \in Cells : buf'[r][x] =
             IF x[1] = c0 /\ x[3] = j THEN << launch[r], "part" >> ELSE buf[r][x]
  BY <1>1, BlockTypes DEF SInv, c0
<1>5. /\ RetiredDone' /\ ArrivalsRight' /\ PadsRight' /\ ThroughRight' /\ StoresRight'
      /\ \A q \in Ranks : NC(q)' = NC(q)
      /\ \A p \in Ranks : \A q \in Ranks : \A i \in CommBlocks : \A c \in Chunks :
             ShardOver(q, i, launch[p], c)' <=> ShardOver(q, i, launch[p], c)
  <2>1. \A q \in Ranks : q \notin running => comp'[q] = comp[q]
    BY <1>1, BlockTypes DEF SInv
  <2>2. \A q \in Ranks : \A i \in CompBlocks :
            comp'[q][i].chunk \in Nat /\ comp'[q][i].chunk >= comp[q][i].chunk
    BY <1>3, BlockTypes DEF SInv
  <2> QED
    BY <1>1, <2>1, <2>2, OthersKeep DEF words
<1>6. \A q \in Ranks : \A i \in CompBlocks : \A c :
          Written(q, i, c)' <=> (Written(q, i, c) \/ (q = r /\ i = j /\ c = c0))
  BY <1>3 DEF Written, c0
<1>7. BufferRight'
  <2> SUFFICES ASSUME NEW p \in Ranks
               PROVE  /\ \A x \in Cells :
                          /\ buf'[p][x][1] <= launch[p]
                          /\ launch[p] >= 1 /\ ~ Written(p, x[3], x[1])' =>
                                 buf'[p][x][1] < launch[p]
                      /\ launch[p] >= 1 =>
                          \A c \in Chunks : \A q \in Ranks : \A k \in CommBlocks :
                          \A i \in CompBlocks :
                            c < NC(p) /\ Written(p, i, c)' =>
                              /\ ~ ShardOver(q, k, launch[p], c) =>
                                   buf'[p][<< c, MyShard(q, k), i >>] = << launch[p], "part" >>
                              /\ ShardOver(q, k, launch[p], c) /\ Arrived(q, k, p, c) =>
                                   buf'[p][<< c, MyShard(q, k), i >>] = << launch[p], "sum" >>
    <3>1. /\ \A q, i, d, c : Arrived(q, i, d, c)' <=> Arrived(q, i, d, c)
          /\ \A q, i : MyShard(q, i)' = MyShard(q, i)
      BY <1>1, SameGrid DEF Arrived, MyShard
    <3>2. /\ launch' = launch /\ Cells' = Cells /\ CommBlocks' = CommBlocks
          /\ CompBlocks' = CompBlocks /\ Chunks' = Chunks
      BY <1>1, SameGrid
    <3> QED
      BY <1>5, <3>1, <3>2 DEF BufferRight
  <2>1. ASSUME NEW x \in Cells
        PROVE  /\ buf'[p][x][1] <= launch[p]
               /\ launch[p] >= 1 /\ ~ Written(p, x[3], x[1])' => buf'[p][x][1] < launch[p]
    <3>1. x[3] \in CompBlocks
      BY DEF Cells
    <3>2. /\ buf[p][x][1] <= launch[p]
          /\ launch[p] >= 1 /\ ~ Written(p, x[3], x[1]) => buf[p][x][1] < launch[p]
      BY DEF SInv, BufferRight
    <3>3. CASE p = r /\ x[1] = c0 /\ x[3] = j
      <4>1. buf'[p][x][1] = launch[p]
        BY <1>4, <3>3
      <4>2. Written(p, x[3], x[1])'
        BY <1>6, <3>1, <3>3
      <4> QED
        BY <1>2, <4>1, <4>2
    <3>4. CASE ~ (p = r /\ x[1] = c0 /\ x[3] = j)
      <4>1. buf'[p][x] = buf[p][x]
        BY <1>4, <3>4
      <4>2. Written(p, x[3], x[1])' <=> Written(p, x[3], x[1])
        BY <1>6, <3>1, <3>4
      <4> QED
        BY <3>2, <4>1, <4>2
    <3> QED
      BY <3>3, <3>4
  <2>2. ASSUME launch[p] >= 1, NEW c \in Chunks, NEW q \in Ranks, NEW k \in CommBlocks,
               NEW i \in CompBlocks, c < NC(p), Written(p, i, c)'
        PROVE  /\ ~ ShardOver(q, k, launch[p], c) =>
                    buf'[p][<< c, MyShard(q, k), i >>] = << launch[p], "part" >>
               /\ ShardOver(q, k, launch[p], c) /\ Arrived(q, k, p, c) =>
                    buf'[p][<< c, MyShard(q, k), i >>] = << launch[p], "sum" >>
    <3> DEFINE x == << c, MyShard(q, k), i >>
    <3>1. x \in Cells /\ x[1] = c /\ x[3] = i
      BY ShardFacts DEF SInv, Cells
    <3> HIDE DEF x
    <3>2. CASE p = r /\ c = c0 /\ i = j
      <4>1. ~ ShardOver(q, k, launch[p], c)
        <5>1. comp[r][j].chunk <= c /\ c < NC(r)
          BY <1>2, <2>2, <3>2 DEF c0
        <5> QED
          BY <1>1, <3>2, <5>1, NotOverYet
      <4>2. buf'[p][x] = << launch[p], "part" >>
        BY <1>4, <3>1, <3>2
      <4> QED
        BY <4>1, <4>2 DEF x
    <3>3. CASE ~ (p = r /\ c = c0 /\ i = j)
      <4>1. buf'[p][x] = buf[p][x]
        BY <1>4, <3>1, <3>3
      <4>2. Written(p, i, c)
        BY <1>6, <2>2, <3>3
      <4> QED
        BY <2>2, <4>1, <4>2 DEF SInv, BufferRight, x
    <3> QED
      BY <3>2, <3>3
  <2> QED
    BY <2>1, <2>2
<1> QED
  BY <1>5, <1>7 DEF SInv

LEMMA SumsSignal ==
    ASSUME SInv, IInv', NEW r \in Ranks, NEW j \in CompBlocks, Signal(r, j)
    PROVE  SInv'
<1> DEFINE c0 == comp[r][j].chunk
<1>1. /\ r \in running /\ comp[r][j].wrote
      /\ comp' = [comp EXCEPT ![r][j] = [chunk |-> c0 + 1, wrote |-> FALSE]]
      /\ UNCHANGED << fixed, launch, running, seqctr, seqPub, doneLocal, doneFlag, pads,
                      buf, inFlight, comm >>
  BY BlockTypes DEF Signal, SInv
<1>2. c0 \in Nat /\ comp \in [Ranks -> [CompBlocks -> [chunk : 0..MaxChunk, wrote : BOOLEAN]]]
  BY BlockTypes DEF SInv
<1>3. /\ comp'[r][j].chunk = c0 + 1 /\ ~ comp'[r][j].wrote
      /\ \A q \in Ranks : \A i \in CompBlocks :
             ~ (q = r /\ i = j) => comp'[q][i] = comp[q][i]
      /\ \A q \in Ranks : q # r => comp'[q] = comp[q]
  BY <1>1, <1>2
<1> HIDE DEF c0
<1>4. /\ RetiredDone' /\ ArrivalsRight' /\ PadsRight' /\ ThroughRight' /\ StoresRight'
      /\ \A q \in Ranks : NC(q)' = NC(q)
      /\ \A p \in Ranks : \A q \in Ranks : \A i \in CommBlocks : \A c \in Chunks :
             ShardOver(q, i, launch[p], c)' <=> ShardOver(q, i, launch[p], c)
  <2>1. \A q \in Ranks : \A i \in CompBlocks :
            comp'[q][i].chunk \in Nat /\ comp'[q][i].chunk >= comp[q][i].chunk
    <3> SUFFICES ASSUME NEW q \in Ranks, NEW i \in CompBlocks
                 PROVE  comp'[q][i].chunk \in Nat /\ comp'[q][i].chunk >= comp[q][i].chunk
      OBVIOUS
    <3>1. comp[q][i].chunk \in Nat
      BY BlockTypes DEF SInv
    <3> QED
      BY <1>2, <1>3, <3>1 DEF c0
  <2>2. \A q \in Ranks : q \notin running => comp'[q] = comp[q]
    BY <1>1, <1>3
  <2> QED
    BY <1>1, <2>1, <2>2, OthersKeep
<1>5. \A q \in Ranks : \A i \in CompBlocks : \A c \in Chunks :
          Written(q, i, c)' <=> Written(q, i, c)
  <2> SUFFICES ASSUME NEW q \in Ranks, NEW i \in CompBlocks, NEW c \in Chunks
               PROVE  Written(q, i, c)' <=> Written(q, i, c)
    OBVIOUS
  <2>1. c \in Nat
    BY Numbers DEF SInv, Chunks
  <2>2. CASE q = r /\ i = j
    <3>1. Written(q, i, c) <=> c0 >= c
      BY <1>1, <1>2, <2>1, <2>2 DEF Written, c0
    <3>2. Written(q, i, c)' <=> c0 + 1 > c
      BY <1>3, <2>2 DEF Written
    <3> QED
      BY <1>2, <2>1, <3>1, <3>2
  <2>3. CASE ~ (q = r /\ i = j)
    BY <1>3, <2>3 DEF Written
  <2> QED
    BY <2>2, <2>3
<1>6. BufferRight'
  <2>1. /\ \A q, i, d, c : Arrived(q, i, d, c)' <=> Arrived(q, i, d, c)
        /\ \A q, i : MyShard(q, i)' = MyShard(q, i)
    BY <1>1, SameGrid DEF Arrived, MyShard
  <2>2. \A x \in Cells : x[1] \in Chunks /\ x[3] \in CompBlocks
    BY DEF Cells
  <2> QED
    BY <1>1, <1>4, <1>5, <2>1, <2>2, SameGrid DEF SInv, BufferRight
<1> QED
  BY <1>4, <1>6 DEF SInv

LEMMA SumsPerform ==
    ASSUME SInv, IInv', NEW s \in inFlight, Perform(s)
    PROVE  SInv'
<1> DEFINE o == s.from[1]
           i == s.from[2]
           c0 == s.chunk
           d == s.to
<1>1. /\ o \in Ranks /\ i \in CommBlocks /\ c0 \in Chunks /\ d \in Ranks
      /\ s.from = << o, i >> /\ s.value \in [CompBlocks -> Values]
  BY BlockTypes DEF SInv, Store
<1>2. /\ o \in running /\ launch[d] = launch[o] /\ c0 < comm[o][i].chunk
      /\ ~ Counted(comm[o][i], NC(o))
      /\ \A j \in CompBlocks : s.value[j] = << launch[d], "sum" >>
  BY DEF SInv, StoresRight
<1>3. /\ buf' = [buf EXCEPT ![d] = [x \in Cells |->
              IF x[1] = c0 /\ x[2] = MyShard(o, i) THEN s.value[x[3]] ELSE @[x]]]
      /\ inFlight' = inFlight \ {s}
      /\ UNCHANGED << fixed, launch, running, words, comp, comm >>
  BY DEF Perform
<1>4. /\ \A q \in Ranks : q # d => buf'[q] = buf[q]
      /\ \A x \in Cells : buf'[d][x] =
             IF x[1] = c0 /\ x[2] = MyShard(o, i) THEN << launch[d], "sum" >> ELSE buf[d][x]
  <2>1. \A x \in Cells : x[3] \in CompBlocks
    BY DEF Cells
  <2> QED
    BY <1>1, <1>2, <1>3, <2>1, BlockTypes DEF SInv
<1>5. /\ c0 \in Nat /\ launch[d] \in Nat /\ launch[d] \in 1..MaxLaunches
      /\ ShardOver(o, i, launch[d], c0) /\ ChunkOver(d, launch[d], c0)
  <2>1. c0 \in Nat /\ launch[d] \in Nat /\ launch[d] \in 1..MaxLaunches
    BY <1>1, <1>2, Numbers DEF SInv, Chunks
  <2>2. ChunkOver(d, launch[o], c0)
    BY <1>1, <1>2, BlockTypes DEF SInv, ThroughRight
  <2> QED
    BY <1>2, <2>1, <2>2 DEF ShardOver
<1> HIDE DEF o, i, c0, d
<1>6. /\ RetiredDone' /\ ArrivalsRight' /\ PadsRight' /\ ThroughRight' /\ StoresRight'
      /\ \A q \in Ranks : NC(q)' = NC(q)
      /\ \A p \in Ranks : \A q \in Ranks : \A k \in CommBlocks : \A c \in Chunks :
             ShardOver(q, k, launch[p], c)' <=> ShardOver(q, k, launch[p], c)
  <2>1. \A q \in Ranks : \A j \in CompBlocks :
            comp'[q][j].chunk \in Nat /\ comp'[q][j].chunk >= comp[q][j].chunk
    BY <1>3, BlockTypes DEF SInv
  <2> QED
    BY <1>3, <2>1, OthersKeep DEF words
<1>7. BufferRight'
  <2> SUFFICES ASSUME NEW p \in Ranks
               PROVE  /\ \A x \in Cells :
                          /\ buf'[p][x][1] <= launch[p]
                          /\ launch[p] >= 1 /\ ~ Written(p, x[3], x[1]) => buf'[p][x][1] < launch[p]
                      /\ launch[p] >= 1 =>
                          \A c \in Chunks : \A q \in Ranks : \A k \in CommBlocks :
                          \A j \in CompBlocks :
                            c < NC(p) /\ Written(p, j, c) =>
                              /\ ~ ShardOver(q, k, launch[p], c) =>
                                   buf'[p][<< c, MyShard(q, k), j >>] = << launch[p], "part" >>
                              /\ ShardOver(q, k, launch[p], c) /\ Arrived(q, k, p, c)' =>
                                   buf'[p][<< c, MyShard(q, k), j >>] = << launch[p], "sum" >>
    <3>1. /\ \A q, j, c : Written(q, j, c)' <=> Written(q, j, c)
          /\ \A q, k : MyShard(q, k)' = MyShard(q, k)
      BY <1>3, SameGrid DEF Written, MyShard
    <3>2. /\ launch' = launch /\ Cells' = Cells /\ CommBlocks' = CommBlocks
          /\ CompBlocks' = CompBlocks /\ Chunks' = Chunks
      BY <1>3, SameGrid
    <3> QED
      BY <1>6, <3>1, <3>2 DEF BufferRight
  <2>1. ASSUME NEW x \in Cells
        PROVE  /\ buf'[p][x][1] <= launch[p]
               /\ launch[p] >= 1 /\ ~ Written(p, x[3], x[1]) => buf'[p][x][1] < launch[p]
    <3>1. x[3] \in CompBlocks
      BY DEF Cells
    <3>2. CASE p = d /\ x[1] = c0 /\ x[2] = MyShard(o, i)
      <4>1. buf'[p][x][1] = launch[p]
        BY <1>4, <3>2
      <4>2. Written(p, x[3], x[1])
        BY <1>5, <3>1, <3>2 DEF ChunkOver, Written
      <4> QED
        BY <1>5, <3>2, <4>1, <4>2
    <3>3. CASE ~ (p = d /\ x[1] = c0 /\ x[2] = MyShard(o, i))
      <4>1. buf'[p][x] = buf[p][x]
        BY <1>4, <3>3
      <4> QED
        BY <4>1 DEF SInv, BufferRight
    <3> QED
      BY <3>2, <3>3
  <2>2. ASSUME launch[p] >= 1, NEW c \in Chunks, NEW q \in Ranks, NEW k \in CommBlocks,
               NEW j \in CompBlocks, c < NC(p), Written(p, j, c)
        PROVE  /\ ~ ShardOver(q, k, launch[p], c) =>
                    buf'[p][<< c, MyShard(q, k), j >>] = << launch[p], "part" >>
               /\ ShardOver(q, k, launch[p], c) /\ Arrived(q, k, p, c)' =>
                    buf'[p][<< c, MyShard(q, k), j >>] = << launch[p], "sum" >>
    <3> DEFINE x == << c, MyShard(q, k), j >>
    <3>1. x \in Cells /\ x[1] = c /\ x[2] = MyShard(q, k) /\ x[3] = j
      BY ShardFacts DEF SInv, Cells
    <3> HIDE DEF x
    <3>2. CASE p = d /\ c = c0 /\ q = o /\ k = i
      <4>1. buf'[p][x] = << launch[p], "sum" >>
        BY <1>4, <3>1, <3>2
      <4> QED
        BY <1>5, <3>2, <4>1 DEF x
    <3>3. CASE ~ (p = d /\ c = c0 /\ q = o /\ k = i)
      <4>1. p = d /\ c = c0 => MyShard(q, k) # MyShard(o, i)
        BY <1>1, <3>3, ShardFacts DEF SInv
      <4>2. buf'[p][x] = buf[p][x]
        BY <1>4, <3>1, <4>1
      <4>3. Arrived(q, k, p, c)' => Arrived(q, k, p, c)
        <5>1. ~ (s.from = << q, k >> /\ s.to = p /\ s.chunk = c)
          BY <1>1, <3>3 DEF o, i, c0, d
        <5> QED
          BY <1>3, <5>1 DEF Arrived
      <4> QED
        BY <2>2, <4>2, <4>3 DEF SInv, BufferRight, x
    <3> QED
      BY <3>2, <3>3
  <2> QED
    BY <2>1, <2>2
<1> QED
  BY <1>6, <1>7 DEF SInv

-----------------------------------------------------------------------------
(* Reducing a chunk, retiring and starting again.                            *)

\* Whoever reduces finds the finished partials of its launch in every buffer.
LEMMA ReducedIsSum ==
    ASSUME SInv, NEW r \in Ranks, NEW k \in CommBlocks, At(r, k, "reduce"), NEW j \in CompBlocks
    PROVE  /\ Reduced(r, << comm[r][k].chunk, MyShard(r, k), j >>) = << launch[r], "sum" >>
           /\ \A q \in Ranks : launch[q] = launch[r]
<1> DEFINE c == comm[r][k].chunk
           n == launch[r]
<1>1. /\ r \in running /\ comm[r][k].at = "reduce" /\ c \in Nat /\ c < NC(r)
      /\ NC(r) \in 1..MaxChunk /\ MaxChunk \in Nat /\ n \in 1..MaxLaunches /\ n \in Nat
      /\ \A q \in Ranks : launch[q] >= n
  <2>1. r \in running /\ comm[r][k].at = "reduce"
    BY DEF At
  <2>2. Through(comm[r][k])
    BY <2>1 DEF Through
  <2>3. c \in Nat /\ n \in 1..MaxLaunches /\ n \in Nat
    BY <2>1, Numbers, BlockTypes DEF SInv
  <2>4. /\ c < NC(r) /\ NC(r) \in 1..MaxChunk /\ MaxChunk \in Nat
        /\ \A q \in Ranks : launch[q] >= n
    BY <2>1, <2>2, BlockFacts DEF Placed, SInv
  <2> QED
    BY <2>1, <2>3, <2>4
<1>2. ~ Counted(comm[r][k], NC(r)) /\ c \in Chunks
  BY <1>1 DEF Counted, Chunks
<1>3. \A q \in Ranks : launch[q] = n
  BY <1>1, <1>2, NobodyAhead
<1>4. ~ ShardOver(r, k, n, c)
  BY <1>1 DEF ShardOver
<1> HIDE DEF c, n
<1>5. ASSUME NEW q \in Ranks
      PROVE  buf[q][<< c, MyShard(r, k), j >>] = << n, "part" >>
  <2>1. launch[q] = n /\ NC(q) = NC(r) /\ n >= 1
    BY <1>1, <1>3 DEF NC, n
  <2>2. ChunkOver(q, n, c)
    BY <1>1, <1>2 DEF SInv, ThroughRight, c, n
  <2>3. Written(q, j, c)
    BY <1>1, <2>1, <2>2 DEF ChunkOver, Written
  <2> QED
    BY <1>1, <1>2, <1>4, <2>1, <2>3 DEF SInv, BufferRight
<1> QED
  BY <1>3, <1>5 DEF Reduced, c, n

LEMMA SumsReduce ==
    ASSUME SInv, IInv', NEW r \in Ranks, NEW k \in CommBlocks, Reduce(r, k)
    PROVE  SInv'
<1> DEFINE c0 == comm[r][k].chunk
           n == launch[r]
           b == comm'[r][k]
           v == [j \in CompBlocks |-> Reduced(r, << c0, MyShard(r, k), j >>)]
           new == {[from |-> << r, k >>, to |-> q, chunk |-> c0, value |-> v] : q \in Ranks}
<1>1. /\ At(r, k, "reduce") /\ r \in running /\ comm[r][k].at = "reduce"
      /\ inFlight' = inFlight \cup new
      /\ UNCHANGED << fixed, launch, running, words, buf, comp >>
  BY DEF Reduce, At
<1>2. /\ c0 \in Nat /\ c0 < NC(r) /\ c0 \in Chunks
      /\ NC(r) \in 1..MaxChunk /\ MaxChunk \in Nat /\ n \in 1..MaxLaunches
      /\ \A q : NC(q)' = NC(q)
  <2>1. c0 \in Nat /\ c0 < NC(r) /\ NC(r) \in 1..MaxChunk /\ MaxChunk \in Nat
        /\ n \in 1..MaxLaunches
    BY <1>1, BlockFacts, Numbers, BlockTypes DEF Placed, SInv
  <2> QED
    BY <1>1, <2>1 DEF Chunks, NC, fixed
<1>3. /\ b.chunk = c0 + 1 /\ b.at \in {"ready", "fence"}
      /\ \A q \in Ranks : \A i \in CommBlocks : << q, i >> # << r, k >> => comm'[q][i] = comm[q][i]
      /\ \A q \in Ranks : q # r => comm'[q] = comm[q]
  BY <1>1, BlockTypes DEF Reduce, SInv
<1>4. ~ Counted(comm[r][k], NC(r)) /\ ~ Counted(b, NC(r))
  BY <1>1, <1>2, <1>3 DEF Counted
<1>5. \A q \in Ranks : launch[q] = n
  <2>1. 0 \in CompBlocks
    BY Numbers DEF SInv, CompBlocks
  <2> QED
    BY <1>1, <2>1, ReducedIsSum
<1>20. \A j \in CompBlocks : v[j] = << n, "sum" >>
  BY <1>1, ReducedIsSum
<1> HIDE DEF v, c0, n
<1>6. \A s \in new : /\ s.from = << r, k >> /\ s.chunk = c0 /\ s.to \in Ranks
                     /\ \A j \in CompBlocks : s.value[j] = << n, "sum" >>
  BY <1>20
<1>7. \A q \in Ranks : \E s \in new : s.from = << r, k >> /\ s.to = q /\ s.chunk = c0
  <2> TAKE q \in Ranks
  <2>1. [from |-> << r, k >>, to |-> q, chunk |-> c0, value |-> v] \in new
    OBVIOUS
  <2> HIDE DEF new
  <2> WITNESS [from |-> << r, k >>, to |-> q, chunk |-> c0, value |-> v] \in new
  <2> QED
    OBVIOUS
<1> HIDE DEF b, new
<1>8. \A q \in Ranks : \A i \in CommBlocks :
          /\ comm'[q][i].chunk \in Nat /\ comm'[q][i].chunk >= comm[q][i].chunk
          /\ Counted(comm[q][i], NC(q)) => Counted(comm'[q][i], NC(q))
  <2> SUFFICES ASSUME NEW q \in Ranks, NEW i \in CommBlocks
               PROVE  /\ comm'[q][i].chunk \in Nat /\ comm'[q][i].chunk >= comm[q][i].chunk
                      /\ Counted(comm[q][i], NC(q)) => Counted(comm'[q][i], NC(q))
    OBVIOUS
  <2>1. CASE << q, i >> = << r, k >>
    BY <1>2, <1>3, <1>4, <2>1 DEF b, c0
  <2>2. CASE << q, i >> # << r, k >>
    BY <1>3, <2>2, BlockTypes DEF SInv
  <2> QED
    BY <2>1, <2>2
<1>9. \A q \in Ranks : \A m \in Nat :
          /\ \A c \in Nat : ChunkOver(q, m, c) => ChunkOver(q, m, c)'
          /\ \A i \in CommBlocks : \A c \in Nat : ShardOver(q, i, m, c) => ShardOver(q, i, m, c)'
          /\ StoresOver(q, m) => StoresOver(q, m)'
  <2>1. /\ \A q \in Ranks : launch'[q] \in Nat /\ launch'[q] >= launch[q]
        /\ \A q \in Ranks : \A j \in CompBlocks :
               comp'[q][j].chunk \in Nat /\ comp'[q][j].chunk >= comp[q][j].chunk
    BY <1>1, Numbers, BlockTypes DEF SInv
  <2> QED
    BY <1>1, <1>8, <2>1, OverKept DEF SInv
<1>10. Chunks \subseteq Nat /\ 1..MaxLaunches \subseteq Nat /\ launch \in [Ranks -> Nat]
       /\ running \subseteq Ranks
  BY Numbers DEF SInv, Chunks
<1>11. RetiredDone'
  <2>1. \A q \in Ranks : q \notin running => q # r
    BY <1>1
  <2> QED
    BY <1>1, <1>2, <1>3, <2>1, SameGrid DEF SInv, RetiredDone
<1>12. ArrivalsRight'
  <2> SUFFICES ASSUME NEW q \in running, NEW i \in CommBlocks
               PROVE  /\ \A c \in Chunks : comm'[q][i].at \in {"arrive", "await"}
                                           /\ comm'[q][i].chunk = c /\ c < NC(q) =>
                              ChunkOver(q, launch[q], c)'
                      /\ comm'[q][i].at \in {"arrive", "await"} /\ comm'[q][i].chunk = NC(q) =>
                              StoresOver(q, launch[q])'
    BY <1>1, <1>2, SameGrid DEF ArrivalsRight
  <2>1. CASE << q, i >> = << r, k >>
    BY <1>3, <2>1 DEF b
  <2>2. CASE << q, i >> # << r, k >>
    <3>1. /\ launch[q] \in Nat /\ q \in Ranks /\ launch' = launch
          /\ comm'[q][i] = comm[q][i]
      BY <1>1, <1>3, <1>10, <2>2
    <3>2. /\ \A c \in Chunks : ChunkOver(q, launch[q], c) => ChunkOver(q, launch[q], c)'
          /\ StoresOver(q, launch[q]) => StoresOver(q, launch[q])'
      BY <1>9, <1>10, <3>1
    <3> QED
      BY <3>1, <3>2 DEF SInv, ArrivalsRight
  <2> QED
    BY <2>1, <2>2
<1>13. PadsRight'
  <2> SUFFICES ASSUME NEW d \in Ranks, NEW q \in Ranks, NEW m \in 1..MaxLaunches
               PROVE  /\ \A c \in Chunks : \A i \in CommBlocks :
                             c < chunksOf[m] /\ pads[d][c * NComm + i][q] = m =>
                                 ChunkOver(q, m, c)'
                      /\ pads[d][chunksOf[m] * NComm][q] = m => StoresOver(q, m)'
    BY <1>1, SameGrid DEF PadsRight, fixed, words
  <2> QED
    BY <1>9, <1>10 DEF SInv, PadsRight
<1>14. ThroughRight'
  <2> SUFFICES ASSUME NEW p \in Ranks, NEW q \in Ranks
               PROVE  /\ \A i \in CommBlocks : \A c \in Chunks :
                          comm'[p][i].chunk > c
                          \/ (comm'[p][i].at = "reduce" /\ comm'[p][i].chunk = c) =>
                              ChunkOver(q, launch[p], c)'
                      /\ \A m \in 1..MaxLaunches : PastFinal(p, m)' => StoresOver(q, m)'
    BY <1>1, SameGrid DEF ThroughRight
  <2>1. ASSUME NEW i \in CommBlocks, NEW c \in Chunks,
               comm'[p][i].chunk > c \/ (comm'[p][i].at = "reduce" /\ comm'[p][i].chunk = c)
        PROVE  ChunkOver(q, launch[p], c)'
    <3>1. ChunkOver(q, launch[p], c)
      <4>1. CASE << p, i >> = << r, k >>
        <5>1. c <= c0 /\ c \in Nat
          BY <1>2, <1>3, <1>10, <2>1, <4>1 DEF b
        <5>2. comm[r][k].chunk > c \/ (comm[r][k].at = "reduce" /\ comm[r][k].chunk = c)
          BY <1>1, <1>2, <5>1 DEF c0
        <5> QED
          BY <4>1, <5>2 DEF SInv, ThroughRight
      <4>2. CASE << p, i >> # << r, k >>
        BY <1>3, <2>1, <4>2 DEF SInv, ThroughRight
      <4> QED
        BY <4>1, <4>2
    <3>2. launch[p] \in Nat /\ c \in Nat /\ launch' = launch
      BY <1>1, <1>10
    <3> QED
      BY <1>9, <3>1, <3>2
  <2>2. ASSUME NEW m \in 1..MaxLaunches, PastFinal(p, m)'
        PROVE  StoresOver(q, m)'
    <3>1. PastFinal(p, m)
      <4>1. Final(p)' => Final(p)
        <5>1. \A i \in CommBlocks : comm'[p][i].at \in {"flagset", "done"} =>
                  comm[p][i].at \in {"flagset", "done"}
          BY <1>3 DEF b
        <5> QED
          BY <1>1, <5>1, SameGrid DEF Final, words
      <4> QED
        BY <1>1, <2>2, <4>1 DEF PastFinal
    <3> QED
      BY <1>9, <1>10, <3>1 DEF SInv, ThroughRight
  <2> QED
    BY <2>1, <2>2
<1>15. StoresRight'
  <2> SUFFICES ASSUME NEW s \in inFlight'
               PROVE  /\ s.from[1] \in running
                      /\ launch[s.to] = launch[s.from[1]]
                      /\ s.chunk < comm'[s.from[1]][s.from[2]].chunk
                      /\ ~ Counted(comm'[s.from[1]][s.from[2]], NC(s.from[1]))
                      /\ \A j \in CompBlocks :
                             s.value[j] = << launch[s.from[1]], "sum" >>
    BY <1>1, <1>2, SameGrid DEF StoresRight, Counted
  <2>1. CASE s \in new
    BY <1>1, <1>2, <1>3, <1>4, <1>5, <1>6, <2>1 DEF b, n
  <2>2. CASE s \in inFlight
    <3>1. /\ s.from[1] \in Ranks /\ s.from[2] \in CommBlocks
          /\ s.chunk \in Chunks
      BY <2>2, BlockTypes DEF SInv, Store
    <3>2. /\ s.from[1] \in running
          /\ launch[s.to] = launch[s.from[1]]
          /\ s.chunk < comm[s.from[1]][s.from[2]].chunk
          /\ ~ Counted(comm[s.from[1]][s.from[2]], NC(s.from[1]))
          /\ \A j \in CompBlocks : s.value[j] = << launch[s.from[1]], "sum" >>
      BY <2>2 DEF SInv, StoresRight
    <3>3. CASE << s.from[1], s.from[2] >> = << r, k >>
      <4>0. s.from[1] = r /\ s.from[2] = k /\ s.chunk \in Nat
        BY <1>10, <3>1, <3>3
      <4>1. s.chunk < c0 + 1 /\ s.from[1] = r /\ s.from[2] = k
        BY <1>2, <3>2, <4>0 DEF c0
      <4> QED
        BY <1>3, <1>4, <3>2, <4>1 DEF b
    <3>4. CASE << s.from[1], s.from[2] >> # << r, k >>
      BY <1>3, <3>1, <3>2, <3>4
    <3> QED
      BY <3>3, <3>4
  <2> QED
    BY <1>1, <2>1, <2>2
<1>16. BufferRight'
  <2>1. ASSUME NEW p \in Ranks, launch[p] >= 1, NEW c \in Chunks, NEW q \in Ranks,
               NEW i \in CommBlocks, NEW j \in CompBlocks, c < NC(p), Written(p, j, c)
        PROVE  /\ ~ ShardOver(q, i, launch[p], c)' =>
                    buf[p][<< c, MyShard(q, i), j >>] = << launch[p], "part" >>
               /\ ShardOver(q, i, launch[p], c)' /\ Arrived(q, i, p, c)' =>
                    buf[p][<< c, MyShard(q, i), j >>] = << launch[p], "sum" >>
    <3>1. Arrived(q, i, p, c)' => Arrived(q, i, p, c)
      BY <1>1 DEF Arrived
    <3>2. ShardOver(q, i, launch[p], c) => ShardOver(q, i, launch[p], c)'
      <4>1. launch[p] \in Nat /\ c \in Nat /\ launch' = launch
        BY <1>1, <1>10
      <4> QED
        BY <1>9, <4>1
    <3>3. CASE << q, i, c >> = << r, k, c0 >>
      <4>1. ~ Arrived(q, i, p, c)'
        BY <1>1, <1>7, <3>3 DEF Arrived
      <4> QED
        BY <2>1, <3>2, <4>1 DEF SInv, BufferRight
    <3>4. CASE << q, i, c >> # << r, k, c0 >>
      <4>1. ShardOver(q, i, launch[p], c)' => ShardOver(q, i, launch[p], c)
        <5>1. CASE << q, i >> = << r, k >>
          <6>1. c # c0 /\ c \in Nat
            BY <1>10, <3>4, <5>1
          <6>2. comm'[q][i].chunk > c => comm[q][i].chunk > c
            BY <1>2, <1>3, <5>1, <6>1 DEF b, c0
          <6> QED
            BY <1>1, <6>2 DEF ShardOver
        <5>2. CASE << q, i >> # << r, k >>
          BY <1>1, <1>3, <5>2 DEF ShardOver
        <5> QED
          BY <5>1, <5>2
      <4> QED
        BY <2>1, <3>1, <3>2, <4>1 DEF SInv, BufferRight
    <3> QED
      BY <3>3, <3>4
  <2>2. /\ \A q, j, c : Written(q, j, c)' <=> Written(q, j, c)
        /\ \A q, i : MyShard(q, i)' = MyShard(q, i)
        /\ launch' = launch /\ buf' = buf
        /\ Cells' = Cells /\ CommBlocks' = CommBlocks
        /\ CompBlocks' = CompBlocks /\ Chunks' = Chunks
    BY <1>1, SameGrid DEF Written, MyShard
  <2>3. \A p \in Ranks : \A x \in Cells :
            /\ buf[p][x][1] <= launch[p]
            /\ launch[p] >= 1 /\ ~ Written(p, x[3], x[1]) => buf[p][x][1] < launch[p]
    BY DEF SInv, BufferRight
  <2> QED
    BY <1>2, <2>1, <2>2, <2>3 DEF BufferRight
<1> QED
  BY <1>11, <1>12, <1>13, <1>14, <1>15, <1>16 DEF SInv

LEMMA SumsRetire ==
    ASSUME SInv, IInv', NEW r \in Ranks, Retire(r)
    PROVE  SInv'
<1>1. /\ r \in running /\ running' = running \ {r}
      /\ \A j \in CompBlocks : comp[r][j].chunk = NC(r)
      /\ \A k \in CommBlocks : comm[r][k].at = "done"
      /\ UNCHANGED << fixed, launch, words, buf, inFlight, comp, comm >>
  BY DEF Retire
<1>2. \A q : NC(q)' = NC(q)
  BY <1>1 DEF NC, fixed
<1>3. RetiredDone'
  <2>1. \A k \in CommBlocks : comm[r][k].chunk = NC(r)
    BY <1>1, BlockFacts DEF Placed, SInv
  <2> QED
    BY <1>1, <1>2, <2>1, SameGrid DEF SInv, RetiredDone
<1>4. /\ \A q, n, c : ChunkOver(q, n, c)' <=> ChunkOver(q, n, c)
      /\ \A q, k, n, c : ShardOver(q, k, n, c)' <=> ShardOver(q, k, n, c)
      /\ \A q, n : StoresOver(q, n)' <=> StoresOver(q, n)
      /\ \A q, n : PastFinal(q, n)' <=> PastFinal(q, n)
      /\ \A q, j, c : Written(q, j, c)' <=> Written(q, j, c)
      /\ \A q, k, p, c : Arrived(q, k, p, c)' <=> Arrived(q, k, p, c)
      /\ \A q, k : MyShard(q, k)' = MyShard(q, k)
      /\ \A q, k : Counted(comm[q][k], NC(q))' <=> Counted(comm[q][k], NC(q))
  BY <1>1, <1>2, SameGrid DEF ChunkOver, ShardOver, StoresOver, PastFinal, Final, Written,
     Arrived, MyShard, Counted, words
<1>5. ArrivalsRight'
  BY <1>1, <1>2, <1>4, SameGrid DEF SInv, ArrivalsRight
<1>6. PadsRight'
  BY <1>1, <1>4, SameGrid DEF SInv, PadsRight, fixed, words
<1>7. ThroughRight'
  BY <1>1, <1>4, SameGrid DEF SInv, ThroughRight
<1>8. StoresRight'
  <2>1. \A s \in inFlight : s.from[1] # r
    <3> SUFFICES ASSUME NEW s \in inFlight, s.from[1] = r
                 PROVE  FALSE
      OBVIOUS
    <3>1. s.from[2] \in CommBlocks
      BY BlockTypes DEF SInv, Store
    <3>2. ~ Counted(comm[r][s.from[2]], NC(r))
      BY DEF SInv, StoresRight
    <3> QED
      BY <1>1, <3>1, <3>2 DEF Counted
  <2> QED
    BY <1>1, <1>4, <2>1, SameGrid DEF SInv, StoresRight
<1>9. BufferRight'
  BY <1>1, <1>2, <1>4, SameGrid DEF SInv, BufferRight
<1> QED
  BY <1>3, <1>5, <1>6, <1>7, <1>8, <1>9 DEF SInv

LEMMA SumsEnter ==
    ASSUME SInv, IInv', NEW r \in Ranks, Enter(r)
    PROVE  SInv'
<1> DEFINE fresh == [chunk |-> 0, at |-> "ready", sent |-> 0]
<1>1. /\ r \notin running /\ launch[r] < MaxLaunches /\ running' = running \cup {r}
      /\ launch' = [launch EXCEPT ![r] = @ + 1]
      /\ doneFlag' = [doneFlag EXCEPT ![r] = 0]
      /\ comp' = [comp EXCEPT ![r] = [j \in CompBlocks |-> [chunk |-> 0, wrote |-> FALSE]]]
      /\ comm' = [comm EXCEPT ![r] = [k \in CommBlocks |-> fresh]]
      /\ UNCHANGED << fixed, pads, buf, inFlight >>
  BY DEF Enter, Clear
<1>2. /\ launch \in [Ranks -> Nat] /\ running \subseteq Ranks /\ Chunks \subseteq Nat
      /\ 1..MaxLaunches \subseteq Nat
  BY Numbers DEF SInv, Chunks
<1>3. /\ launch'[r] = launch[r] + 1 /\ doneFlag'[r] = 0
      /\ \A k \in CommBlocks : comm'[r][k] = fresh
      /\ \A j \in CompBlocks : comp'[r][j] = [chunk |-> 0, wrote |-> FALSE]
      /\ \A q \in Ranks : q # r =>
             /\ launch'[q] = launch[q] /\ doneFlag'[q] = doneFlag[q]
             /\ comm'[q] = comm[q] /\ comp'[q] = comp[q]
  BY <1>1, <1>2, BlockTypes DEF SInv
<1> HIDE DEF fresh
<1>4. fresh.chunk = 0 /\ fresh.at = "ready"
  BY DEF fresh
<1>5. \A q \in Ranks : q # r => NC(q)' = NC(q)
  BY <1>1, <1>3 DEF NC, fixed
<1>6. \A q \in Ranks : \A n \in Nat :
          /\ \A c \in Nat : ChunkOver(q, n, c) => ChunkOver(q, n, c)'
          /\ StoresOver(q, n) => StoresOver(q, n)'
  <2>1. \A q \in Ranks : launch'[q] \in Nat /\ launch'[q] >= launch[q]
    <3> SUFFICES ASSUME NEW q \in Ranks
                 PROVE  launch'[q] \in Nat /\ launch'[q] >= launch[q]
      OBVIOUS
    <3> QED
      BY <1>2, <1>3
  <2>2. \A q \in Ranks : launch'[q] = launch[q] => q # r
    BY <1>2, <1>3
  <2>3. \A q \in Ranks : launch'[q] = launch[q] =>
            /\ \A j \in CompBlocks :
                   comp'[q][j].chunk \in Nat /\ comp'[q][j].chunk >= comp[q][j].chunk
            /\ \A i \in CommBlocks :
                   /\ comm'[q][i].chunk \in Nat /\ comm'[q][i].chunk >= comm[q][i].chunk
                   /\ Counted(comm[q][i], NC(q)) => Counted(comm'[q][i], NC(q))
    <3> SUFFICES ASSUME NEW q \in Ranks, q # r
                 PROVE  /\ \A j \in CompBlocks :
                               /\ comp'[q][j].chunk \in Nat
                               /\ comp'[q][j].chunk >= comp[q][j].chunk
                        /\ \A i \in CommBlocks :
                               /\ comm'[q][i].chunk \in Nat
                               /\ comm'[q][i].chunk >= comm[q][i].chunk
                               /\ Counted(comm[q][i], NC(q)) => Counted(comm'[q][i], NC(q))
      BY <2>2
    <3>1. comp'[q] = comp[q] /\ comm'[q] = comm[q]
      BY <1>3
    <3> QED
      BY <3>1, BlockTypes DEF SInv
  <2> QED
    BY <1>1, <2>1, <2>3, OverKept DEF SInv
<1>7. RetiredDone'
  <2> SUFFICES ASSUME NEW q \in Ranks, q \notin running', launch'[q] >= 1
               PROVE  /\ \A j \in CompBlocks : comp'[q][j].chunk = NC(q)'
                      /\ \A k \in CommBlocks :
                             comm'[q][k].at = "done" /\ comm'[q][k].chunk = NC(q)'
    BY <1>1, SameGrid DEF RetiredDone
  <2>1. q # r /\ q \notin running
    BY <1>1
  <2> QED
    BY <1>3, <1>5, <2>1 DEF SInv, RetiredDone
<1>8. ArrivalsRight'
  <2> SUFFICES ASSUME NEW q \in running', NEW i \in CommBlocks,
                      comm'[q][i].at \in {"arrive", "await"}
               PROVE  /\ \A c \in Chunks : comm'[q][i].chunk = c /\ c < NC(q)' =>
                              ChunkOver(q, launch[q], c)'
                      /\ comm'[q][i].chunk = NC(q)' => StoresOver(q, launch[q])'
    BY <1>1, SameGrid DEF ArrivalsRight
  <2>1. q # r /\ q \in running /\ q \in Ranks
    BY <1>1, <1>2, <1>3, <1>4
  <2>2. launch[q] \in Nat /\ launch'[q] = launch[q] /\ comm'[q] = comm[q] /\ NC(q)' = NC(q)
    BY <1>2, <1>3, <1>5, <2>1
  <2> DEFINE n == launch[q]
  <2>3. /\ \A c \in Chunks : comm[q][i].chunk = c /\ c < NC(q) => ChunkOver(q, n, c)
        /\ comm[q][i].chunk = NC(q) => StoresOver(q, n)
    BY <2>1, <2>2 DEF SInv, ArrivalsRight
  <2> QED
    BY <1>2, <1>6, <2>1, <2>2, <2>3 DEF ChunkOver, StoresOver
<1>9. PadsRight'
  <2> SUFFICES ASSUME NEW d \in Ranks, NEW q \in Ranks, NEW m \in 1..MaxLaunches
               PROVE  /\ \A c \in Chunks : \A i \in CommBlocks :
                             c < chunksOf[m] /\ pads[d][c * NComm + i][q] = m =>
                                 ChunkOver(q, m, c)'
                      /\ pads[d][chunksOf[m] * NComm][q] = m => StoresOver(q, m)'
    BY <1>1, SameGrid DEF PadsRight, fixed
  <2> QED
    BY <1>2, <1>6 DEF SInv, PadsRight
<1>10. ThroughRight'
  <2>1. ASSUME NEW p \in Ranks, NEW q \in Ranks, NEW i \in CommBlocks, NEW c \in Chunks,
               comm'[p][i].chunk > c \/ (comm'[p][i].at = "reduce" /\ comm'[p][i].chunk = c)
        PROVE  ChunkOver(q, launch[p], c)'
    <3>1. p # r /\ c \in Nat
      BY <1>2, <1>3, <1>4, <2>1
    <3>2. launch[p] \in Nat /\ launch'[p] = launch[p] /\ comm'[p] = comm[p]
      BY <1>2, <1>3, <3>1
    <3> DEFINE n == launch[p]
    <3>3. ChunkOver(q, n, c)
      BY <2>1, <3>2 DEF SInv, ThroughRight
    <3>4. n \in Nat
      BY <3>2
    <3> QED
      BY <1>6, <3>1, <3>2, <3>3, <3>4 DEF ChunkOver
  <2>2. ASSUME NEW p \in Ranks, NEW q \in Ranks, NEW m \in 1..MaxLaunches, PastFinal(p, m)'
        PROVE  StoresOver(q, m)'
    <3>1. PastFinal(p, m)
      <4>1. CASE p = r
        <5>1. ~ Final(r)'
          BY <1>3, <1>4, SameGrid, <1>1 DEF Final
        <5>2. m < launch[r] + 1 /\ m \in 1..MaxLaunches /\ m \in Nat /\ launch[r] \in Nat
          BY <1>2, <1>3, <2>2, <4>1, <5>1 DEF PastFinal
        <5>3. launch[r] >= 1
          BY <5>2
        <5>4. Final(r)
          BY <1>1, <5>3, RetiredFinal
        <5> QED
          BY <4>1, <5>2, <5>4 DEF PastFinal
      <4>2. CASE p # r
        BY <1>1, <1>3, <2>2, <4>2, SameGrid DEF PastFinal, Final
      <4> QED
        BY <4>1, <4>2
    <3> QED
      BY <1>2, <1>6, <3>1 DEF SInv, ThroughRight
  <2> QED
    BY <1>1, <2>1, <2>2, SameGrid DEF ThroughRight
<1>11. StoresRight'
  <2> SUFFICES ASSUME NEW s \in inFlight
               PROVE  /\ s.from[1] \in running'
                      /\ launch'[s.to] = launch'[s.from[1]]
                      /\ s.chunk < comm'[s.from[1]][s.from[2]].chunk
                      /\ ~ Counted(comm'[s.from[1]][s.from[2]], NC(s.from[1])')
                      /\ \A j \in CompBlocks :
                             s.value[j] = << launch'[s.from[1]], "sum" >>
    BY <1>1, SameGrid DEF StoresRight, Counted
  <2>1. /\ s.from[1] \in Ranks /\ s.from[2] \in CommBlocks /\ s.to \in Ranks
    BY BlockTypes DEF SInv, Store
  <2>2. /\ s.from[1] \in running
        /\ launch[s.to] = launch[s.from[1]]
        /\ s.chunk < comm[s.from[1]][s.from[2]].chunk
        /\ ~ Counted(comm[s.from[1]][s.from[2]], NC(s.from[1]))
        /\ \A j \in CompBlocks : s.value[j] = << launch[s.from[1]], "sum" >>
    BY DEF SInv, StoresRight
  <2>3. s.from[1] # r
    BY <1>1, <2>2
  <2>4. s.to # r
    <3>1. launch[s.from[1]] >= 1
      BY <2>2, Numbers DEF SInv
    <3> QED
      BY <1>1, <2>2, <3>1, RetiredThenComplete
  <2> QED
    BY <1>1, <1>3, <1>5, <2>1, <2>2, <2>3, <2>4
<1>12. BufferRight'
  <2>1. /\ \A q, k, p, c : Arrived(q, k, p, c)' <=> Arrived(q, k, p, c)
        /\ \A q, k : MyShard(q, k)' = MyShard(q, k)
        /\ buf' = buf /\ Cells' = Cells /\ CommBlocks' = CommBlocks
        /\ CompBlocks' = CompBlocks /\ Chunks' = Chunks
    BY <1>1, SameGrid DEF Arrived, MyShard
  <2>2. \A p \in Ranks : p # r =>
            \A j \in CompBlocks : \A c \in Chunks : Written(p, j, c)' <=> Written(p, j, c)
    BY <1>3 DEF Written
  <2>3. ASSUME NEW p \in Ranks, NEW x \in Cells
        PROVE  /\ buf[p][x][1] <= launch'[p]
               /\ launch'[p] >= 1 /\ ~ Written(p, x[3], x[1])' => buf[p][x][1] < launch'[p]
    <3>1. /\ buf[p][x][1] <= launch[p]
          /\ launch[p] >= 1 /\ ~ Written(p, x[3], x[1]) => buf[p][x][1] < launch[p]
      BY DEF SInv, BufferRight
    <3>2. buf[p][x][1] \in Nat /\ x[3] \in CompBlocks /\ x[1] \in Chunks
      <4>1. buf[p][x] \in Values
        BY BlockTypes DEF SInv
      <4> QED
        BY <4>1, Numbers DEF Values, Cells, SInv
    <3>3. CASE p = r
      BY <1>2, <1>3, <3>1, <3>2, <3>3
    <3>4. CASE p # r
      BY <1>3, <2>2, <3>1, <3>2, <3>4
    <3> QED
      BY <3>3, <3>4
  <2>4. ASSUME NEW p \in Ranks, launch'[p] >= 1, NEW c \in Chunks, NEW q \in Ranks,
               NEW k \in CommBlocks, NEW j \in CompBlocks, c < NC(p)', Written(p, j, c)'
        PROVE  /\ ~ ShardOver(q, k, launch[p], c)' =>
                    buf[p][<< c, MyShard(q, k), j >>] = << launch'[p], "part" >>
               /\ ShardOver(q, k, launch[p], c)' /\ Arrived(q, k, p, c) =>
                    buf[p][<< c, MyShard(q, k), j >>] = << launch'[p], "sum" >>
    <3>1. p # r /\ c \in Nat
      <4>1. ~ Written(r, j, c)'
        BY <1>2, <1>3 DEF Written
      <4> QED
        BY <1>2, <2>4, <4>1
    <3>2. /\ launch'[p] = launch[p] /\ NC(p)' = NC(p) /\ Written(p, j, c)
          /\ launch[p] \in Nat /\ launch[r] \in Nat /\ launch[p] >= 1
      BY <1>2, <1>3, <1>5, <2>2, <2>4, <3>1
    <3>3. ShardOver(q, k, launch[p], c)' <=> ShardOver(q, k, launch[p], c)
      <4>1. CASE q # r
        BY <1>3, <3>2, <4>1 DEF ShardOver
      <4>2. CASE q = r
        <5>1. ~ (comm'[r][k].chunk > c)
          BY <1>3, <1>4, <3>1
        <5>2. launch[r] = launch[p] => comm[r][k].chunk > c
          <6> SUFFICES ASSUME launch[r] = launch[p]
                       PROVE  comm[r][k].chunk > c
            OBVIOUS
          <6>1. NC(r) = NC(p) /\ c < NC(r)
            BY <2>4, <3>2 DEF NC
          <6>2. comm[r][k].chunk = NC(r)
            BY <1>1, <3>2 DEF SInv, RetiredDone
          <6> QED
            BY <6>1, <6>2, <3>1, BlockTypes DEF SInv
        <5> QED
          BY <1>3, <3>2, <4>2, <5>1, <5>2 DEF ShardOver
      <4> QED
        BY <4>1, <4>2
    <3> QED
      BY <2>4, <3>2, <3>3 DEF SInv, BufferRight
  <2> QED
    BY <2>1, <2>3, <2>4 DEF BufferRight
<1> QED
  BY <1>7, <1>8, <1>9, <1>10, <1>11, <1>12 DEF SInv

LEMMA SumsNothing ==
    ASSUME SInv, IInv', UNCHANGED vars
    PROVE  SInv'
<1>1. UNCHANGED << fixed, launch, running, words, buf, inFlight, comp, comm >>
  BY DEF vars
<1>2. \A q : NC(q)' = NC(q)
  BY <1>1 DEF NC, fixed
<1>3. /\ \A q, n, c : ChunkOver(q, n, c)' <=> ChunkOver(q, n, c)
      /\ \A q, k, n, c : ShardOver(q, k, n, c)' <=> ShardOver(q, k, n, c)
      /\ \A q, n : StoresOver(q, n)' <=> StoresOver(q, n)
      /\ \A q, n : PastFinal(q, n)' <=> PastFinal(q, n)
      /\ \A q, j, c : Written(q, j, c)' <=> Written(q, j, c)
      /\ \A q, k, p, c : Arrived(q, k, p, c)' <=> Arrived(q, k, p, c)
      /\ \A q, k : MyShard(q, k)' = MyShard(q, k)
      /\ \A q, k : Counted(comm[q][k], NC(q))' <=> Counted(comm[q][k], NC(q))
  BY <1>1, <1>2, SameGrid DEF ChunkOver, ShardOver, StoresOver, PastFinal, Final, Written,
     Arrived, MyShard, Counted, words
<1>4. RetiredDone' /\ ArrivalsRight'
  BY <1>1, <1>2, <1>3, SameGrid DEF SInv, RetiredDone, ArrivalsRight
<1>5. PadsRight' /\ ThroughRight'
  BY <1>1, <1>3, SameGrid DEF SInv, PadsRight, ThroughRight, fixed, words
<1>6. StoresRight'
  BY <1>1, <1>3, SameGrid DEF SInv, StoresRight
<1>7. BufferRight'
  BY <1>1, <1>2, <1>3, SameGrid DEF SInv, BufferRight
<1> QED
  BY <1>4, <1>5, <1>6, <1>7 DEF SInv

-----------------------------------------------------------------------------
(* The theorems.                                                             *)

LEMMA SumsEveryStep == SInv /\ [Next]_vars => SInv'
<1> SUFFICES ASSUME SInv, [Next]_vars
             PROVE  SInv'
  OBVIOUS
<1>0. IInv'
  BY EveryStep DEF SInv
<1>1. ASSUME NEW r \in Ranks, Enter(r) \/ Retire(r)
      PROVE  SInv'
  BY <1>0, <1>1, SumsEnter, SumsRetire
<1>2. ASSUME NEW r \in Ranks, NEW j \in CompBlocks, Compute(r, j)
      PROVE  SInv'
  BY <1>0, <1>2, SumsWrite, SumsSignal DEF Compute
<1>3. ASSUME NEW r \in Ranks, NEW k \in CommBlocks, Communicate(r, k)
      PROVE  SInv'
  BY <1>0, <1>3, SumsAwaitReady, SumsArriveAt, SumsAwaitPeers, SumsReduce, SumsCountDone,
     SumsSetFlag, SumsAwaitFlag DEF Communicate
<1>4. ASSUME NEW s \in inFlight, Perform(s)
      PROVE  SInv'
  BY <1>0, <1>4, SumsPerform
<1>5. CASE Finished \/ UNCHANGED vars
  BY <1>0, <1>5, SumsNothing DEF Finished
<1> QED
  BY <1>1, <1>2, <1>3, <1>4, <1>5 DEF Next

LEMMA SumsAlways == Spec => []SInv
<1>1. Init => SInv
  BY SumsInitially
<1>2. SInv /\ [Next]_vars => SInv'
  BY SumsEveryStep
<1> QED
  BY <1>1, <1>2, PTL DEF Spec

\* Whatever the number of ranks, blocks, chunks and launches: every shard is
\* added up from the finished partials of its own launch, each exactly once, and
\* a rank whose kernel has retired holds the whole sum with nothing still on its
\* way to its buffer (tp_mm_reduce, the final pad and tp_done_flag).
THEOREM RetiredHoldsTheSum == Spec => []RetiredComplete
<1>1. SInv => RetiredComplete
  BY SumsSuffice
<1> QED
  BY <1>1, SumsAlways, PTL

-----------------------------------------------------------------------------
(* The refinement: the launches behave as all-reduces.                       *)

\* The refinement mapping of Collective, named.
Left == [r \in Ranks |-> IF r \in running THEN launch[r] - 1 ELSE launch[r]]
Result == [r \in Ranks |-> IF Complete(r) THEN launch[r] ELSE 0]

LEMMA CompleteKept ==
    ASSUME UNCHANGED fixed, NEW q \in Ranks, launch'[q] = launch[q],
           \A x \in Cells : buf'[q][x] = buf[q][x]
    PROVE  Complete(q)' <=> Complete(q)
<1>1. NC(q)' = NC(q) /\ Cells' = Cells
  BY SameGrid DEF NC, fixed
<1> QED
  BY <1>1 DEF Complete, UsedCells

LEMMA SomeCell ==
    ASSUME IInv, NEW j \in CompBlocks, NEW c \in Chunks
    PROVE  << c, MyShard(0, 0), j >> \in Cells
<1>1. 0 \in Ranks /\ 0 \in CommBlocks
  BY Numbers DEF Ranks, CommBlocks
<1> QED
  BY <1>1, ShardFacts DEF Cells

LEMMA NothingSeen ==
    ASSUME UNCHANGED << fixed, launch, running, buf >>
    PROVE  UNCHANGED << launch, Left, Result >>
<1>1. \A q \in Ranks : Complete(q)' <=> Complete(q)
  BY CompleteKept
<1> QED
  BY <1>1 DEF Left, Result

\* A rank that starts over has nothing of the new launch in its buffer.
LEMMA SeesEnter ==
    ASSUME SInv, SInv', NEW r \in Ranks, Enter(r)
    PROVE  /\ Left[r] = launch[r] /\ launch[r] < MaxLaunches
           /\ launch' = [launch EXCEPT ![r] = @ + 1]
           /\ Result' = [Result EXCEPT ![r] = 0]
           /\ Left' = Left
<1>1. /\ r \notin running /\ launch[r] < MaxLaunches /\ running' = running \cup {r}
      /\ launch' = [launch EXCEPT ![r] = @ + 1]
      /\ UNCHANGED << fixed, buf >>
  BY DEF Enter
<1>2. launch \in [Ranks -> Nat] /\ launch'[r] = launch[r] + 1 /\ MaxLaunches \in Nat
  BY <1>1, Numbers DEF SInv
<1>3. \A q \in Ranks : q # r => launch'[q] = launch[q] /\ (Complete(q)' <=> Complete(q))
  BY <1>1, <1>2, CompleteKept
<1>4. ~ Complete(r)'
  <2>1. NC(r)' \in 1..MaxChunk /\ MaxChunk \in Nat \ {0} /\ NComp \in Nat \ {0}
    <3>1. chunksOf[launch[r] + 1] \in 1..MaxChunk
      BY <1>1, <1>2, Numbers DEF SInv
    <3> QED
      BY <1>1, <1>2, <3>1, Numbers DEF NC, fixed, SInv
  <2> DEFINE x == << 0, MyShard(0, 0), 0 >>
  <2>2. x \in Cells /\ 0 < NC(r)'
    <3>1. 0 \in CompBlocks /\ 0 \in Chunks
      BY <2>1 DEF CompBlocks, Chunks
    <3> QED
      BY <2>1, <3>1, SomeCell DEF SInv
  <2>3. buf[r][x][1] # launch[r] + 1
    <3>1. buf[r][x][1] <= launch[r]
      BY <2>2 DEF SInv, BufferRight
    <3>2. buf[r][x] \in Values
      BY <2>2, BlockTypes DEF SInv
    <3> HIDE DEF x
    <3>3. buf[r][x][1] \in Nat
      BY <1>2, <3>2 DEF Values
    <3> QED
      BY <1>2, <3>1, <3>3
  <2>4. x \in UsedCells(r)'
    <3>1. Cells' = Cells
      BY <1>1, SameGrid
    <3>2. x[1] = 0
      OBVIOUS
    <3> HIDE DEF x
    <3> QED
      BY <2>2, <3>1, <3>2 DEF UsedCells
  <2> HIDE DEF x
  <2>5. buf'[r][x] # << launch'[r], "sum" >>
    BY <1>1, <1>2, <2>3
  <2> QED
    BY <2>4, <2>5 DEF Complete
<1>5. Result' = [Result EXCEPT ![r] = 0]
  <2>1. \A q \in Ranks : Result'[q] = [Result EXCEPT ![r] = 0][q]
    <3> SUFFICES ASSUME NEW q \in Ranks
                 PROVE  Result'[q] = [Result EXCEPT ![r] = 0][q]
      OBVIOUS
    <3>1. CASE q = r
      BY <1>4, <3>1 DEF Result
    <3>2. CASE q # r
      BY <1>3, <3>2 DEF Result
    <3> QED
      BY <3>1, <3>2
  <2> QED
    BY <2>1 DEF Result
<1>6. Left' = Left
  <2>1. \A q \in Ranks : Left'[q] = Left[q]
    <3> SUFFICES ASSUME NEW q \in Ranks
                 PROVE  Left'[q] = Left[q]
      OBVIOUS
    <3>1. CASE q = r
      BY <1>1, <1>2, <3>1 DEF Left
    <3>2. CASE q # r
      BY <1>1, <1>3, <3>2 DEF Left
    <3> QED
      BY <3>1, <3>2
  <2> QED
    BY <2>1 DEF Left
<1> QED
  BY <1>1, <1>5, <1>6 DEF Left

\* A compute block writes while its rank's buffer is, and stays, incomplete.
LEMMA SeesWrite ==
    ASSUME SInv, NEW r \in Ranks, NEW j \in CompBlocks, Write(r, j)
    PROVE  UNCHANGED << launch, Left, Result >>
<1> DEFINE c == comp[r][j].chunk
           x == << c, MyShard(0, 0), j >>
<1>1. /\ r \in running /\ c < NC(r) /\ ~ comp[r][j].wrote
      /\ buf' = [buf EXCEPT ![r] = [y \in Cells |->
              IF y[1] = c /\ y[3] = j THEN << launch[r], "part" >> ELSE @[y]]]
      /\ UNCHANGED << fixed, launch, running >>
  BY DEF Write
<1>2. /\ c \in Nat /\ c \in Chunks /\ launch[r] \in Nat /\ launch[r] >= 1
  <2>1. c \in Nat /\ NC(r) \in 1..MaxChunk /\ launch[r] \in 1..MaxLaunches /\ MaxChunk \in Nat
    BY <1>1, BlockTypes, Numbers DEF SInv
  <2> QED
    BY <1>1, <2>1 DEF Chunks
<1>3. x \in Cells /\ x[1] = c /\ x[3] = j
  BY <1>2, SomeCell DEF SInv
<1>4. ~ Written(r, j, c)
  BY <1>1, <1>2 DEF Written
<1> HIDE DEF c, x
<1>5. ~ Complete(r)
  <2>1. buf[r][x][1] < launch[r]
    BY <1>2, <1>3, <1>4 DEF SInv, BufferRight
  <2>2. x \in UsedCells(r)
    BY <1>1, <1>3 DEF UsedCells
  <2>3. buf[r][x] # << launch[r], "sum" >>
    BY <1>2, <2>1
  <2> QED
    BY <2>2, <2>3 DEF Complete
<1>6. ~ Complete(r)'
  <2>1. buf'[r][x] = << launch[r], "part" >>
    BY <1>1, <1>3, BlockTypes DEF SInv
  <2>2. x \in UsedCells(r)'
    <3>1. NC(r)' = NC(r) /\ Cells' = Cells
      BY <1>1, SameGrid DEF NC, fixed
    <3> QED
      BY <1>1, <1>3, <3>1 DEF UsedCells
  <2> QED
    BY <1>1, <2>1, <2>2 DEF Complete
<1>7. \A q \in Ranks : q # r => (Complete(q)' <=> Complete(q))
  BY <1>1, CompleteKept, BlockTypes DEF SInv
<1> QED
  BY <1>1, <1>5, <1>6, <1>7 DEF Left, Result

\* The store that completes a rank's buffer comes after every rank has entered,
\* and before the rank leaves.
LEMMA SeesPerform ==
    ASSUME SInv, NEW s \in inFlight, Perform(s)
    PROVE  /\ UNCHANGED << launch, Left >>
           /\ \/ Result' = Result
              \/ /\ s.to \in Ranks /\ Result[s.to] = 0 /\ Left[s.to] < launch[s.to]
                 /\ \A q \in Ranks : launch[q] >= launch[s.to]
                 /\ Result' = [Result EXCEPT ![s.to] = launch[s.to]]
<1> DEFINE o == s.from[1]
           i == s.from[2]
           d == s.to
<1>1. o \in Ranks /\ i \in CommBlocks /\ d \in Ranks /\ s.chunk \in Chunks
  BY BlockTypes DEF SInv, Store
<1>2. /\ o \in running /\ launch[d] = launch[o] /\ s.chunk < comm[o][i].chunk
      /\ \A j \in CompBlocks : s.value[j] = << launch[d], "sum" >>
  BY DEF SInv, StoresRight
<1>3. /\ buf' = [buf EXCEPT ![d] = [x \in Cells |->
              IF x[1] = s.chunk /\ x[2] = MyShard(o, i) THEN s.value[x[3]] ELSE @[x]]]
      /\ UNCHANGED << fixed, launch, running >>
  BY DEF Perform
<1>4. launch[d] \in Nat /\ launch[d] >= 1 /\ \A q \in Ranks : launch[q] >= launch[d]
  <2>1. comm[o][i].chunk >= 1
    <3>1. comm[o][i].chunk \in Nat /\ s.chunk \in Nat
      BY <1>1, BlockTypes, Numbers DEF SInv, Chunks
    <3> QED
      BY <1>2, <3>1
  <2>2. \A q \in Ranks : launch[q] >= launch[o]
    BY <1>1, <1>2, <2>1, BlockFacts DEF Through, SInv
  <2> QED
    BY <1>1, <1>2, <2>2, Numbers DEF SInv
<1>5. \A q \in Ranks : q # d => buf'[q] = buf[q]
  BY <1>3, BlockTypes DEF SInv
<1>6. \A x \in Cells : buf'[d][x] = buf[d][x] \/ buf'[d][x] = << launch[d], "sum" >>
  <2>1. \A x \in Cells : x[3] \in CompBlocks
    BY DEF Cells
  <2> QED
    BY <1>1, <1>2, <1>3, <2>1, BlockTypes DEF SInv
<1> HIDE DEF o, i, d
<1>7. \A q \in Ranks : q # d => (Complete(q)' <=> Complete(q))
  BY <1>3, <1>5, CompleteKept
<1>8. Complete(d) => Complete(d)'
  <2>1. NC(d)' = NC(d) /\ Cells' = Cells /\ launch' = launch
    BY <1>3, SameGrid DEF NC, fixed
  <2> QED
    BY <1>6, <2>1 DEF Complete, UsedCells
<1>9. UNCHANGED << launch, Left >>
  BY <1>3 DEF Left
<1>10. CASE Complete(d) \/ ~ Complete(d)'
  BY <1>3, <1>7, <1>8, <1>9, <1>10 DEF Result
<1>11. CASE ~ Complete(d) /\ Complete(d)'
  <2>1. d \in running
    BY <1>1, <1>4, <1>11, RetiredThenComplete
  <2>2. Result[d] = 0 /\ Left[d] < launch[d]
    BY <1>1, <1>4, <1>11, <2>1 DEF Result, Left
  <2>3. Result' = [Result EXCEPT ![d] = launch[d]]
    BY <1>1, <1>3, <1>7, <1>11 DEF Result
  <2> QED
    BY <1>1, <1>4, <1>9, <2>2, <2>3 DEF d
<1> QED
  BY <1>10, <1>11

\* A rank leaves with its buffer complete.
LEMMA SeesRetire ==
    ASSUME SInv, NEW r \in Ranks, Retire(r)
    PROVE  /\ Left[r] < launch[r] /\ Result[r] = launch[r]
           /\ Left' = [Left EXCEPT ![r] = launch[r]]
           /\ UNCHANGED << launch, Result >>
<1>1. /\ r \in running /\ running' = running \ {r}
      /\ \A j \in CompBlocks : comp[r][j].chunk = NC(r)
      /\ \A k \in CommBlocks : comm[r][k].at = "done"
      /\ UNCHANGED << fixed, launch, buf >>
  BY DEF Retire
<1>2. launch \in [Ranks -> Nat] /\ launch[r] >= 1
  BY <1>1, Numbers DEF SInv
<1>3. Complete(r)
  <2>1. 0 \in CommBlocks
    BY Numbers DEF SInv, CommBlocks
  <2>2. Final(r)
    BY <1>1, <2>1 DEF Final
  <2> QED
    BY <1>1, <1>2, <2>2, FinalThenComplete
<1>4. \A q \in Ranks : Complete(q)' <=> Complete(q)
  BY <1>1, CompleteKept
<1>5. Left' = [Left EXCEPT ![r] = launch[r]]
  BY <1>1 DEF Left
<1> QED
  BY <1>1, <1>2, <1>3, <1>4, <1>5 DEF Left, Result

\* Every step of the epilogue is a step of the abstract all-reduce, or none.
LEMMA StepsImplement ==
    SInv /\ SInv' /\ [Next]_vars => [Collective!Next]_(Collective!vars)
<1> SUFFICES ASSUME SInv, SInv', [Next]_vars
             PROVE  Collective!Next \/ UNCHANGED << launch, Left, Result >>
  BY DEF Collective!vars, Left, Result
<1>1. ASSUME NEW r \in Ranks, Enter(r)
      PROVE  Collective!Next
  BY <1>1, SeesEnter DEF Collective!Next, Collective!Enter, Left, Result
<1>2. ASSUME NEW r \in Ranks, Retire(r)
      PROVE  Collective!Next
  BY <1>2, SeesRetire DEF Collective!Next, Collective!Leave, Left, Result
<1>3. ASSUME NEW r \in Ranks, NEW j \in CompBlocks, Compute(r, j)
      PROVE  UNCHANGED << launch, Left, Result >>
  <2>1. CASE Write(r, j)
    BY <2>1, SeesWrite
  <2>2. CASE Signal(r, j)
    <3>1. UNCHANGED << fixed, launch, running, buf >>
      BY <2>2 DEF Signal
    <3> QED
      BY <3>1, NothingSeen
  <2> QED
    BY <1>3, <2>1, <2>2 DEF Compute
<1>4. ASSUME NEW r \in Ranks, NEW k \in CommBlocks, Communicate(r, k)
      PROVE  UNCHANGED << launch, Left, Result >>
  <2>1. UNCHANGED << fixed, launch, running, buf >>
    BY <1>4 DEF Communicate, AwaitReady, ArriveAt, AwaitPeers, Reduce, CountDone, SetFlag,
       AwaitFlag
  <2> QED
    BY <2>1, NothingSeen
<1>5. ASSUME NEW s \in inFlight, Perform(s)
      PROVE  Collective!Next \/ UNCHANGED << launch, Left, Result >>
  BY <1>5, SeesPerform DEF Collective!Next, Collective!Complete, Left, Result
<1>6. CASE Finished \/ UNCHANGED vars
  <2>1. UNCHANGED << fixed, launch, running, buf >>
    BY <1>6 DEF Finished, vars
  <2> QED
    BY <2>1, NothingSeen
<1> QED
  BY <1>1, <1>2, <1>3, <1>4, <1>5, <1>6 DEF Next

\* Whatever the number of ranks, blocks, chunks and launches: the fused launches
\* are all-reduces.  No rank comes out of its k-th launch before every rank has
\* gone into its own k-th, and what it comes out with is complete.
THEOREM EpilogueImplements == Spec => ImplementsAllReduce
<1>1. Init => Collective!Init
  <2> SUFFICES ASSUME Init
               PROVE  Collective!Init
    OBVIOUS
  <2>1. launch = [r \in Ranks |-> 0] /\ running = {}
    BY DEF Init
  <2>2. \A r \in Ranks : ~ Complete(r)
    BY <2>1 DEF Complete
  <2> QED
    BY <2>1, <2>2 DEF Collective!Init
<1>2. SInv /\ SInv' /\ [Next]_vars => [Collective!Next]_(Collective!vars)
  BY StepsImplement
<1> QED
  BY <1>1, <1>2, SumsAlways, PTL DEF Spec, ImplementsAllReduce, Collective!Spec

=============================================================================
