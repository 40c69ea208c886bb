---------------------------- MODULE Launch_proofs -----------------------------
(* Proofs about what stands around a launch: the index arithmetic of its      *)
(* chunks, shards and pads, the weights in the form the kernel takes, the     *)
(* gate that finds a library's kernel and calls it, and the pool that all     *)
(* launches share.                                                            *)
EXTENDS ChunkPartition, Fp8Weights, HostGate, SymmPool, NumberLemmas, SequenceTheorems

-----------------------------------------------------------------------------
(* The chunks of a launch.                                                   *)

\* A launch that the launcher accepts, at one of its chunks.
PartitionIInv ==
    /\ tokens \in TokenCounts /\ nchunk \in ChunkCounts
    /\ world \in Worlds /\ ncomm \in CommCounts
    /\ Accepts(tokens, nchunk, world, ncomm)
    /\ chunk \in 0..(nchunk - 1)

\* A chunk of whole units holds whole vectors.
WholeVectors ==
    \A n \in TokenCounts, c \in 1..MaxC : WholeUnits(n, c) => (n * HDim) % (W * c) = 0


\* The units of the output, and of a chunk, when the launch is accepted.
LEMMA UnitFacts ==
  ASSUME PartitionIInv
  PROVE  /\ OutElems \in Nat /\ nchunk \in Nat \ {0} /\ Mm \in Nat \ {0} /\ W \in Nat \ {0}
         /\ \E m \in Nat : /\ OutElems \div Mm = nchunk * m
                           /\ OutElems = (Mm * nchunk) * m
                           /\ \A c \in Nat : UnitLo(c) = m * c
<1>1. /\ tokens \in Nat /\ HDim \in Nat /\ nchunk \in Nat \ {0} /\ Mm \in Nat \ {0}
      /\ W \in Nat \ {0} /\ WholeUnits(tokens, nchunk)
  BY PartitionAssumption, SMT DEF PartitionIInv, Accepts
<1>2. OutElems \in Nat /\ Mm * nchunk \in Nat \ {0}
  BY <1>1, SMT DEF OutElems
<1>3. OutElems % (Mm * nchunk) = 0
  BY <1>1 DEF WholeUnits, OutElems
<1>4. PICK m \in Nat : OutElems = (Mm * nchunk) * m
  BY <1>2, <1>3, Divides
<1>5. OutElems = Mm * (nchunk * m) /\ nchunk * m \in Nat
  BY <1>1, <1>4, SMT
<1>6. OutElems \div Mm = nchunk * m
  BY <1>1, <1>5, DivExact
<1>7. ASSUME NEW c \in Nat PROVE UnitLo(c) = m * c
  <2>1. (nchunk * m) * c = nchunk * (m * c) /\ m * c \in Nat
    BY <1>1, <1>4, SMT
  <2>2. (nchunk * (m * c)) \div nchunk = m * c
    BY <1>1, <2>1, DivExact
  <2> QED BY <1>6, <2>1, <2>2 DEF UnitLo
<1> QED BY <1>1, <1>2, <1>4, <1>6, <1>7

LEMMA ChunksOfBothSides ==
  ASSUME WholeVectors, PartitionIInv
  PROVE  ChunksAgree
<1>1. /\ OutElems \in Nat /\ nchunk \in Nat \ {0} /\ Mm \in Nat \ {0} /\ W \in Nat \ {0}
      /\ chunk \in Nat /\ chunk + 1 \in Nat
  BY UnitFacts, SMT DEF PartitionIInv
<1>2. PICK m \in Nat : /\ OutElems = (Mm * nchunk) * m
                       /\ \A c \in Nat : UnitLo(c) = m * c
  BY UnitFacts
<1>3. OutElems % (W * nchunk) = 0 /\ W * nchunk \in Nat \ {0}
  <2>1. nchunk \in 1..MaxC /\ tokens \in TokenCounts /\ WholeUnits(tokens, nchunk)
    BY DEF PartitionIInv, Accepts
  <2>2. W * nchunk \in Nat \ {0}
    BY <1>1, SMT
  <2> QED BY <2>1, <2>2 DEF WholeVectors, OutElems
<1>4. PICK v \in Nat : OutElems = (W * nchunk) * v
  BY <1>1, <1>3, Divides
<1>5. OutElems = W * (nchunk * v) /\ nchunk * v \in Nat
  BY <1>1, <1>4, SMT
<1>6. OutElems \div W = nchunk * v
  BY <1>1, <1>5, DivExact
<1>7. Mm * m = W * v
  <2>1. nchunk * (Mm * m) = nchunk * (W * v) /\ Mm * m \in Nat /\ W * v \in Nat
    BY <1>1, <1>2, <1>4, SMT
  <2> QED BY <1>1, <2>1, DivExact
<1>8. ASSUME NEW c \in Nat PROVE ComputeLo(c) = UnitLo(c) * Mm
  <2>1. (nchunk * v) * c = nchunk * (v * c) /\ v * c \in Nat
    BY <1>1, <1>4, SMT
  <2>2. (nchunk * (v * c)) \div nchunk = v * c
    BY <1>1, <2>1, DivExact
  <2>3. ComputeLo(c) = (v * c) * W
    BY <1>6, <2>1, <2>2 DEF ComputeLo
  <2>4. (v * c) * W = (W * v) * c /\ (m * c) * Mm = (Mm * m) * c
    BY <1>1, <1>2, <1>4, SMT
  <2> QED BY <1>2, <1>7, <2>3, <2>4
<1>9. UnitLo(nchunk) * Mm = OutElems
  BY <1>1, <1>2, SMT
<1> QED BY <1>1, <1>8, <1>9 DEF ChunksAgree

\* The bounds of a chunk are ordered, and shards cut it in whole groups.
LEMMA ShardFacts ==
  ASSUME PartitionIInv
  PROVE  /\ UnitLo(chunk) \in Nat /\ UnitLo(chunk + 1) \in Nat
         /\ UnitLo(chunk) <= UnitLo(chunk + 1)
         /\ Groups \in Nat /\ NumShards \in Nat \ {0} /\ Align \in Nat \ {0}
         /\ UnitLo(chunk + 1) <= UnitLo(chunk) + Groups * Align
         /\ \A s \in Nat : Edge(s) \in Nat /\ Edge(s) >= UnitLo(chunk)
         /\ \A s, t \in Nat : s <= t => Edge(s) <= Edge(t)
         /\ Edge(0) = UnitLo(chunk) /\ Edge(NumShards) = UnitLo(chunk) + Groups * Align
<1> DEFINE lo == UnitLo(chunk)
           hi == UnitLo(chunk + 1)
<1>1. /\ lo \in Nat /\ hi \in Nat /\ lo <= hi
  <2>1. PICK m \in Nat : \A c \in Nat : UnitLo(c) = m * c
    BY UnitFacts
  <2>2. chunk \in Nat /\ chunk + 1 \in Nat /\ chunk <= chunk + 1
    BY UnitFacts, SMT DEF PartitionIInv
  <2>3. m * chunk \in Nat /\ m * (chunk + 1) \in Nat /\ m * chunk <= m * (chunk + 1)
    BY <2>1, <2>2, ProductMonotone, SMT
  <2> QED BY <2>1, <2>2, <2>3
<1>2. NumShards \in Nat \ {0} /\ Align \in Nat \ {0}
  <2>1. world \in Nat \ {0} /\ ncomm \in Nat \ {0} /\ Align \in Nat \ {0}
    BY PartitionAssumption, SMT DEF PartitionIInv, Accepts
  <2> QED BY <2>1, SMT DEF NumShards
<1> HIDE DEF lo, hi
<1>3. Groups = (hi - lo + Align - 1) \div Align /\ hi - lo + Align - 1 \in Nat
  BY <1>1, <1>2, SMT DEF Groups, lo, hi
<1>4. Groups \in Nat /\ hi <= lo + Groups * Align
  <2>1. /\ Groups \in Nat
        /\ hi - lo + Align - 1 < Align * Groups + Align
    BY <1>2, <1>3, DivBounds
  <2>2. Align * Groups = Groups * Align /\ Align * Groups \in Nat
    BY <1>2, <2>1, SMT
  <2> QED BY <1>1, <1>2, <2>1, <2>2, SMT
<1>5. ASSUME NEW s \in Nat
      PROVE  /\ Groups * s \in Nat /\ (Groups * s) \div NumShards \in Nat
             /\ ((Groups * s) \div NumShards) * Align \in Nat
  <2>1. Groups * s \in Nat
    BY <1>4, SMT
  <2>2. (Groups * s) \div NumShards \in Nat
    BY <2>1, <1>2, DivBounds
  <2> QED BY <1>2, <2>1, <2>2, SMT
<1>6. ASSUME NEW s \in Nat
      PROVE  Edge(s) = lo + ((Groups * s) \div NumShards) * Align
  BY DEF Edge, lo
<1>7. ASSUME NEW s \in Nat, NEW t \in Nat, s <= t
      PROVE  Edge(s) <= Edge(t)
  <2>1. Groups * s <= Groups * t
    BY <1>4, <1>7, ProductMonotone
  <2>2. (Groups * s) \div NumShards <= (Groups * t) \div NumShards
    BY <1>2, <1>5, <2>1, DivMonotone
  <2>3. ((Groups * s) \div NumShards) * Align <= ((Groups * t) \div NumShards) * Align
    BY <1>2, <1>5, <2>2, ProductMonotone
  <2> QED BY <1>1, <1>5, <1>6, <2>3, SMT
<1>8. Edge(0) = lo
  <2>1. Groups * 0 = NumShards * 0 /\ 0 * Align = 0
    BY <1>2, <1>4, SMT
  <2>2. (NumShards * 0) \div NumShards = 0
    BY <1>2, DivExact
  <2> QED BY <1>1, <1>6, <2>1, <2>2, SMT
<1>9. Edge(NumShards) = lo + Groups * Align
  <2>1. Groups * NumShards = NumShards * Groups
    BY <1>2, <1>4, SMT
  <2>2. (NumShards * Groups) \div NumShards = Groups
    BY <1>2, <1>4, DivExact
  <2> QED BY <1>2, <1>6, <2>1, <2>2
<1>10. ASSUME NEW s \in Nat PROVE Edge(s) \in Nat /\ Edge(s) >= lo
  BY <1>1, <1>5, <1>6, SMT
<1> QED BY <1>1, <1>2, <1>4, <1>7, <1>8, <1>9, <1>10 DEF lo, hi

LEMMA ShardsTiled == ASSUME PartitionIInv PROVE ShardsTile
<1> DEFINE hi == UnitLo(chunk + 1)
<1>1. NumShards \in Nat \ {0} /\ hi \in Nat
  BY ShardFacts
<1>2. ShardLo(0) = UnitLo(chunk)
  BY ShardFacts, SMT DEF ShardLo, Cut
<1>3. ShardHi(NumShards - 1) = hi
  <2>1. NumShards - 1 + 1 = NumShards
    BY <1>1, SMT
  <2>2. Edge(NumShards) \in Nat /\ ~ (Edge(NumShards) < hi)
    <3>1. Edge(NumShards) \in Nat /\ hi <= Edge(NumShards)
      BY ShardFacts
    <3> QED BY <1>1, <3>1, SMT
  <2> QED BY <2>1, <2>2 DEF ShardHi, Cut
<1>4. ASSUME NEW s \in 0..(NumShards - 1)
      PROVE  /\ ShardLo(s) <= ShardHi(s)
             /\ s + 1 < NumShards => ShardHi(s) = ShardLo(s + 1)
  <2>1. s \in Nat /\ s + 1 \in Nat /\ s <= s + 1
    BY <1>1, SMT
  <2>2. Edge(s) \in Nat /\ Edge(s + 1) \in Nat /\ Edge(s) <= Edge(s + 1)
    BY <2>1, ShardFacts
  <2>3. ShardLo(s) <= ShardHi(s)
    BY <1>1, <2>2, SMT DEF ShardLo, ShardHi, Cut
  <2> QED BY <2>3 DEF ShardLo, ShardHi
<1> QED BY <1>2, <1>3, <1>4 DEF ShardsTile

LEMMA PadsFitted == ASSUME PartitionIInv PROVE PadsFit
<1>1. /\ world \in Nat \ {0} /\ ncomm \in Nat \ {0} /\ nchunk \in Nat \ {0} /\ MaxC \in Nat
      /\ Grid \in Nat /\ chunk \in Nat /\ chunk < nchunk /\ nchunk <= MaxC /\ ncomm < Grid
      /\ Grid - 1 \in Nat /\ ncomm <= Grid - 1
  BY PartitionAssumption, SMT DEF PartitionIInv, Accepts
<1>2. /\ nchunk * ncomm \in Nat /\ MaxC * (Grid - 1) \in Nat
      /\ nchunk * ncomm <= MaxC * (Grid - 1)
  <2>1. MaxC * (Grid - 1) \in Nat
    BY <1>1, SMT
  <2> QED BY <1>1, <2>1, ProductMonotone
<1>3. ASSUME NEW p \in Nat, p <= nchunk * ncomm
      PROVE  Word(p, world - 1) < Window
  <2>1. p * world <= (MaxC * (Grid - 1)) * world /\ p * world \in Nat
    BY <1>1, <1>2, <1>3, ProductMonotone, SMT
  <2>2. Window = (MaxC * (Grid - 1)) * world + world /\ (MaxC * (Grid - 1)) * world \in Nat
    <3> DEFINE z == MaxC * (Grid - 1)
    <3>1. z \in Nat
      BY <1>2
    <3>2. Window = (z + 1) * world
      BY DEF Window, PadWords
    <3> HIDE DEF z
    <3>3. (z + 1) * world = z * world + world /\ z * world \in Nat
      BY <1>1, <3>1, SMT
    <3> QED BY <3>2, <3>3 DEF z
  <2>3. Word(p, world - 1) = p * world + (world - 1)
    BY DEF Word
  <2> QED BY <1>1, <2>1, <2>2, <2>3, SMT
<1>4. ASSUME NEW c \in Nat, c < nchunk, NEW k \in 0..(ncomm - 1)
      PROVE  PadOf(c, k) \in Nat /\ c * ncomm <= PadOf(c, k) /\ PadOf(c, k) < (c + 1) * ncomm
  <2>1. c * ncomm \in Nat /\ (c + 1) * ncomm = c * ncomm + ncomm
    BY <1>1, SMT
  <2> QED BY <1>1, <2>1, SMT DEF PadOf
<1>5. ASSUME NEW k \in 0..(ncomm - 1) PROVE PadOf(chunk, k) < FinalPad
  <2>1. (chunk + 1) * ncomm <= nchunk * ncomm /\ (chunk + 1) * ncomm \in Nat
    BY <1>1, ProductMonotone, SMT
  <2>2. PadOf(chunk, k) \in Nat /\ PadOf(chunk, k) < (chunk + 1) * ncomm
    BY <1>1, <1>4
  <2> QED BY <1>2, <2>1, <2>2, SMT DEF FinalPad
<1>6. ASSUME NEW k \in 0..(ncomm - 1), chunk > 0, NEW j \in 0..(ncomm - 1)
      PROVE  PadOf(chunk, k) # PadOf(chunk - 1, j)
  <2>1. chunk - 1 \in Nat /\ chunk - 1 < nchunk /\ (chunk - 1) + 1 = chunk
    BY <1>1, <1>6, SMT
  <2>2. PadOf(chunk - 1, j) \in Nat /\ PadOf(chunk - 1, j) < chunk * ncomm
    BY <1>4, <2>1
  <2>3. PadOf(chunk, k) \in Nat /\ chunk * ncomm <= PadOf(chunk, k) /\ chunk * ncomm \in Nat
    BY <1>1, <1>4, SMT
  <2> QED BY <2>2, <2>3, SMT
<1>7. Word(FinalPad, world - 1) < Window
  BY <1>2, <1>3, SMT DEF FinalPad
<1>8. ASSUME NEW k \in 0..(ncomm - 1)
      PROVE  Word(PadOf(chunk, k), world - 1) < Window /\ PadOf(chunk, k) # FinalPad
  <2>1. PadOf(chunk, k) \in Nat /\ FinalPad \in Nat
    BY <1>1, <1>2, <1>4 DEF FinalPad
  <2>2. PadOf(chunk, k) <= nchunk * ncomm /\ PadOf(chunk, k) # FinalPad
    BY <1>2, <1>5, <2>1, SMT DEF FinalPad
  <2> QED BY <1>3, <2>1, <2>2
<1> QED BY <1>6, <1>7, <1>8 DEF PadsFit

LEMMA PartitionStep ==
  ASSUME PartitionIInv, [Next]_vars
  PROVE  PartitionIInv'
<1>1. UNCHANGED args /\ chunk' \in 0..(nchunk - 1)
  <2>1. nchunk \in Nat \ {0} /\ chunk \in 0..(nchunk - 1)
    BY UnitFacts DEF PartitionIInv
  <2>2. CASE NextChunk
    BY <2>1, <2>2, SMT DEF NextChunk
  <2> QED BY <2>1, <2>2 DEF Next, vars
<1>2. UNCHANGED << tokens, nchunk, world, ncomm >>
  BY <1>1 DEF args
<1> QED BY <1>1, <1>2 DEF PartitionIInv, Accepts, WholeUnits

\* Compute blocks and communication blocks find the same chunks, the shards of all ranks
\* tile each of them, and no two meetings share a pad, at every token count, number of
\* chunks, ranks and communication blocks that the launcher accepts.
THEOREM CutsOfOnePartition == WholeVectors => (Spec => []CutsAgree)
<1> SUFFICES ASSUME WholeVectors PROVE Spec => []CutsAgree
  OBVIOUS
<1>1. Init => PartitionIInv
  <2> SUFFICES ASSUME Init PROVE PartitionIInv
    OBVIOUS
  <2>1. nchunk \in Nat \ {0}
    BY PartitionAssumption, SMT DEF Init, Accepts
  <2> QED BY <2>1, SMT DEF Init, PartitionIInv
<1>2. PartitionIInv /\ [Next]_vars => PartitionIInv'
  BY PartitionStep
<1>3. PartitionIInv => CutsAgree
  BY ChunksOfBothSides, ShardsTiled, PadsFitted DEF CutsAgree
<1> QED BY <1>1, <1>2, <1>3, PTL DEF Spec

\* The builds there are: the output of DeepSeek-V3 and of Qwen3, cut by the same kernel.
OfABuild == HDim \in {7168, 2048} /\ W = 16 /\ Mm = 8 /\ MaxC = 16

\* The launcher asks for whole units of eight only, and yet no accepted launch of these
\* builds, with any number of tokens, has a chunk that cuts a vector of sixteen: both
\* widths hold more factors of two than a chunk count up to TP_MAX_C can take away.
THEOREM BuildsCutWholeVectors == OfABuild => WholeVectors
<1> SUFFICES ASSUME OfABuild, NEW n \in TokenCounts, NEW c \in 1..MaxC, WholeUnits(n, c)
             PROVE  (n * HDim) % (W * c) = 0
  BY DEF WholeVectors
<1>1. n \in Nat /\ W = 16 /\ Mm = 8 /\ c \in 1..16
  BY PartitionAssumption DEF OfABuild
<1>2. c \in {1, 2, 3, 4, 5, 6, 7, 8, 9, 10, 11, 12, 13, 14, 15, 16}
  BY <1>1, SMT
<1>3. ASSUME HDim = 7168, (n * 7168) % (8 * c) = 0 PROVE (n * 7168) % (16 * c) = 0
  BY <1>1, <1>2, <1>3, SMTT(60)
<1>4. ASSUME HDim = 2048, (n * 2048) % (8 * c) = 0 PROVE (n * 2048) % (16 * c) = 0
  BY <1>1, <1>2, <1>4, SMTT(60)
<1> QED BY <1>1, <1>3, <1>4 DEF OfABuild, WholeUnits

-----------------------------------------------------------------------------
(* The weights.                                                              *)

WeightsSpec == WeightsInit /\ [][WeightsNext]_weightVars

\* The checks that a layer with block scales has passed.
Fits == file.block =>
    /\ file.kind = "linear" => ~ LinearMismatch
    /\ file.kind = "experts" => ~ (Unaligned \/ Misplaced)

WeightsIInv ==
    /\ file \in Checkpoints /\ slice \in Slices
    /\ step \in {"create", "load", "process", "ready"} => file.kind \in {"linear", "experts"}
    /\ step \in {"load", "process", "ready"} => Fits
    /\ step = "process" =>
        /\ unit = OnDisk
        /\ scale = IF file.block THEN Loaded ELSE OnDisk
        /\ inputs = IF file.static THEN InputsOnDisk ELSE Nil
    /\ WeightsRight

LEMMA SliceFacts ==
  ASSUME WeightsIInv
  PROVE  /\ slice.tp \in Nat /\ slice.rank \in Nat /\ slice.inter \in Nat
         /\ slice.blockN \in Nat \ {0} /\ slice.blockK \in Nat \ {0} /\ slice.shards \in Nat
         /\ slice.rank < slice.tp
         /\ slice.marlin => ~ slice.invariant
         /\ file \in Checkpoint
<1>1. /\ slice \in Slice /\ slice.rank < slice.tp /\ slice.blockN > 0 /\ slice.blockK > 0
      /\ slice.marlin => ~ slice.invariant
      /\ file \in Checkpoint
  BY WeightsAssumption DEF WeightsIInv
<1>2. /\ slice.tp \in Nat /\ slice.rank \in Nat /\ slice.inter \in Nat
      /\ slice.blockN \in Nat /\ slice.blockK \in Nat /\ slice.shards \in Nat
  BY <1>1 DEF Slice
<1>3. slice.blockN \in Nat \ {0} /\ slice.blockK \in Nat \ {0}
  BY <1>1, <1>2, SMT
<1> QED BY <1>1, <1>2, <1>3

\* Places in blocks: the last block may be short.
LEMMA CeilCovers ==
  ASSUME NEW m \in Nat, NEW b \in Nat \ {0}, NEW i \in 0..(m - 1)
  PROVE  CeilDiv(m, b) \in Nat \ {0} /\ i \div b \in 0..(CeilDiv(m, b) - 1)
<1> DEFINE c == (m + b - 1) \div b
           j == i \div b
<1>1. m + b - 1 \in Nat /\ i \in Nat
  BY SMT
<1>2. c \in Nat /\ m + b - 1 < b * c + b /\ j \in Nat /\ b * j <= i
  BY <1>1, DivBounds
<1> HIDE DEF c, j
<1>3. b * j < b * c
  BY <1>1, <1>2, SMT
<1>4. j < c
  <2>1. ASSUME c <= j PROVE FALSE
    <3>1. b * c <= b * j
      BY <1>2, <2>1, ProductMonotone
    <3>2. b * c \in Nat /\ b * j \in Nat
      BY <1>2, SMT
    <3> QED BY <1>3, <3>1, <3>2, SMT
  <2> QED BY <1>2, <2>1, SMT
<1>5. c \in Nat \ {0} /\ j \in 0..(c - 1)
  BY <1>2, <1>4, SMT
<1> QED BY <1>5 DEF CeilDiv, c, j

\* Parts of whole blocks: place i of part t is in block j of its k.
LEMMA WholeBlocks ==
  ASSUME NEW m \in Nat, NEW b \in Nat \ {0}, NEW k \in Nat, m = b * k, NEW i \in 0..(m - 1)
  PROVE  /\ k \in Nat \ {0} /\ CeilDiv(m, b) = k
         /\ \E j \in 0..(k - 1) :
                i \div b = j /\ \A t \in Nat : (t * m + i) \div b = t * k + j
<1>2. CeilDiv(m, b) = k
  <2>1. m + b - 1 = b * k + (b - 1) /\ b - 1 \in 0..(b - 1)
    BY SMT
  <2>2. (b * k + (b - 1)) \div b = k
    BY <2>1, DivUnique
  <2> QED BY <2>1, <2>2 DEF CeilDiv
<1>3. k \in Nat \ {0} /\ i \div b \in 0..(k - 1)
  BY <1>2, CeilCovers
<1>4. PICK j \in Nat, r \in 0..(b - 1) : i = b * j + r /\ i \div b = j
  BY DivMod, SMT
<1>5. ASSUME NEW t \in Nat PROVE (t * m + i) \div b = t * k + j
  <2>1. t * k + j \in Nat
    BY <1>4, SMT
  <2>2. t * m + i = b * (t * k + j) + r
    <3>1. t * (b * k) = b * (t * k) /\ t * k \in Nat
      BY SMT
    <3>2. b * (t * k + j) = b * (t * k) + b * j
      BY <1>4, <3>1, SMT
    <3>3. b * (t * k) \in Nat /\ b * j \in Nat
      BY <3>1, <1>4, SMT
    <3> QED BY <1>4, <3>1, <3>2, <3>3, SMT
  <2>3. (b * (t * k + j) + r) \div b = t * k + j
    BY <2>1, DivUnique
  <2> QED BY <2>2, <2>3
<1> QED BY <1>2, <1>3, <1>4, <1>5

\* The block that the kernel reads for a row, and for a column, is the row's own.
LEMMA BlocksOwn ==
  ASSUME WeightsIInv, Fits, file.block, file.kind \in {"linear", "experts"}, scale = Loaded,
         NEW i \in 0..(slice.inter - 1)
  PROVE  /\ \A s \in Shards : RowBlock(s, i) = OwnRow(s, i)
         /\ ColumnBlock(i) = OwnColumn(i)
<1> DEFINE m == slice.inter
           b == slice.blockN
           d == slice.blockK
           rank == slice.rank
           shards == slice.shards
<1>1. /\ m \in Nat /\ b \in Nat \ {0} /\ d \in Nat \ {0} /\ rank \in Nat /\ shards \in Nat
      /\ i \in 0..(m - 1) /\ slice.tp \in Nat /\ rank < slice.tp
  BY SliceFacts
<1>2. /\ m % b = 0 \/ (~ (slice.tp > 1) /\ ~ (shards > 1))
      /\ m % d = 0 \/ ~ (slice.tp > 1)
  <2>1. CASE file.kind = "linear"
    BY <2>1, Zenon DEF Fits, LinearMismatch, Misplaced
  <2>2. CASE file.kind = "experts"
    BY <2>2, Zenon DEF Fits, Unaligned, Misplaced
  <2> QED BY <2>1, <2>2
<1>3. ~ (slice.tp > 1) => rank = 0
  BY <1>1, SMT
<1>4. /\ RowBlocks = CeilDiv(m, b) /\ ColumnBlocks = CeilDiv(m, d)
      /\ \A s : RowBlock(s, i) = scale.first[(s * m + i) \div b]
      /\ ColumnBlock(i) = scale.second[i \div d]
      /\ \A s : OwnRow(s, i) = << s, (rank * m + i) \div b >>
      /\ OwnColumn(i) = << 0, (rank * m + i) \div d >>
      /\ Shards = 0..(shards - 1)
  BY DEF RowBlocks, ColumnBlocks, RowBlock, ColumnBlock, OwnRow, OwnColumn, Shards
<1>5. /\ scale.first = [q \in 0..(shards * RowBlocks - 1) |->
                            << q \div RowBlocks, (rank * RowBlocks) + (q % RowBlocks) >>]
      /\ scale.second = [q \in 0..(ColumnBlocks - 1) |-> << 0, rank * ColumnBlocks + q >>]
  BY DEF Loaded
<1> HIDE DEF m, b, d, rank, shards
<1>6. ASSUME NEW s \in Shards, m % b = 0 PROVE RowBlock(s, i) = OwnRow(s, i)
  <2>0. PICK k \in Nat : m = b * k
    BY <1>1, <1>6, Divides
  <2>1. /\ k \in Nat \ {0} /\ CeilDiv(m, b) = k
        /\ \E j \in 0..(k - 1) :
                i \div b = j /\ \A t \in Nat : (t * m + i) \div b = t * k + j
    <3>1. m \in Nat /\ b \in Nat \ {0} /\ k \in Nat /\ m = b * k /\ i \in 0..(m - 1)
      BY <1>1, <2>0
    <3> QED BY <3>1, WholeBlocks
  <2>9. PICK j \in 0..(k - 1) :
            i \div b = j /\ \A t \in Nat : (t * m + i) \div b = t * k + j
    BY <2>1
  <2>2. s \in Nat /\ s + 1 <= shards
    BY <1>1, <1>4, SMT
  <2>3. (s + 1) * k <= shards * k /\ (s + 1) * k = k * s + k /\ k * s = s * k /\ shards * k \in Nat
        /\ k * s \in Nat
    BY <1>1, <2>2, ProductMonotone, SMT
  <2>4. k * s + j \in 0..(shards * k - 1) /\ s * k + j = k * s + j
    BY <2>3, SMT
  <2>5. (k * s + j) \div k = s /\ (k * s + j) % k = j
    BY <2>2, DivUnique
  <2>6. scale.first[k * s + j] = << (k * s + j) \div k, (rank * k) + ((k * s + j) % k) >>
    BY <1>4, <1>5, <2>1, <2>9, <2>4
  <2>7. scale.first[k * s + j] = << s, rank * k + j >>
    BY <2>5, <2>6
  <2>8. (s * m + i) \div b = k * s + j /\ (rank * m + i) \div b = rank * k + j
    BY <1>1, <2>1, <2>9, <2>2, <2>4
  <2> QED BY <1>4, <2>7, <2>8
<1>7. ASSUME NEW s \in Shards, rank = 0, ~ (shards > 1) PROVE RowBlock(s, i) = OwnRow(s, i)
  <2>1. s = 0 /\ shards = 1
    BY <1>1, <1>4, <1>7, SMT
  <2> DEFINE R == CeilDiv(m, b)
             q == i \div b
  <2>2. R \in Nat \ {0} /\ q \in 0..(R - 1)
    BY <1>1, CeilCovers
  <2>3. 0 * m + i = i
    BY <1>1, SMT
  <2> HIDE DEF R, q
  <2>4. q \div R = 0 /\ q % R = q
    <3>1. R * 0 + q = q
      BY <2>2, SMT
    <3>2. (R * 0 + q) \div R = 0 /\ (R * 0 + q) % R = q
      BY <2>2, DivUnique
    <3> QED BY <3>1, <3>2
  <2>5. 0 * R + q = q /\ 1 * R - 1 = R - 1
    BY <2>2, SMT
  <2>6. RowBlocks = R /\ q \in 0..(shards * R - 1)
    BY <1>4, <2>1, <2>2, <2>5 DEF R
  <2>7. scale.first[q] = << q \div R, (rank * R) + (q % R) >>
    BY <1>5, <2>6
  <2>8. scale.first[q] = << 0, q >>
    BY <1>7, <2>4, <2>5, <2>7
  <2> QED BY <1>4, <1>7, <2>1, <2>3, <2>8 DEF q
<1>8. ASSUME m % d = 0 PROVE ColumnBlock(i) = OwnColumn(i)
  <2>0. PICK k \in Nat : m = d * k
    BY <1>1, <1>8, Divides
  <2>1. /\ k \in Nat \ {0} /\ CeilDiv(m, d) = k
        /\ \E j \in 0..(k - 1) :
                i \div d = j /\ \A t \in Nat : (t * m + i) \div d = t * k + j
    <3>1. m \in Nat /\ d \in Nat \ {0} /\ k \in Nat /\ m = d * k /\ i \in 0..(m - 1)
      BY <1>1, <2>0
    <3> QED BY <3>1, WholeBlocks
  <2>9. PICK j \in 0..(k - 1) :
            i \div d = j /\ \A t \in Nat : (t * m + i) \div d = t * k + j
    BY <2>1
  <2>2. scale.second[j] = << 0, rank * k + j >>
    BY <1>4, <1>5, <2>1, <2>9
  <2> QED BY <1>1, <1>4, <2>1, <2>9, <2>2
<1>9. ASSUME rank = 0 PROVE ColumnBlock(i) = OwnColumn(i)
  <2>1. CeilDiv(m, d) \in Nat \ {0} /\ i \div d \in 0..(CeilDiv(m, d) - 1)
    BY <1>1, CeilCovers
  <2>2. 0 * m + i = i /\ 0 * CeilDiv(m, d) + (i \div d) = i \div d
    BY <1>1, <2>1, SMT
  <2>3. scale.second[i \div d] = << 0, i \div d >>
    BY <1>4, <1>5, <1>9, <2>1, <2>2
  <2> QED BY <1>4, <1>9, <2>2, <2>3
<1> QED BY <1>2, <1>3, <1>6, <1>7, <1>8, <1>9

LEMMA ConfigureKeeps ==
  ASSUME WeightsIInv, Configure \/ GetQuantMethod \/ CreateLinearWeights \/ CreateMoEWeights
  PROVE  WeightsIInv'
<1>1. /\ UNCHANGED << file, slice, unit, scale, inputs >>
      /\ step' \in {"raised", "method", "create", "elsewhere", "load"}
      /\ step' = "create" => file.kind \in {"linear", "experts"}
      /\ step' = "load" => file.kind \in {"linear", "experts"} /\ Fits
  <2>1. CASE Configure
    BY <2>1 DEF Configure
  <2>2. CASE GetQuantMethod
    <3>1. Method = "offline" => file.kind \in {"linear", "experts"}
      BY SliceFacts DEF Method, Checkpoint
    <3> QED BY <2>2, <3>1 DEF GetQuantMethod
  <2>3. CASE CreateLinearWeights
    BY <2>3 DEF CreateLinearWeights, Fits
  <2>4. CASE CreateMoEWeights
    BY <2>4 DEF CreateMoEWeights, Fits
  <2> QED BY <2>1, <2>2, <2>3, <2>4
<1>2. Fits' = Fits
  BY <1>1 DEF Fits, LinearMismatch, Unaligned, Misplaced
<1>3. WeightsRight'
  BY <1>1 DEF WeightsRight
<1> QED BY <1>1, <1>2, <1>3 DEF WeightsIInv

LEMMA LoadKeeps == ASSUME WeightsIInv, LoadWeights \/ Reload PROVE WeightsIInv'
<1>1. UNCHANGED << file, slice >> /\ step' \in {"process", "load"} /\ Fits
      /\ file.kind \in {"linear", "experts"}
  BY DEF WeightsIInv, LoadWeights, Reload
<1>2. Fits' = Fits /\ OnDisk' = OnDisk /\ Loaded' = Loaded
  BY <1>1 DEF Fits, LinearMismatch, Unaligned, Misplaced, OnDisk, Loaded, Shards, RowBlocks,
              ColumnBlocks
<1>3. WeightsRight'
  BY <1>1 DEF WeightsRight
<1>4. step' = "process" => LoadWeights
  BY DEF Reload
<1>5. step' = "process" =>
        /\ unit' = OnDisk
        /\ scale' = IF file.block THEN Loaded ELSE OnDisk
        /\ inputs' = IF file.static THEN InputsOnDisk ELSE Nil
  BY <1>4 DEF LoadWeights
<1>6. InputsOnDisk' = InputsOnDisk
  BY DEF InputsOnDisk
<1> QED BY <1>1, <1>2, <1>3, <1>5, <1>6 DEF WeightsIInv

\* The largest of two activation scales, or of twice the two.
LEMMA LargestInput ==
  ASSUME NEW f, DOMAIN f = {0, 1}, f[0] \in Nat, f[1] \in Nat, f[0] <= f[1]
  PROVE  OneInput(f)[0] = f[1]
<1>1. {f[s] : s \in DOMAIN f} = {f[0], f[1]}
  OBVIOUS
<1>2. Max({f[0], f[1]}) \in {f[0], f[1]} /\ \A y \in {f[0], f[1]} : Max({f[0], f[1]}) >= y
  <2>1. \E x \in {f[0], f[1]} : \A y \in {f[0], f[1]} : x >= y
    BY SMT
  <2> QED BY <2>1 DEF Max
<1>3. Max({f[0], f[1]}) = f[1]
  BY <1>2, SMT
<1> QED BY <1>1, <1>3 DEF OneInput, Largest

\* A level matrix has one scale.
LEMMA LevelFirst ==
  ASSUME NEW f, DOMAIN f = {"first", "second"}, DOMAIN f.first = Shards, ~ file.block,
         NEW s \in Shards, 0 \in Shards
  PROVE  Requantized(f).first[s] = Requantized(f).first[0]
<1>1. Requantized(f).first = Level(f.first)
  BY DEF Requantized
<1> QED BY <1>1 DEF Level

LEMMA ZeroShard == ASSUME WeightsIInv, NEW s \in Shards PROVE 0 \in Shards
<1>1. slice.shards \in Nat
  BY SliceFacts
<1> QED BY <1>1, SMT DEF Shards

LEMMA ProcessKeeps ==
  ASSUME WeightsIInv, ProcessLinearWeights \/ ProcessMoEWeights
  PROVE  WeightsIInv'
<1>1. /\ UNCHANGED << file, slice >> /\ step' = "ready" /\ step = "process" /\ Fits
      /\ file.kind \in {"linear", "experts"}
      /\ unit = OnDisk
      /\ scale = IF file.block THEN Loaded ELSE OnDisk
      /\ inputs = IF file.static THEN InputsOnDisk ELSE Nil
  BY DEF WeightsIInv, ProcessLinearWeights, ProcessMoEWeights
<1>2. /\ Fits' = Fits /\ Shards' = Shards /\ Marlin' = Marlin
      /\ (slice.marlin => ~ slice.invariant)
  BY <1>1, SliceFacts DEF Fits, LinearMismatch, Unaligned, Misplaced, Shards, Marlin
<1>3. ASSUME file.block PROVE WeightsRight'
  <2>1. scale' = scale
    <3>1. CASE ProcessLinearWeights
      BY <1>3, <3>1 DEF ProcessLinearWeights, Requantized
    <3>2. CASE ProcessMoEWeights
      BY <1>3, <3>2 DEF ProcessMoEWeights, Requantized, Normal
    <3> QED BY <3>1, <3>2
  <2>2. ASSUME NEW i \in 0..(slice.inter - 1)
        PROVE  /\ \A s \in Shards : RowBlock(s, i)' = OwnRow(s, i)'
               /\ ColumnBlock(i)' = OwnColumn(i)'
    <3>1. /\ \A s \in Shards : RowBlock(s, i) = OwnRow(s, i)
          /\ ColumnBlock(i) = OwnColumn(i)
      BY <1>1, <1>3, BlocksOwn
    <3> QED BY <1>1, <2>1, <3>1 DEF RowBlock, OwnRow, ColumnBlock, OwnColumn
  <2> QED BY <1>1, <1>2, <1>3, <2>2 DEF WeightsRight
<1>4. ASSUME ~ file.block PROVE WeightsRight'
  <2>1. unit = scale /\ scale = OnDisk
    BY <1>1, <1>4
  <2>2. unit' = scale'
    <3>1. CASE ProcessLinearWeights
      BY <2>1, <3>1 DEF ProcessLinearWeights
    <3>2. CASE ProcessMoEWeights
      BY <1>4, <2>1, <3>2 DEF ProcessMoEWeights, Worth, Normal
    <3> QED BY <3>1, <3>2
  <2>3. ASSUME ~ Marlin, NEW s \in Shards PROVE scale'.first[s] = scale'.first[0]
    <3>1. 0 \in Shards
      BY ZeroShard
    <3>2. PICK f : /\ scale' = Requantized(f) /\ DOMAIN f = {"first", "second"}
                   /\ DOMAIN f.first = Shards
      <4>1. DOMAIN OnDisk = {"first", "second"} /\ DOMAIN OnDisk.first = Shards
        BY DEF OnDisk
      <4>2. /\ DOMAIN Twice(OnDisk) = {"first", "second"}
            /\ DOMAIN Twice(OnDisk).first = Shards
        BY <4>1 DEF Twice
      <4>3. CASE ProcessLinearWeights
        BY <2>1, <2>3, <4>1, <4>3 DEF ProcessLinearWeights
      <4>4. CASE ProcessMoEWeights
        BY <2>1, <4>1, <4>2, <4>4 DEF ProcessMoEWeights, Normal
      <4> QED BY <4>3, <4>4
    <3> QED BY <1>4, <3>1, <3>2, LevelFirst
  <2>4. ~ Marlin \/ Dequantizes' => ~ Marlin
    BY <1>1, <1>2 DEF Dequantizes, Marlin
  <2>5. ASSUME file.static, ~ Marlin, NEW i \in DOMAIN InputsOnDisk
        PROVE  inputs'[0] >= InputsOnDisk[i]
    <3>1. /\ DOMAIN InputsOnDisk = {0, 1} /\ InputsOnDisk[0] = 4 /\ InputsOnDisk[1] = 5
      BY SMT DEF InputsOnDisk
    <3>2. inputs = InputsOnDisk
      BY <1>1, <2>5
    <3>3. PICK f : /\ inputs' = OneInput(f) /\ DOMAIN f = {0, 1}
                   /\ f[0] \in Nat /\ f[1] \in Nat /\ f[0] <= f[1] /\ f[1] >= 5
      <4>1. CASE ProcessLinearWeights
        <5>1. inputs' = OneInput(InputsOnDisk)
          BY <2>5, <3>2, <4>1 DEF ProcessLinearWeights
        <5> QED BY <3>1, <5>1, SMT
      <4>2. CASE ProcessMoEWeights
        <5>1. inputs' = OneInput(InputsNormal)
          BY <2>5, <4>2 DEF ProcessMoEWeights
        <5>2. CASE slice.fnuz
          <6>1. InputsNormal = [x \in {0, 1} |-> 2 * InputsOnDisk[x]]
            BY <3>1, <3>2, <5>2 DEF InputsNormal
          <6>2. DOMAIN InputsNormal = {0, 1} /\ InputsNormal[0] = 8 /\ InputsNormal[1] = 10
            BY <3>1, <6>1, SMT
          <6> QED BY <5>1, <6>2, SMT
        <5>3. CASE ~ slice.fnuz
          <6>1. InputsNormal = InputsOnDisk
            BY <3>2, <5>3 DEF InputsNormal
          <6> QED BY <3>1, <5>1, <6>1, SMT
        <5> QED BY <5>2, <5>3
      <4> QED BY <4>1, <4>2
    <3>4. inputs'[0] = f[1]
      BY <3>3, LargestInput
    <3> QED BY <3>1, <3>3, <3>4, SMT
  <2>6. InputsOnDisk' = InputsOnDisk
    BY DEF InputsOnDisk
  <2> QED BY <1>1, <1>2, <1>4, <2>2, <2>3, <2>4, <2>5, <2>6 DEF WeightsRight
<1> QED BY <1>1, <1>2, <1>3, <1>4 DEF WeightsIInv

\* Every weight of a layer that is not refused is multiplied by the scale it was stored
\* with, for any checkpoint configuration, partition, rank, platform and block shape, and
\* again after every reload.
THEOREM WeightsKeepTheirScales == WeightsSpec => []WeightsRight
<1>1. WeightsInit => WeightsIInv
  BY DEF WeightsInit, WeightsIInv, WeightsRight
<1>2. WeightsIInv /\ [WeightsNext]_weightVars => WeightsIInv'
  <2> SUFFICES ASSUME WeightsIInv, [WeightsNext]_weightVars PROVE WeightsIInv'
    OBVIOUS
  <2>1. CASE UNCHANGED weightVars
    <3>1. UNCHANGED << file, slice, step, method, unit, scale, inputs >>
      BY <2>1 DEF weightVars
    <3>2. Fits' = Fits /\ OnDisk' = OnDisk /\ Loaded' = Loaded /\ WeightsRight' = WeightsRight
      BY <3>1 DEF Fits, LinearMismatch, Unaligned, Misplaced, OnDisk, Loaded, Shards, RowBlocks,
                  ColumnBlocks, WeightsRight, RowBlock, ColumnBlock, OwnRow, OwnColumn, Marlin,
                  Dequantizes, InputsOnDisk
    <3> QED BY <3>1, <3>2 DEF WeightsIInv, InputsOnDisk
  <2>2. CASE WeightsNext
    BY <2>1, <2>2, ConfigureKeeps, LoadKeeps, ProcessKeeps DEF WeightsNext
  <2> QED BY <2>1, <2>2
<1>3. WeightsIInv => WeightsRight
  BY DEF WeightsIInv
<1> QED BY <1>1, <1>2, <1>3, PTL DEF WeightsSpec

-----------------------------------------------------------------------------
(* The gate.                                                                 *)

HostSpec == HostInit /\ [][HostNext]_hostVars

\* The fields of a layer's geometry.
Fields == {"num_experts", "num_experts_local", "top_k", "k_dim", "h_dim", "n_up", "n_half"}

\* Libraries that report their geometry and their router.  One that reports no local
\* count of experts was compiled without expert parallelism.
RealBuilds ==
    \A b \in Builds :
        /\ (Fields \ {"num_experts_local"}) \cup {"router_mode"} \subseteq b.exports
        /\ \A f \in Fields : b.const[f] \in Nat
        /\ b.const.router_mode \in {0, 1, 2}
        /\ "num_experts_local" \notin b.exports =>
                b.const.num_experts_local = b.const.num_experts

\* An expert map gives every owned expert a slab of its own, or it is a mask of zeros and
\* ones, which are all taken for slabs.
RealLayers ==
    \A l \in Layers :
        /\ DOMAIN l.weights = Fields /\ \A f \in Fields : l.weights[f] \in Nat
        /\ l.scoring \in {"softmax", "sigmoid"}
        /\ l.map.to \in Seq(Int)
        /\ \/ \A g, h \in Owned(l.map.to) : l.map.to[g] = l.map.to[h] => g = h
           \/ Owned(l.map.to) = DOMAIN l.map.to

HostIInv ==
    /\ build \in Builds \cup {NoBuild} /\ layer \in Layers
    /\ enabled => Enables(build, layer)
    /\ plan.usable => Exports(build, "tp_has_devseq")
    /\ ~ loaded => call = NoCall
    /\ Ran => enabled
    /\ CallRight

\* A nonempty sequence of integers has a largest entry.
LEMMA LargestEntry ==
  ASSUME NEW f \in Seq(Int), Len(f) > 0
  PROVE  \E x \in DOMAIN f : \A y \in DOMAIN f : f[y] <= f[x]
<1> DEFINE n == Len(f)
           best(k) == \E x \in 1..k : \A y \in 1..k : f[y] <= f[x]
           T == {k \in Nat : k = 0 \/ k > n \/ best(k)}
<1>1. n \in Nat /\ n > 0 /\ DOMAIN f = 1..n /\ \A x \in 1..n : f[x] \in Int
  OBVIOUS
<1> HIDE DEF n
<1>2. ASSUME NEW k \in T PROVE k + 1 \in T
  <2>1. k \in Nat /\ (k = 0 \/ k > n \/ best(k))
    OBVIOUS
  <2>2. CASE k > n
    BY <1>1, <2>1, <2>2, SMT
  <2>3. CASE k = 0
    <3>1. 1 \in 1..1 /\ \A y \in 1..1 : f[y] <= f[1]
      BY <1>1, SMT
    <3>2. best(1)
      BY <3>1
    <3> QED BY <2>3, <3>2, SMT
  <2>4. CASE k + 1 \in 1..n /\ k \in 1..n /\ best(k)
    <3>1. PICK x \in 1..k : \A y \in 1..k : f[y] <= f[x]
      BY <2>4
    <3>2. x \in 1..(k + 1) /\ k + 1 \in 1..(k + 1) /\ f[x] \in Int /\ f[k + 1] \in Int
          /\ \A y \in 1..(k + 1) : f[y] \in Int /\ (y = k + 1 \/ y \in 1..k)
      BY <1>1, <2>1, <2>4, SMT
    <3>3. CASE f[k + 1] <= f[x]
      <4>1. \A y \in 1..(k + 1) : f[y] <= f[x]
        BY <3>1, <3>2, <3>3
      <4> QED BY <2>1, <3>2, <4>1
    <3>4. CASE ~ (f[k + 1] <= f[x])
      <4>1. \A y \in 1..(k + 1) : f[y] <= f[k + 1]
        BY <3>1, <3>2, <3>4, SMT
      <4> QED BY <2>1, <3>2, <4>1
    <3> QED BY <3>3, <3>4
  <2>5. CASE k + 1 > n
    BY <2>1, <2>5
  <2> HIDE DEF T, best
  <2> QED BY <1>1, <2>1, <2>2, <2>3, <2>4, <2>5, SMT
<1>3. T = Nat
  <2>1. T \subseteq Nat /\ 0 \in T
    OBVIOUS
  <2> HIDE DEF T
  <2> QED BY <1>2, <2>1, SetInduction
<1>4. n \in T
  BY <1>1, <1>3
<1>5. best(n)
  BY <1>1, <1>4, SMT
<1> QED BY <1>1, <1>5

\* Every slab of a rank that the gate lets through holds exactly one expert.
LEMMA SlabsOwned ==
  ASSUME RealLayers, NEW l \in Layers, EpNeeded(l), MapGood(l),
         NEW slab \in 0..(Local(l) - 1)
  PROVE  Cardinality({g \in DOMAIN l.map.to : l.map.to[g] = slab}) = 1
<1> DEFINE to == l.map.to
           k == Local(l)
           own == Owned(to)
<1>1. /\ to \in Seq(Int) /\ k \in Nat /\ l.weights.num_experts \in Nat
      /\ \/ \A g, h \in own : to[g] = to[h] => g = h
         \/ own = DOMAIN to
      /\ k # l.weights.num_experts
      /\ Len(to) = l.weights.num_experts /\ Cardinality(own) = k
      /\ Max({to[g] : g \in DOMAIN to}) = k - 1
      /\ own \subseteq DOMAIN to /\ \A g \in own : to[g] >= 0
      /\ \A g \in DOMAIN to : to[g] >= 0 => g \in own
      /\ slab \in 0..(k - 1)
  BY DEF RealLayers, EpNeeded, MapGood, Owned, Local, Fields
<1> HIDE DEF to, k, own
<1>2. /\ Len(to) \in Nat /\ DOMAIN to = 1..Len(to) /\ IsFiniteSet(DOMAIN to)
      /\ Cardinality(DOMAIN to) = Len(to)
      /\ \A g \in DOMAIN to : to[g] \in Int
  <2>1. Len(to) \in Nat /\ DOMAIN to = 1..Len(to) /\ \A g \in DOMAIN to : to[g] \in Int
    BY <1>1
  <2>2. IsFiniteSet(1..Len(to)) /\ Cardinality(1..Len(to)) = Len(to)
    <3>1. 1 \in Int /\ Len(to) \in Int /\ (1 > Len(to) <=> Len(to) = 0)
          /\ Len(to) - 1 + 1 = Len(to)
      BY <2>1, SMT
    <3> QED BY <3>1, FS_Interval
  <2> QED BY <2>1, <2>2
<1>3. IsFiniteSet(own) /\ Cardinality(own) <= Len(to)
  BY <1>1, <1>2, FS_Subset
<1>4. Len(to) > 0
  BY <1>1, <1>2, <1>3, SMT
<1>5. \A g \in DOMAIN to : to[g] <= k - 1
  <2> DEFINE S == {to[g] : g \in DOMAIN to}
  <2>1. PICK x \in DOMAIN to : \A y \in DOMAIN to : to[y] <= to[x]
    BY <1>1, <1>4, LargestEntry
  <2>2. \E v \in S : \A w \in S : v >= w
    <3>1. to[x] \in S /\ \A w \in S : to[x] >= w
      BY <1>2, <2>1, SMT
    <3> QED BY <3>1
  <2>3. \A w \in S : Max(S) >= w
    <3> HIDE DEF S
    <3> QED BY <2>2 DEF Max
  <2>4. \A g \in DOMAIN to : k - 1 >= to[g]
    BY <1>1, <2>3
  <2> QED BY <1>1, <1>2, <2>4, SMT
<1>6. \A g, h \in own : to[g] = to[h] => g = h
  BY <1>1, <1>2
<1> DEFINE f == [g \in own |-> to[g]]
<1>7. f \in Injection(own, 0..(k - 1))
  <2>1. \A g \in own : to[g] \in 0..(k - 1)
    BY <1>1, <1>2, <1>5, SMT
  <2> QED BY <1>6, <2>1 DEF Injection, IsInjective
<1>8. f \in Surjection(own, 0..(k - 1))
  <2>1. IsFiniteSet(0..(k - 1)) /\ Cardinality(0..(k - 1)) = k
    BY <1>1, FS_Interval, SMT
  <2> HIDE DEF f
  <2> QED BY <1>1, <1>7, <2>1, FS_Injection
<1>9. PICK g \in own : to[g] = slab
  BY <1>1, <1>8 DEF Surjection
<1>10. {h \in DOMAIN to : to[h] = slab} = {g}
  <2>1. slab >= 0
    BY <1>1, SMT
  <2> QED BY <1>1, <1>6, <1>9, <2>1
<1>11. Cardinality({h \in DOMAIN to : to[h] = slab}) = 1
  BY <1>10, FS_Singleton
<1> QED BY <1>11 DEF to

\* What the gate enables was compiled for the layer.
LEMMA EnabledFits ==
  ASSUME RealBuilds, RealLayers, NEW b \in Builds \cup {NoBuild}, NEW l \in Layers,
         Enables(b, l)
  PROVE  /\ \A f \in DOMAIN l.weights : b.const[f] = l.weights[f]
         /\ b.const.router_mode = 0 <=> l.scoring = "softmax"
         /\ EpNeeded(l) =>
                \A slab \in 0..(Local(l) - 1) :
                    Cardinality({g \in DOMAIN l.map.to : l.map.to[g] = slab}) = 1
<1>1. /\ b \in Builds /\ GeometryGood(b, l) /\ EpGood(b, l) /\ RouterGood(b, l)
  BY DEF Enables, Named
<1>2. /\ \A f \in Fields \ {"num_experts_local"} : f \in b.exports
      /\ "router_mode" \in b.exports
      /\ \A f \in Fields : b.const[f] \in Nat
      /\ b.const.router_mode \in {0, 1, 2}
      /\ "num_experts_local" \notin b.exports =>
                b.const.num_experts_local = b.const.num_experts
  BY <1>1 DEF RealBuilds
<1>3. \A n \in Nat : n # None
  BY SMT DEF None
<1>4. /\ \A f \in Fields \ {"num_experts_local"} : Geo(b, f) = b.const[f]
      /\ Geo(b, "router_mode") = b.const.router_mode
  BY <1>2 DEF Geo, Exports
<1>5. ASSUME NEW f \in Fields \ {"num_experts_local"} PROVE b.const[f] = l.weights[f]
  <2>1. f \in {"num_experts", "top_k", "k_dim", "n_up", "n_half", "h_dim"}
    BY DEF Fields
  <2>2. ~ Unequal(b.const[f], l.weights[f])
    BY <1>1, <1>4, <2>1 DEF GeometryGood
  <2> QED BY <1>2, <1>3, <2>2 DEF Unequal
<1>6. b.const.num_experts_local = l.weights.num_experts_local
  <2>1. LocalGeo(b) = b.const.num_experts_local
    <3>1. b.const.num_experts_local \in Nat /\ "num_experts" \in Fields \ {"num_experts_local"}
      BY <1>2 DEF Fields
    <3>2. CASE "num_experts_local" \in b.exports
      BY <1>3, <3>1, <3>2 DEF LocalGeo, Geo, Exports
    <3>3. CASE "num_experts_local" \notin b.exports
      BY <1>2, <1>4, <3>1, <3>3 DEF LocalGeo, Geo, Exports
    <3> QED BY <3>2, <3>3
  <2>2. ~ Unequal(b.const.num_experts_local, l.weights.num_experts_local)
    BY <1>1, <2>1 DEF GeometryGood, Local
  <2>3. b.const.num_experts_local \in Nat
    BY <1>2 DEF Fields
  <2> QED BY <1>3, <2>2, <2>3 DEF Unequal
<1>7. b.const.router_mode = 0 <=> l.scoring = "softmax"
  <2>1. CASE b.const.router_mode = 0
    BY <1>1, <1>4, <2>1 DEF RouterGood
  <2>2. CASE b.const.router_mode \in {1, 2}
    <3>1. b.const.router_mode # 0
      BY <2>2, SMT
    <3>2. l.scoring = "sigmoid"
      BY <1>1, <1>4, <2>2, <3>1 DEF RouterGood
    <3> QED BY <3>1, <3>2
  <2> QED BY <1>2, <2>1, <2>2
<1>8. EpNeeded(l) => MapGood(l)
  BY <1>1 DEF EpGood
<1>9. DOMAIN l.weights = Fields
  BY DEF RealLayers
<1> QED BY <1>5, <1>6, <1>7, <1>8, <1>9, SlabsOwned

-----------------------------------------------------------------------------
(* The call.                                                                 *)

\* Two argument lists of one argument each, one after the other.
LEMMA ConcatTwo ==
  ASSUME NEW a, NEW b PROVE << a >> \o << b >> = << a, b >>
<1> DEFINE S == {a, b}
           s == << a >>
           t == << b >>
           u == << a, b >>
<1>1. s \in Seq(S) /\ t \in Seq(S) /\ Len(s) = 1 /\ Len(t) = 1 /\ s[1] = a /\ t[1] = b
  OBVIOUS
<1>2. u \in Seq(S) /\ Len(u) = 2 /\ u[1] = a /\ u[2] = b
  OBVIOUS
<1> HIDE DEF S, s, t, u
<1>3. /\ s \o t \in Seq(S)
      /\ Len(s \o t) = Len(s) + Len(t)
      /\ \A i \in 1 .. Len(s) + Len(t) : (s \o t)[i] =
                     IF i <= Len(s) THEN s[i] ELSE t[i - Len(s)]
  BY <1>1, ConcatProperties
<1>4. Len(s \o t) = 2 /\ (s \o t)[1] = s[1] /\ (s \o t)[2] = t[1]
  BY <1>1, <1>3
<1>5. \A i \in 1 .. Len(s \o t) : (s \o t)[i] = u[i]
  <2>1. ASSUME NEW i \in 1 .. Len(s \o t) PROVE i = 1 \/ i = 2
    BY <1>4
  <2> QED BY <1>1, <1>2, <1>4, <2>1
<1>6. s \o t = u
  BY <1>2, <1>3, <1>4, <1>5, SeqEqual
<1> QED BY <1>6 DEF s, t, u

\* An argument list of two arguments and a last one.
LEMMA ConcatThree ==
  ASSUME NEW a, NEW b, NEW c PROVE << a, b >> \o << c >> = << a, b, c >>
<1> DEFINE S == {a, b, c}
           s == << a, b >>
           t == << c >>
           u == << a, b, c >>
<1>1. /\ s \in Seq(S) /\ t \in Seq(S) /\ Len(s) = 2 /\ Len(t) = 1
      /\ s[1] = a /\ s[2] = b /\ t[1] = c
  OBVIOUS
<1>2. u \in Seq(S) /\ Len(u) = 3 /\ u[1] = a /\ u[2] = b /\ u[3] = c
  OBVIOUS
<1> HIDE DEF S, s, t, u
<1>3. /\ s \o t \in Seq(S)
      /\ Len(s \o t) = Len(s) + Len(t)
      /\ \A i \in 1 .. Len(s) + Len(t) : (s \o t)[i] =
                     IF i <= Len(s) THEN s[i] ELSE t[i - Len(s)]
  BY <1>1, ConcatProperties
<1>4. Len(s \o t) = 3 /\ (s \o t)[1] = s[1] /\ (s \o t)[2] = s[2] /\ (s \o t)[3] = t[1]
  BY <1>1, <1>3
<1>5. \A i \in 1 .. Len(s \o t) : (s \o t)[i] = u[i]
  <2>1. ASSUME NEW i \in 1 .. Len(s \o t) PROVE i = 1 \/ i = 2 \/ i = 3
    BY <1>4
  <2> QED BY <1>1, <1>2, <1>4, <2>1
<1>6. s \o t = u
  BY <1>2, <1>3, <1>4, <1>5, SeqEqual
<1> QED BY <1>6 DEF s, t, u

\* The lists of arguments, spelt out.
LEMMA ArgumentLists ==
  /\ (<< "bias" >> \o Tp2Args) \o << "stream" >> =
        (<< "bias" >> \o TpArgs) \o << "residual", "scale", "stream" >>
  /\ (<< "bias" >> \o << "map" >>) \o << "stream" >> = << "bias", "map", "stream" >>
  /\ (<< "bias" >> \o << >>) \o << "stream" >> = << "bias", "stream" >>
  /\ (<< >> \o << >>) \o << "stream" >> = << "stream" >>
<1>1. << "bias" >> \o << "map" >> = << "bias", "map" >>
  BY ConcatTwo
<1>2. << "bias", "map" >> \o << "stream" >> = << "bias", "map", "stream" >>
  BY ConcatThree
<1>3. << "bias" >> \o << >> = << "bias" >>
  BY SMT
<1>4. << "bias" >> \o << "stream" >> = << "bias", "stream" >>
  BY ConcatTwo
<1>5. << >> \o << >> = << >>
  BY SMT
<1>6. << >> \o << "stream" >> = << "stream" >>
  BY SMT
<1>7. (<< "bias" >> \o Tp2Args) \o << "stream" >> =
        (<< "bias" >> \o TpArgs) \o << "residual", "scale", "stream" >>
  BY SMT DEF TpArgs, Tp2Args
<1> QED BY <1>1, <1>2, <1>3, <1>4, <1>5, <1>6, <1>7

\* What a call of the implementation leaves, for either op.
LEMMA ImplRight ==
  ASSUME NEW c, c.tp \in BOOLEAN, c.emap \in BOOLEAN,
         c.tp => ~ c.emap /\ Exports(build, "tp_has_devseq"),
         ~ c.tp => ~ Fold(c), NEW n,
         call' = Impl(build, layer, c, n), UNCHANGED << build, layer >>
  PROVE  CallRight'
<1>1. CASE call' = NotLaunched("triton", n) \/ call' = NotLaunched("raised", n)
  <2>1. call'.entry = "none" /\ call'.path # "kernel"
    BY <1>1 DEF NotLaunched, NoCall
  <2> QED BY <2>1 DEF CallRight, Ran
<1>2. CASE call' = Launched(build, layer, c, n)
  <2>1. /\ call'.entry = Entry(layer, c) /\ call'.args = Args(layer, c)
        /\ call'.divided = KernelDivides(build) + HostDivides(build, layer)
        /\ call'.path = CASE Rc(build, n) = 0 /\ ~ Spoilt(build, layer) -> "kernel"
                          [] c.tp -> "raised"
                          [] OTHER -> "triton"
    BY <1>2 DEF Launched
  <2>2. Args(layer, c) = Parameters(build, Entry(layer, c))
    <3>1. CASE c.tp /\ Fold(c)
      <4>1. Entry(layer, c) = "q1_tp2"
        BY <3>1 DEF Entry
      <4>2. Args(layer, c) = (<< "bias" >> \o Tp2Args) \o << "stream" >>
        BY <3>1 DEF Args, BiasArg
      <4>3. Parameters(build, "q1_tp2") =
                (<< "bias" >> \o TpArgs) \o << "residual", "scale", "stream" >>
        BY DEF Parameters
      <4> QED BY <4>1, <4>2, <4>3, ArgumentLists
    <3>2. CASE c.tp /\ ~ Fold(c)
      <4>1. Entry(layer, c) = "q1_tp"
        BY <3>2 DEF Entry
      <4>2. Args(layer, c) = (<< "bias" >> \o TpArgs) \o << "stream" >>
        BY <3>2 DEF Args, BiasArg
      <4>3. Parameters(build, "q1_tp") = (<< "bias" >> \o TpArgs) \o << "stream" >>
        BY <3>2 DEF Parameters
      <4> QED BY <4>1, <4>2, <4>3
    <3>3. CASE ~ c.tp /\ c.emap
      <4>1. Entry(layer, c) = "q1_ep"
        BY <3>3 DEF Entry
      <4>2. Args(layer, c) = (<< "bias" >> \o << "map" >>) \o << "stream" >>
        BY <3>3 DEF Args, BiasArg
      <4>3. Parameters(build, "q1_ep") = << "bias", "map", "stream" >>
        BY DEF Parameters
      <4> QED BY <4>1, <4>2, <4>3, ArgumentLists
    <3>4. CASE ~ c.tp /\ ~ c.emap /\ layer.bias
      <4>1. Entry(layer, c) = "q1_router"
        BY <3>4 DEF Entry
      <4>2. Args(layer, c) = (<< "bias" >> \o << >>) \o << "stream" >>
        BY <3>4 DEF Args, BiasArg
      <4>3. Parameters(build, "q1_router") = << "bias", "stream" >>
        BY DEF Parameters
      <4> QED BY <4>1, <4>2, <4>3, ArgumentLists
    <3>5. CASE ~ c.tp /\ ~ c.emap /\ ~ layer.bias
      <4>1. Entry(layer, c) = "q1"
        BY <3>5 DEF Entry
      <4>2. Args(layer, c) = (<< >> \o << >>) \o << "stream" >>
        BY <3>5 DEF Args, BiasArg
      <4>3. Parameters(build, "q1") = << "stream" >>
        BY DEF Parameters
      <4> QED BY <4>1, <4>2, <4>3, ArgumentLists
    <3> QED BY <3>1, <3>2, <3>3, <3>4, <3>5
  <2>3. ASSUME call'.path = "kernel" PROVE call'.divided = IF layer.renormalize THEN 1 ELSE 0
    <3>1. ~ Spoilt(build, layer)
      BY <2>1, <2>3
    <3>2. CASE Exports(build, "fused_renorm")
      <4>1. /\ FusedRenorm(build) = TRUE /\ layer.renormalize
            /\ KernelDivides(build) = 1 /\ HostDivides(build, layer) = 0
        BY <3>1, <3>2 DEF Spoilt, FusedRenorm, KernelDivides, HostDivides
      <4> QED BY <2>1, <4>1, SMT
    <3>3. CASE ~ Exports(build, "fused_renorm")
      <4>1. /\ KernelDivides(build) = 0
            /\ HostDivides(build, layer) = IF layer.renormalize THEN 1 ELSE 0
        BY <3>3 DEF FusedRenorm, KernelDivides, HostDivides
      <4>2. CASE layer.renormalize
        BY <2>1, <4>1, <4>2, SMT
      <4>3. CASE ~ layer.renormalize
        BY <2>1, <4>1, <4>3, SMT
      <4> QED BY <4>2, <4>3
    <3> QED BY <3>2, <3>3
  <2> QED BY <2>1, <2>2, <2>3 DEF CallRight, Parameters, Exports
<1> QED BY <1>1, <1>2 DEF Impl

LEMMA GateLoads == ASSUME HostIInv, Load PROVE HostIInv'
<1>1. UNCHANGED << build, layer, call >> /\ call = NoCall /\ loaded' = TRUE
  BY DEF Load, HostIInv
<1>2. enabled' => Enables(build, layer)
  BY DEF Load
<1>3. plan'.usable => Exports(build, "tp_has_devseq")
  BY DEF Load, NoPlan, Caps
<1>4. ~ Ran' /\ CallRight'
  BY <1>1 DEF Ran, CallRight, NoCall
<1> QED BY <1>1, <1>2, <1>3, <1>4 DEF HostIInv

LEMMA GateCalls ==
  ASSUME HostIInv, NEW n \in Counts, NEW residual \in BOOLEAN, NEW scaled \in BOOLEAN,
         Call(n, residual, scaled)
  PROVE  HostIInv'
<1>1. UNCHANGED << build, layer, loaded, enabled, plan >> /\ loaded
  BY DEF Call
<1>2. CASE ~ enabled \/ n > MaxTokens
  <2>1. call' = NotLaunched("triton", n)
    BY <1>2 DEF Call
  <2>2. ~ Ran' /\ CallRight'
    BY <2>1 DEF NotLaunched, NoCall, Ran, CallRight
  <2> QED BY <1>1, <2>2 DEF HostIInv
<1>3. CASE ~ (~ enabled \/ n > MaxTokens)
  <2>1. CASE TakesFused(n, residual)
    <3> DEFINE c == [tp |-> TRUE, emap |-> FALSE, resid |-> plan.fold,
                     scaled |-> plan.fold /\ scaled]
    <3>1. call' = Impl(build, layer, c, n)
      BY <1>3, <2>1 DEF Call, OutOp
    <3>2. Exports(build, "tp_has_devseq")
      BY <2>1 DEF TakesFused, HostIInv
    <3>3. c.tp = TRUE /\ c.emap = FALSE
      OBVIOUS
    <3> HIDE DEF c
    <3>4. /\ c.tp \in BOOLEAN /\ c.emap \in BOOLEAN /\ UNCHANGED << build, layer >>
          /\ c.tp => ~ c.emap /\ Exports(build, "tp_has_devseq")
          /\ ~ c.tp => ~ Fold(c)
      BY <1>1, <3>2, <3>3
    <3>5. CallRight'
      BY <3>1, <3>4, ImplRight
    <3> QED BY <1>1, <1>3, <3>5 DEF HostIInv
  <2>2. CASE ~ TakesFused(n, residual)
    <3> DEFINE c == [tp |-> FALSE, emap |-> EpNeeded(layer), resid |-> FALSE,
                     scaled |-> FALSE]
    <3>1. call' = Impl(build, layer, c, n)
      BY <1>3, <2>2 DEF Call, PrefillOp
    <3>2. c.tp = FALSE /\ c.emap \in BOOLEAN /\ ~ Fold(c)
      BY DEF EpNeeded, Fold
    <3> HIDE DEF c
    <3>4. /\ c.tp \in BOOLEAN /\ c.emap \in BOOLEAN /\ UNCHANGED << build, layer >>
          /\ c.tp => ~ c.emap /\ Exports(build, "tp_has_devseq")
          /\ ~ c.tp => ~ Fold(c)
      BY <1>1, <3>2
    <3>5. CallRight'
      BY <3>1, <3>4, ImplRight
    <3> QED BY <1>1, <1>3, <3>5 DEF HostIInv
  <2> QED BY <2>1, <2>2
<1> QED BY <1>2, <1>3

LEMMA GateInvariant == HostSpec => []HostIInv
<1>1. HostInit => HostIInv
  BY DEF HostInit, HostIInv, NoPlan, NoCall, Ran, CallRight
<1>2. HostIInv /\ [HostNext]_hostVars => HostIInv'
  <2> SUFFICES ASSUME HostIInv, [HostNext]_hostVars PROVE HostIInv'
    OBVIOUS
  <2>1. CASE UNCHANGED hostVars
    BY <2>1 DEF hostVars, HostIInv, Ran, CallRight
  <2> QED BY <2>1, GateLoads, GateCalls DEF HostNext
<1> QED BY <1>1, <1>2, PTL DEF HostSpec

\* A kernel that runs was compiled for the geometry and the router of its layer, and
\* finds every expert of the rank in a slab of its own, for any libraries that report
\* what they were compiled for and any layers with an expert map, or a mask in its place.
THEOREM GateFits == RealBuilds /\ RealLayers => (HostSpec => []WeightsFit)
<1> SUFFICES ASSUME RealBuilds, RealLayers PROVE HostSpec => []WeightsFit
  OBVIOUS
<1>1. HostIInv => WeightsFit
  BY EnabledFits DEF HostIInv, WeightsFit
<1> QED BY <1>1, GateInvariant, PTL

\* Whichever of the five entry points is called, every argument is where the library
\* reads it, and an output that is used was divided once, or not at all where the layer
\* asks for no division, whatever the libraries export.
THEOREM CallsRight == HostSpec => []CallRight
<1>1. HostIInv => CallRight
  BY DEF HostIInv
<1> QED BY <1>1, GateInvariant, PTL

-----------------------------------------------------------------------------
(* SymmPool: the program.  A place of a stream is a turn of a forward.       *)

LEMMA ProgramSize ==
  /\ NumUbatches \in Nat \ {0} /\ NumForwards \in Nat \ {0}
  /\ StepsEach \in Nat \ {0} /\ ForwardLen \in Nat \ {0}
  /\ ProgramLen \in Nat /\ ForwardLen < ProgramLen
<1>1. NumUbatches \in Nat \ {0} /\ NumLayers \in Nat \ {0} /\ NumForwards \in Nat \ {0}
  BY PoolAssumption
<1>2. StepsEach \in Nat \ {0}
  <2>1. StepsEach = NumLayers * 3
    BY DEF StepsEach, Kinds
  <2> QED BY <1>1, <2>1, SMT
<1>3. ForwardLen \in Nat \ {0}
  BY <1>1, <1>2, SMT DEF ForwardLen
<1> DEFINE F == ForwardLen
           all == NumForwards * F
<1>4. ProgramLen = 1 + all
  BY DEF ProgramLen
<1>5. all \in Nat /\ F <= all
  <2> HIDE DEF F
  <2>1. F \in Nat /\ NumForwards \in Nat \ {0}
    BY <1>1, <1>3 DEF F
  <2>2. 1 * F <= NumForwards * F
    BY <2>1, ProductMonotone, SMT
  <2> QED BY <2>1, <2>2, SMT
<1> HIDE DEF all
<1>6. ProgramLen \in Nat /\ ForwardLen < ProgramLen
  BY <1>3, <1>4, <1>5, SMT
<1> QED BY <1>1, <1>2, <1>3, <1>6

\* Where a place is: a turn of a forward.
LEMMA PlaceOf ==
  ASSUME NEW p \in 2..ProgramLen
  PROVE  \E f \in Nat : \E i \in 1..ForwardLen : p = 2 + ForwardLen * f + (i - 1)
<1> DEFINE F == ForwardLen
<1>1. F \in Nat \ {0} /\ ProgramLen \in Nat
  BY ProgramSize
<1> HIDE DEF F
<1>2. p - 2 \in Nat
  BY <1>1, SMT
<1>3. PICK f \in Nat, k \in 0..(F - 1) : p - 2 = F * f + k
  BY <1>1, <1>2, DivMod
<1> DEFINE b == F * f
<1>4. b \in Nat
  BY <1>1, <1>3, SMT
<1>5. p = 2 + b + ((k + 1) - 1) /\ k + 1 \in 1..F
  <2> HIDE DEF b
  <2>1. p - 2 = b + k
    BY <1>3 DEF b
  <2> QED BY <1>1, <1>3, <1>4, <2>1, SMT
<1> QED BY <1>3, <1>5 DEF F

LEMMA StepAt ==
  ASSUME NEW f \in Nat, NEW i \in 1..ForwardLen, NEW p, p = 2 + ForwardLen * f + (i - 1)
  PROVE  Step(p) = StepOf(order[i], TurnsOf(order, order[i], i), f + 1)
<1> DEFINE F == ForwardLen
           b == F * f
<1>1. F \in Nat \ {0}
  BY ProgramSize
<1>2. b \in Nat
  BY <1>1, SMT
<1>3. p \in Nat /\ p # 1 /\ p - 2 = b + (i - 1) /\ i - 1 \in 0..(F - 1)
  <2> HIDE DEF b
  <2>1. p = 2 + b + (i - 1) /\ i \in 1..F
    BY DEF b
  <2> HIDE DEF F
  <2> QED BY <1>1, <1>2, <2>1, SMT
<1>4. (F * f + (i - 1)) \div F = f /\ (F * f + (i - 1)) % F = i - 1
  <2> HIDE DEF F
  <2> QED BY <1>1, <1>3, DivUnique
<1>5. (p - 2) \div ForwardLen = f /\ (p - 2) % ForwardLen = i - 1
  BY <1>3, <1>4
<1>6. ((p - 2) % ForwardLen) + 1 = i
  BY <1>5, SMT
<1> QED BY <1>3, <1>5, <1>6 DEF Step

LEMMA TurnsCount ==
  ASSUME order \in Turns, NEW i \in 1..ForwardLen, NEW u
  PROVE  /\ IsFiniteSet({j \in 1..i : order[j] = u})
         /\ TurnsOf(order, u, i) \in Nat
         /\ order[i] = u => TurnsOf(order, u, i) # 0
<1> DEFINE S == {j \in 1..i : order[j] = u}
<1>1. ForwardLen \in Nat \ {0}
  BY ProgramSize
<1>2. IsFiniteSet(1..i)
  BY <1>1, FS_Interval, SMT
<1>3. IsFiniteSet(S)
  BY <1>2, FS_Subset
<1>4. Cardinality(S) \in Nat
  BY <1>3, FS_CardinalityType
<1>5. order[i] = u => S # {}
  BY <1>1, SMT
<1> HIDE DEF S
<1>6. order[i] = u => Cardinality(S) # 0
  BY <1>3, <1>5, FS_EmptySet
<1> QED BY <1>3, <1>4, <1>6 DEF S, TurnsOf

\* Before a turn that is not its first, a microbatch had another, and none in between.
LEMMA TurnBefore ==
  ASSUME order \in Turns, NEW i \in 1..ForwardLen, TurnsOf(order, order[i], i) > 1
  PROVE  \E j \in 1..(i - 1) :
            /\ order[j] = order[i]
            /\ TurnsOf(order, order[i], j) = TurnsOf(order, order[i], i) - 1
            /\ \A x \in (j + 1)..(i - 1) : order[x] # order[i]
<1> DEFINE u == order[i]
           S == {j \in 1..i : order[j] = u}
           T == {j \in 1..(i - 1) : order[j] = u}
           D == {d \in Nat : i - d \in T}
<1>1. ForwardLen \in Nat \ {0} /\ i \in Nat
  BY ProgramSize
<1>2. IsFiniteSet(S) /\ Cardinality(S) = TurnsOf(order, u, i)
  BY TurnsCount DEF TurnsOf
<1>3. T = S \ {i} /\ i \in S
  BY <1>1, SMT
<1>4. IsFiniteSet(T) /\ Cardinality(T) = TurnsOf(order, u, i) - 1
  <2> HIDE DEF S, T
  <2> QED BY <1>2, <1>3, FS_RemoveElement
<1>5. T # {}
  <2>1. TurnsOf(order, u, i) \in Nat /\ TurnsOf(order, u, i) > 1
    BY TurnsCount
  <2>2. Cardinality(T) # 0
    <3> HIDE DEF T, u
    <3> QED BY <1>4, <2>1, SMT
  <2> HIDE DEF T
  <2> QED BY <1>4, <2>2, FS_EmptySet
<1>6. D # {}
  <2>1. PICK j \in T : TRUE
    BY <1>5
  <2>2. i - j \in Nat /\ i - (i - j) = j
    BY <1>1, SMT
  <2> QED BY <2>1, <2>2
<1>7. PICK d \in D : \A x \in D : d <= x
  <2> HIDE DEF D
  <2>1. D \subseteq Nat
    BY DEF D
  <2> QED BY <1>6, <2>1, Least
<1> DEFINE j == i - d
<1>8. j \in 1..(i - 1) /\ order[j] = u
  BY <1>7
<1>9. ASSUME NEW x \in (j + 1)..(i - 1) PROVE order[x] # u
  <2>1. x \in 1..(i - 1) /\ i - x \in Nat /\ i - x < d /\ i - (i - x) = x
    BY <1>1, <1>7, <1>8, SMT
  <2>2. i - x \notin D
    <3> HIDE DEF D
    <3>1. D \subseteq Nat
      BY DEF D
    <3> QED BY <1>7, <2>1, <3>1, SMT
  <2> QED BY <2>1, <2>2
<1>10. {y \in 1..j : order[y] = u} = T
  <2>1. ASSUME NEW y \in T PROVE y \in 1..j /\ order[y] = u
    <3>1. y \in 1..(i - 1) /\ order[y] = u
      OBVIOUS
    <3>2. y \notin (j + 1)..(i - 1)
      BY <1>9, <3>1
    <3> HIDE DEF T, u
    <3> QED BY <1>1, <1>8, <3>1, <3>2, SMT
  <2>2. ASSUME NEW y \in 1..j, order[y] = u PROVE y \in T
    <3>1. y \in 1..(i - 1)
      BY <1>1, <1>8, SMT
    <3> QED BY <2>2, <3>1
  <2> HIDE DEF T
  <2> QED BY <2>1, <2>2
<1>11. TurnsOf(order, u, j) = TurnsOf(order, u, i) - 1
  BY <1>4, <1>10 DEF TurnsOf
<1> QED BY <1>8, <1>9, <1>11

\* Where the kinds of a microbatch's steps are.
LEMMA KindOf ==
  ASSUME NEW u, NEW k \in Nat \ {0}, NEW f
  PROVE  /\ StepOf(u, k, f).kind = "use" =>
                k > 1 /\ StepOf(u, k - 1, f) = [StepOf(u, k, f) EXCEPT !.kind = "launch"]
         /\ StepOf(u, k, f).ubatch = u
<1>1. PICK a \in Nat, b \in 0..2 :
        k - 1 = 3 * a + b /\ (k - 1) \div 3 = a /\ (k - 1) % 3 = b
  <2>1. k - 1 \in Nat
    BY SMT
  <2> QED BY <2>1, DivMod
<1>2. Len(Kinds) = 3 /\ Kinds[1] = "reduce" /\ Kinds[2] = "launch" /\ Kinds[3] = "use"
  BY DEF Kinds
<1>3. StepOf(u, k, f) = [kind |-> Kinds[b + 1], ubatch |-> u, layer |-> a, forward |-> f]
  BY <1>1, <1>2 DEF StepOf
<1>5. ASSUME StepOf(u, k, f).kind = "use"
      PROVE  k > 1 /\ StepOf(u, k - 1, f) = [StepOf(u, k, f) EXCEPT !.kind = "launch"]
  <2>1. Kinds[b + 1] = "use"
    BY <1>3, <1>5
  <2>2. b = 2
    <3>1. b = 0 \/ b = 1 \/ b = 2
      BY SMT
    <3> QED BY <1>2, <2>1, <3>1, SMT
  <2>3. k > 1 /\ (k - 1) - 1 = 3 * a + 1
    BY <1>1, <2>2, SMT
  <2>4. (3 * a + 1) \div 3 = a /\ (3 * a + 1) % 3 = 1
    <3>1. 1 \in 0..(3 - 1) /\ 3 \in Nat \ {0}
      BY SMT
    <3> QED BY <3>1, DivUnique
  <2>5. StepOf(u, k - 1, f) = [kind |-> Kinds[2], ubatch |-> u, layer |-> a, forward |-> f]
    BY <1>2, <2>3, <2>4 DEF StepOf
  <2>6. StepOf(u, k, f) = [kind |-> Kinds[3], ubatch |-> u, layer |-> a, forward |-> f]
    BY <1>3, <2>2
  <2> QED BY <1>2, <2>3, <2>5, <2>6
<1> QED BY <1>3, <1>5

\* A residual add comes after its launch, and the microbatch has no step between them.
LEMMA LaunchBeforeUse ==
  ASSUME order \in Turns, NEW p \in 1..ProgramLen, Step(p).kind = "use"
  PROVE  \E l \in 1..(p - 1) :
            /\ Step(l) = [Step(p) EXCEPT !.kind = "launch"]
            /\ \A x \in (l + 1)..(p - 1) : Step(x).ubatch # Step(p).ubatch
<1>1. ForwardLen \in Nat \ {0} /\ ProgramLen \in Nat
  BY ProgramSize
<1>2. p \in 2..ProgramLen
  <2>1. p # 1
    BY DEF Step
  <2> QED BY <1>1, <2>1, SMT
<1>3. PICK f \in Nat, i \in 1..ForwardLen : p = 2 + ForwardLen * f + (i - 1)
  BY <1>2, PlaceOf
<1> DEFINE u == order[i]
           k == TurnsOf(order, u, i)
           b == ForwardLen * f
<1>4. k \in Nat \ {0}
  BY TurnsCount
<1>5. Step(p) = StepOf(u, k, f + 1)
  BY <1>3, StepAt
<1>6. k > 1 /\ StepOf(u, k - 1, f + 1) = [StepOf(u, k, f + 1) EXCEPT !.kind = "launch"]
      /\ StepOf(u, k, f + 1).ubatch = u
  <2> HIDE DEF k, u
  <2> QED BY <1>4, <1>5, KindOf
<1>7. PICK j \in 1..(i - 1) : /\ order[j] = u /\ TurnsOf(order, u, j) = k - 1
                              /\ \A x \in (j + 1)..(i - 1) : order[x] # u
  BY <1>6, TurnBefore
<1> DEFINE l == 2 + ForwardLen * f + (j - 1)
<1>8. b \in Nat /\ p = 2 + b + (i - 1) /\ l = 2 + b + (j - 1)
  BY <1>1, <1>3, SMT
<1>9. l \in 1..(p - 1) /\ j \in 1..ForwardLen
  <2> HIDE DEF b, l
  <2> QED BY <1>1, <1>8, SMT
<1>10. Step(l) = StepOf(u, k - 1, f + 1)
  <2>1. Step(l) = StepOf(order[j], TurnsOf(order, order[j], j), f + 1)
    BY <1>9, StepAt
  <2> QED BY <1>7, <2>1
<1>11. ASSUME NEW x \in (l + 1)..(p - 1) PROVE Step(x).ubatch # u
  <2> DEFINE y == x - 1 - b
  <2>1. y \in (j + 1)..(i - 1) /\ y \in 1..ForwardLen /\ x = 2 + b + (y - 1)
    <3> HIDE DEF b, l
    <3> QED BY <1>1, <1>8, SMT
  <2> HIDE DEF y
  <2>2. Step(x) = StepOf(order[y], TurnsOf(order, order[y], y), f + 1)
    BY <2>1, StepAt
  <2>3. Step(x).ubatch = order[y]
    BY <2>2 DEF StepOf
  <2> QED BY <1>7, <2>1, <2>3
<1> QED BY <1>5, <1>6, <1>9, <1>10, <1>11

\* Every stream begins with the zeroing and an all-reduce.
LEMMA ProgramStart ==
  ASSUME order \in Turns
  PROVE  Step(1).kind = "zero" /\ Step(2).kind = "reduce"
<1>1. ForwardLen \in Nat \ {0}
  BY ProgramSize
<1>2. 1 \in 1..ForwardLen /\ 2 = 2 + ForwardLen * 0 + (1 - 1) /\ 0 \in Nat
  BY <1>1, SMT
<1>3. Step(2) = StepOf(order[1], TurnsOf(order, order[1], 1), 0 + 1)
  BY <1>2, StepAt
<1>4. TurnsOf(order, order[1], 1) = 1
  <2>1. {j \in 1..1 : order[j] = order[1]} = {1}
    BY SMT
  <2> QED BY <2>1, FS_Singleton DEF TurnsOf
<1>5. Step(2).kind = "reduce"
  <2>1. ((1 - 1) % 3) + 1 = 1 /\ Len(Kinds) = 3 /\ Kinds[1] = "reduce"
    BY SMT DEF Kinds
  <2>2. Step(2).kind = Kinds[((1 - 1) % Len(Kinds)) + 1]
    BY <1>3, <1>4 DEF StepOf
  <2> QED BY <2>1, <2>2
<1> QED BY <1>5 DEF Step

-----------------------------------------------------------------------------
(* SymmPool: the invariant.  A launch is told by its place in the program.   *)

Launches == {p \in 1..ProgramLen : Step(p).kind = "launch"}
LaunchesBefore(p) == Cardinality({l \in Launches : l < p})
\* A rank that has announced its terms for launch p, and one that has stored its shard.
Announced(r, p) == pc[r] > p \/ (pc[r] = p /\ stage[r] # "idle")
Stored(r, p) == pc[r] > p \/ (pc[r] = p /\ stage[r] = "done")

PoolTags == {Nothing} \cup {Tag(Step(p)) : p \in 1..ProgramLen}

PoolTypes ==
    /\ order \in Turns
    /\ pc \in [Ranks -> 1..(ProgramLen + 1)]
    /\ stage \in [Ranks -> {"idle", "sum", "done"}]
    /\ \A r \in Ranks : stage[r] # "idle" => pc[r] \in Launches
    /\ seqctr \in [Ranks -> Nat]
    /\ pads \in [Ranks -> [Ranks -> Nat \X Nat]]
    /\ out \in [Ranks -> [Ubatches -> [terms : PoolTags, shards : [Ranks -> PoolTags]]]]

\* Nobody has a launch behind it before all have zeroed their pads; the counter is the
\* number of launches behind the rank.
Rendezvous ==
    /\ \A q, r \in Ranks : pc[q] > 2 => pc[r] > 1
    /\ \A r \in Ranks : seqctr[r] = LaunchesBefore(pc[r])

\* What stands on the pads of a rank, once they are zeroed.
AnnouncedSeq(q) == LaunchesBefore(pc[q]) + (IF stage[q] # "idle" THEN 1 ELSE 0)
StoredSeq(q) == LaunchesBefore(pc[q]) + (IF stage[q] = "done" THEN 1 ELSE 0)
PadsTell ==
    \A q, r \in Ranks :
        pc[r] > 1 => pads[r][q][1] = AnnouncedSeq(q) /\ pads[r][q][2] = StoredSeq(q)

\* A launch is behind a rank when all have stored their shards, and nobody has stored
\* one before all have announced their terms.
LaunchesMeet ==
    \A p \in Launches : \A q, r \in Ranks :
        /\ pc[r] > p => Stored(q, p)
        /\ Stored(r, p) => Announced(q, p)

\* The last launch that a microbatch has begun on the rank.
Latest(r, p) ==
    /\ Announced(r, p)
    /\ \A l \in Launches : Announced(r, l) /\ Slot(Step(l)) = Slot(Step(p)) => l <= p

\* Its slot holds that one's terms, and the shards of all that have stored them.
SlotHolds ==
    \A p \in Launches : \A r \in Ranks : Latest(r, p) =>
        /\ out[r][Slot(Step(p))].terms = Tag(Step(p))
        /\ \A q \in Ranks : Stored(q, p) => out[r][Slot(Step(p))].shards[q] = Tag(Step(p))

PoolIInv == PoolTypes /\ Rendezvous /\ PadsTell /\ LaunchesMeet /\ SlotHolds

-----------------------------------------------------------------------------
(* SymmPool: counting launches.                                              *)

LEMMA LaunchesCount ==
  ASSUME order \in Turns
  PROVE  /\ IsFiniteSet(Launches) /\ Launches \subseteq 3..ProgramLen
         /\ \A p \in 1..(ProgramLen + 1) : LaunchesBefore(p) \in Nat
         /\ LaunchesBefore(1) = 0 /\ LaunchesBefore(2) = 0
         /\ \A p \in 1..ProgramLen :
                LaunchesBefore(p + 1) = LaunchesBefore(p) + (IF p \in Launches THEN 1 ELSE 0)
         /\ \A p, l \in 1..(ProgramLen + 1) : p <= l => LaunchesBefore(p) <= LaunchesBefore(l)
<1>1. ProgramLen \in Nat
  BY ProgramSize
<1>2. Launches \subseteq 1..ProgramLen /\ 1 \notin Launches /\ 2 \notin Launches
  BY ProgramStart DEF Launches
<1>3. Launches \subseteq 3..ProgramLen
  BY <1>1, <1>2, SMT
<1>4. IsFiniteSet(Launches)
  <2>1. IsFiniteSet(1..ProgramLen)
    BY <1>1, FS_Interval, SMT
  <2> QED BY <1>2, <2>1, FS_Subset
<1> DEFINE S(p) == {l \in Launches : l < p}
<1>a. \A l \in Launches : l \in Nat /\ 3 <= l
  BY <1>1, <1>3, SMT
<1>5. \A p : IsFiniteSet(S(p)) /\ Cardinality(S(p)) \in Nat /\ LaunchesBefore(p) = Cardinality(S(p))
  BY <1>4, FS_Subset, FS_CardinalityType DEF LaunchesBefore
<1>6. S(1) = {} /\ S(2) = {}
  <2>1. \A l \in Launches : ~ (l < 1) /\ ~ (l < 2)
    BY <1>a, SMT
  <2> QED BY <2>1
<1>7. LaunchesBefore(1) = 0 /\ LaunchesBefore(2) = 0
  BY <1>5, <1>6, FS_EmptySet
<1>8. ASSUME NEW p \in 1..ProgramLen
      PROVE  LaunchesBefore(p + 1) = LaunchesBefore(p) + (IF p \in Launches THEN 1 ELSE 0)
  <2>1. CASE p \in Launches
    <3>1. \A l \in Launches : l < p + 1 <=> (l < p \/ l = p)
      BY <1>1, <1>a, SMT
    <3>2. ~ (p < p)
      BY <1>1, SMT
    <3>3. S(p + 1) = S(p) \cup {p} /\ p \notin S(p)
      BY <2>1, <3>1, <3>2, Zenon
    <3> HIDE DEF S
    <3>4. Cardinality(S(p + 1)) = Cardinality(S(p)) + 1
      BY <1>5, <3>3, FS_AddElement
    <3> QED BY <1>5, <2>1, <3>4
  <2>2. CASE p \notin Launches
    <3>a. \A l \in Launches : l < p + 1 <=> l < p
      BY <1>1, <1>a, <2>2, SMT
    <3>1. S(p + 1) = S(p)
      BY <3>a, Zenon
    <3> HIDE DEF S
    <3>2. LaunchesBefore(p + 1) = LaunchesBefore(p) /\ LaunchesBefore(p) \in Nat
      BY <1>5, <3>1
    <3> QED BY <2>2, <3>2, SMT
  <2> QED BY <2>1, <2>2
<1>9. ASSUME NEW p \in 1..(ProgramLen + 1), NEW l \in 1..(ProgramLen + 1), p <= l
      PROVE  LaunchesBefore(p) <= LaunchesBefore(l)
  <2>a. \A x \in Launches : x < p => x < l
    BY <1>1, <1>a, <1>9, SMT
  <2>1. S(p) \in SUBSET S(l)
    BY <2>a, Zenon
  <2> HIDE DEF S
  <2> QED BY <1>5, <2>1, FS_Subset
<1> QED BY <1>3, <1>4, <1>5, <1>7, <1>8, <1>9

\* A number on a pad that is not below a launch's own was put there for that launch, or
\* for a later one.
LEMMA NumberTells ==
  ASSUME order \in Turns, NEW l \in Launches, NEW p \in 1..(ProgramLen + 1), NEW b \in {0, 1},
         b = 1 => p \in Launches, LaunchesBefore(p) + b >= LaunchesBefore(l) + 1
  PROVE  p > l \/ (p = l /\ b = 1)
<1> DEFINE B(x) == LaunchesBefore(x)
<1>1. ProgramLen \in Nat /\ l \in 1..ProgramLen
  BY ProgramSize DEF Launches
<1>2. l \in 1..(ProgramLen + 1) /\ B(p) \in Nat /\ B(l) \in Nat
  BY <1>1, LaunchesCount, SMT
<1>3. ASSUME p < l PROVE FALSE
  <2>1. p \in 1..ProgramLen /\ p + 1 \in 1..(ProgramLen + 1) /\ p + 1 <= l
    BY <1>1, <1>3, SMT
  <2>2. B(p + 1) = B(p) + (IF p \in Launches THEN 1 ELSE 0)
    BY <2>1, LaunchesCount
  <2>3. B(p) + b <= B(p + 1)
    <3> HIDE DEF B
    <3> QED BY <1>2, <2>2, SMT
  <2>4. B(p + 1) <= B(l) /\ B(p + 1) \in Nat
    BY <1>2, <2>1, LaunchesCount
  <2>5. B(p) + b >= B(l) + 1
    OBVIOUS
  <2> HIDE DEF B
  <2> QED BY <1>2, <2>3, <2>4, <2>5, SMT
<1>4. ASSUME p = l PROVE b = 1
  <2>1. B(p) + b >= B(l) + 1
    OBVIOUS
  <2> HIDE DEF B
  <2> QED BY <1>2, <1>4, <2>1, SMT
<1> QED BY <1>1, <1>2, <1>3, <1>4, SMT

LEMMA StepTypes ==
  ASSUME order \in Turns, NEW p \in 1..ProgramLen
  PROVE  /\ Slot(Step(p)) \in Ubatches /\ Tag(Step(p)) \in PoolTags
         /\ Step(p).kind = "zero" => p = 1
<1>1. ProgramLen \in Nat /\ NumUbatches \in Nat \ {0}
  BY ProgramSize
<1>2. CASE p = 1
  <2>1. Step(p).ubatch = 0
    BY <1>2 DEF Step
  <2>2. 0 \in Ubatches
    BY <1>1, SMT DEF Ubatches
  <2> QED BY <1>2, <2>1, <2>2 DEF Slot, PoolTags
<1>3. CASE p # 1
  <2>1. p \in 2..ProgramLen
    BY <1>1, <1>3, SMT
  <2>2. PICK f \in Nat, i \in 1..ForwardLen : p = 2 + ForwardLen * f + (i - 1)
    BY <2>1, PlaceOf
  <2> DEFINE u == order[i]
             k == TurnsOf(order, u, i)
  <2>3. Step(p) = StepOf(u, k, f + 1)
    BY <2>2, StepAt
  <2>4. u \in Ubatches
    BY DEF Turns
  <2>5. k \in Nat \ {0}
    BY TurnsCount
  <2>6. Step(p).ubatch = u
    BY <2>3 DEF StepOf
  <2>7. Step(p).kind # "zero"
    <3> HIDE DEF k
    <3>1. ((k - 1) % 3) \in 0..2
      BY <2>5, SMT
    <3>2. Len(Kinds) = 3 /\ Kinds[1] = "reduce" /\ Kinds[2] = "launch" /\ Kinds[3] = "use"
      BY DEF Kinds
    <3>3. Step(p).kind = Kinds[((k - 1) % 3) + 1]
      BY <2>3, <3>2 DEF StepOf
    <3>4. ((k - 1) % 3) + 1 = 1 \/ ((k - 1) % 3) + 1 = 2 \/ ((k - 1) % 3) + 1 = 3
      BY <3>1, SMT
    <3> QED BY <3>2, <3>3, <3>4
  <2> QED BY <1>3, <2>4, <2>6, <2>7 DEF Slot, PoolTags
<1> QED BY <1>2, <1>3

LEMMA ProgramFixed ==
  ASSUME order' = order
  PROVE  /\ Launches' = Launches /\ PoolTags' = PoolTags
         /\ \A p : Step(p)' = Step(p) /\ LaunchesBefore(p)' = LaunchesBefore(p)
<1>1. \A p : Step(p)' = Step(p)
  BY DEF Step, StepOf, TurnsOf
<1>2. Launches' = Launches
  BY <1>1 DEF Launches
<1>3. PoolTags' = PoolTags
  BY <1>1 DEF PoolTags, Tag
<1> QED BY <1>1, <1>2, <1>3 DEF LaunchesBefore

-----------------------------------------------------------------------------
(* SymmPool: the steps.                                                      *)

LEMMA PoolStart == PoolInit => PoolIInv
<1> SUFFICES ASSUME PoolInit PROVE PoolIInv
  OBVIOUS
<1> USE DEF PoolInit
<1>1. ProgramLen \in Nat /\ ForwardLen < ProgramLen /\ ForwardLen \in Nat \ {0} /\ Garbage \in Nat
  BY ProgramSize, PoolAssumption
<1>2. order \in Turns
  OBVIOUS
<1>3. PoolTypes
  <2>1. pc \in [Ranks -> 1..(ProgramLen + 1)] /\ seqctr \in [Ranks -> Nat]
    BY <1>1, SMT
  <2>2. pads \in [Ranks -> [Ranks -> Nat \X Nat]]
    BY <1>1
  <2>3. out \in [Ranks -> [Ubatches -> [terms : PoolTags, shards : [Ranks -> PoolTags]]]]
    BY DEF NoShards, PoolTags
  <2> QED BY <2>1, <2>2, <2>3 DEF PoolTypes
<1>4. Rendezvous
  <2>1. \A q \in Ranks : ~ (pc[q] > 2)
    BY SMT
  <2> QED BY <1>2, <2>1, LaunchesCount DEF Rendezvous
<1>5. PadsTell
  <2>1. \A q \in Ranks : ~ (pc[q] > 1)
    BY SMT
  <2> QED BY <2>1 DEF PadsTell
<1>6. \A p \in Launches : \A r \in Ranks : ~ Announced(r, p) /\ ~ Stored(r, p) /\ ~ (pc[r] > p)
  <2>1. Launches \subseteq 3..ProgramLen
    BY <1>2, LaunchesCount
  <2>2. \A p \in Launches : ~ (1 > p)
    BY <1>1, <2>1, SMT
  <2>3. \A p \in Launches : \A r \in Ranks : ~ (pc[r] > p) /\ stage[r] = "idle"
    BY <2>2
  <2> QED BY <2>3 DEF Announced, Stored
<1>7. LaunchesMeet /\ SlotHolds
  BY <1>6 DEF LaunchesMeet, SlotHolds, Latest
<1> QED BY <1>3, <1>4, <1>5, <1>7 DEF PoolIInv

\* A step that begins and ends no launch keeps what is said of the launches.
LEMMA LaunchesKept ==
  ASSUME PoolIInv, order' = order, out' = out,
         \A p \in Launches : \A q \in Ranks :
            /\ Announced(q, p)' <=> Announced(q, p)
            /\ Stored(q, p)' <=> Stored(q, p),
         \A p \in Launches : \A q, r \in Ranks : pc'[r] > p => Stored(q, p)
  PROVE  LaunchesMeet' /\ SlotHolds'
<1>1. Launches' = Launches /\ \A p : Step(p)' = Step(p)
  BY ProgramFixed
<1>2. LaunchesMeet'
  <2>1. \A p \in Launches : \A q, r \in Ranks : Stored(r, p)' => Announced(q, p)'
    BY DEF PoolIInv, LaunchesMeet
  <2>2. \A p \in Launches : \A q, r \in Ranks : pc'[r] > p => Stored(q, p)'
    OBVIOUS
  <2> QED BY <1>1, <2>1, <2>2 DEF LaunchesMeet
<1>3. \A p \in Launches : \A r \in Ranks : Latest(r, p)' => Latest(r, p)
  BY <1>1 DEF Latest, Slot
<1>4. ASSUME NEW p \in Launches, NEW r \in Ranks, Latest(r, p)'
      PROVE  /\ out'[r][Slot(Step(p))].terms = Tag(Step(p))
             /\ \A q \in Ranks : Stored(q, p)' =>
                    out'[r][Slot(Step(p))].shards[q] = Tag(Step(p))
  BY <1>3, <1>4 DEF PoolIInv, SlotHolds
<1> QED BY <1>1, <1>2, <1>4 DEF SlotHolds, Slot, Tag

\* A step of the program that is not a launch.
LEMMA Passes ==
  ASSUME PoolIInv, NEW r \in Ranks, Advance(r), pc[r] <= ProgramLen, pc[r] \notin Launches,
         UNCHANGED << order, stage, seqctr, out >>
  PROVE  /\ pc' \in [Ranks -> 1..(ProgramLen + 1)]
         /\ \A q \in Ranks : stage'[q] # "idle" => pc'[q] \in Launches
         /\ \A q \in Ranks : pc'[q] = IF q = r THEN pc[r] + 1 ELSE pc[q]
         /\ \A q \in Ranks : LaunchesBefore(pc'[q]) = LaunchesBefore(pc[q])
         /\ LaunchesMeet' /\ SlotHolds'
<1>1. PoolTypes /\ ProgramLen \in Nat
  BY ProgramSize DEF PoolIInv
<1>2. stage[r] = "idle" /\ pc[r] \in 1..ProgramLen
  <2>1. pc[r] \in 1..(ProgramLen + 1) /\ stage[r] = "idle"
    BY <1>1 DEF PoolTypes
  <2> QED BY <1>1, <2>1, SMT
<1>3. \A q \in Ranks : pc'[q] = IF q = r THEN pc[r] + 1 ELSE pc[q]
  BY <1>1 DEF PoolTypes, Advance
<1>4. pc' \in [Ranks -> 1..(ProgramLen + 1)]
  <2>1. pc[r] + 1 \in 1..(ProgramLen + 1)
    BY <1>1, <1>2, SMT
  <2> QED BY <1>1, <2>1 DEF PoolTypes, Advance
<1>5. \A q \in Ranks : stage'[q] # "idle" => pc'[q] \in Launches
  BY <1>1, <1>2, <1>3 DEF PoolTypes
<1>6. \A q \in Ranks : LaunchesBefore(pc'[q]) = LaunchesBefore(pc[q])
  <2>1. LaunchesBefore(pc[r] + 1) = LaunchesBefore(pc[r]) + 0 /\ LaunchesBefore(pc[r]) \in Nat
    BY <1>1, <1>2, LaunchesCount DEF PoolTypes
  <2>2. LaunchesBefore(pc[r] + 1) = LaunchesBefore(pc[r])
    BY <2>1, SMT
  <2> QED BY <1>3, <2>2
<1>7. \A p \in Launches : \A q \in Ranks :
        /\ pc'[q] > p <=> pc[q] > p
        /\ pc'[q] = p => stage[q] = "idle" \/ q # r
        /\ pc[q] = p => q # r
        /\ q # r => pc'[q] = pc[q]
  <2>1. ASSUME NEW p \in Launches PROVE pc[r] # p /\ (pc[r] + 1 > p <=> pc[r] > p)
    <3>1. p \in Nat /\ pc[r] \in Nat /\ p # pc[r]
      BY <1>1, <1>2, SMT DEF Launches
    <3> QED BY <3>1, SMT
  <2> QED BY <1>2, <1>3, <2>1
<1>8. \A p \in Launches : \A q \in Ranks :
        /\ Announced(q, p)' <=> Announced(q, p)
        /\ Stored(q, p)' <=> Stored(q, p)
  BY <1>2, <1>7 DEF Announced, Stored
<1>9. \A p \in Launches : \A x, q \in Ranks : pc'[q] > p => Stored(x, p)
  BY <1>7 DEF PoolIInv, LaunchesMeet
<1>10. LaunchesMeet' /\ SlotHolds'
  BY <1>8, <1>9, LaunchesKept
<1> QED BY <1>3, <1>4, <1>5, <1>6, <1>10

LEMMA PoolZero ==
  ASSUME PoolIInv, NEW r \in Ranks, Zero(r)
  PROVE  PoolIInv'
<1>1. PoolTypes /\ ProgramLen \in Nat /\ order \in Turns
  BY ProgramSize DEF PoolIInv, PoolTypes
<1>2. pc[r] \in 1..ProgramLen /\ Step(pc[r]).kind = "zero"
  <2>1. pc[r] \in 1..(ProgramLen + 1) /\ pc[r] <= ProgramLen /\ Step(pc[r]).kind = "zero"
    BY <1>1 DEF PoolTypes, Zero, At
  <2> QED BY <1>1, <2>1, SMT
<1>3. pc[r] = 1 /\ pc[r] \notin Launches
  BY <1>1, <1>2, StepTypes DEF Launches
<1>4. /\ pc' \in [Ranks -> 1..(ProgramLen + 1)]
      /\ \A q \in Ranks : stage'[q] # "idle" => pc'[q] \in Launches
      /\ \A q \in Ranks : pc'[q] = IF q = r THEN pc[r] + 1 ELSE pc[q]
      /\ \A q \in Ranks : LaunchesBefore(pc'[q]) = LaunchesBefore(pc[q])
      /\ LaunchesMeet' /\ SlotHolds'
  <2>1. Advance(r) /\ pc[r] <= ProgramLen /\ UNCHANGED << order, stage, seqctr, out >>
    BY DEF Zero, At
  <2> QED BY <1>3, <2>1, Passes
<1>5. Launches' = Launches /\ PoolTags' = PoolTags /\ \A p : LaunchesBefore(p)' = LaunchesBefore(p)
  BY ProgramFixed DEF Zero
<1>6. /\ stage' = stage /\ seqctr' = seqctr /\ out' = out /\ order' = order
      /\ pads' = [pads EXCEPT ![r] = NoArrivals]
  BY DEF Zero
<1>7. PoolTypes'
  <2>1. NoArrivals \in [Ranks -> Nat \X Nat]
    BY DEF NoArrivals
  <2>2. pads' \in [Ranks -> [Ranks -> Nat \X Nat]]
    BY <1>1, <1>6, <2>1 DEF PoolTypes
  <2> QED BY <1>1, <1>4, <1>5, <1>6, <2>2 DEF PoolTypes
<1>8. \A q \in Ranks : pc[q] = 1 \/ pc[q] = 2
  <2>1. \A q \in Ranks : ~ (pc[q] > 2)
    BY <1>3, SMT DEF PoolIInv, Rendezvous
  <2>2. \A q \in Ranks : pc[q] \in 1..(ProgramLen + 1)
    BY <1>1 DEF PoolTypes
  <2> QED BY <1>1, <2>1, <2>2, SMT
<1>9. Rendezvous'
  <2>1. \A q \in Ranks : ~ (pc'[q] > 2)
    BY <1>3, <1>4, <1>8, SMT
  <2>2. \A q \in Ranks : seqctr'[q] = LaunchesBefore(pc'[q])
    BY <1>4, <1>6 DEF PoolIInv, Rendezvous
  <2> QED BY <1>5, <2>1, <2>2 DEF Rendezvous
<1>10. PadsTell'
  <2>1. \A q \in Ranks : stage[q] = "idle" /\ LaunchesBefore(pc[q]) = 0
    BY <1>1, <1>8, LaunchesCount, ProgramStart DEF PoolTypes, Launches
  <2>2. \A q \in Ranks : AnnouncedSeq(q) = 0 /\ StoredSeq(q) = 0
    BY <2>1 DEF AnnouncedSeq, StoredSeq
  <2>3. \A q \in Ranks : AnnouncedSeq(q)' = AnnouncedSeq(q) /\ StoredSeq(q)' = StoredSeq(q)
    BY <1>4, <1>5, <1>6 DEF AnnouncedSeq, StoredSeq
  <2>4. \A q \in Ranks : pads'[r][q] = << 0, 0 >>
    BY <1>1, <1>6 DEF NoArrivals, PoolTypes
  <2>5. \A x \in Ranks : x # r => pads'[x] = pads[x] /\ pc'[x] = pc[x]
    BY <1>1, <1>4, <1>6 DEF PoolTypes
  <2>6. \A q \in Ranks : pads'[r][q][1] = AnnouncedSeq(q)' /\ pads'[r][q][2] = StoredSeq(q)'
    BY <2>2, <2>3, <2>4
  <2>7. ASSUME NEW q \in Ranks, NEW x \in Ranks, pc'[x] > 1
        PROVE  pads'[x][q][1] = AnnouncedSeq(q)' /\ pads'[x][q][2] = StoredSeq(q)'
    <3>1. CASE x = r
      BY <2>6, <3>1
    <3>2. CASE x # r
      BY <2>3, <2>5, <2>7, <3>2 DEF PoolIInv, PadsTell
    <3> QED BY <3>1, <3>2
  <2> QED BY <2>7 DEF PadsTell
<1> QED BY <1>4, <1>7, <1>9, <1>10 DEF PoolIInv

\* The steps that touch nothing: the all-reduce and the residual add.
LEMMA PoolPass ==
  ASSUME PoolIInv, NEW r \in Ranks, Reduce(r) \/ Use(r)
  PROVE  PoolIInv'
<1>1. PoolTypes /\ ProgramLen \in Nat /\ order \in Turns
  BY ProgramSize DEF PoolIInv, PoolTypes
<1>2. /\ pc[r] \in 1..ProgramLen /\ Step(pc[r]).kind \in {"reduce", "use"}
      /\ Step(pc[r]).kind = "reduce" => \A q \in Ranks : pc[q] >= pc[r]
  <2>1. /\ pc[r] \in 1..(ProgramLen + 1) /\ pc[r] <= ProgramLen
        /\ Step(pc[r]).kind \in {"reduce", "use"}
        /\ Step(pc[r]).kind = "reduce" => \A q \in Ranks : pc[q] >= pc[r]
    BY <1>1 DEF PoolTypes, Reduce, Use, At
  <2> QED BY <1>1, <2>1, SMT
<1>3. pc[r] # 1 /\ pc[r] \notin Launches /\ (pc[r] = 2 => Step(pc[r]).kind = "reduce")
  BY <1>1, <1>2, ProgramStart DEF Launches
<1>4. /\ pc' \in [Ranks -> 1..(ProgramLen + 1)]
      /\ \A q \in Ranks : stage'[q] # "idle" => pc'[q] \in Launches
      /\ \A q \in Ranks : pc'[q] = IF q = r THEN pc[r] + 1 ELSE pc[q]
      /\ \A q \in Ranks : LaunchesBefore(pc'[q]) = LaunchesBefore(pc[q])
      /\ LaunchesMeet' /\ SlotHolds'
  <2>1. Advance(r) /\ pc[r] <= ProgramLen /\ UNCHANGED << order, stage, seqctr, out >>
    BY DEF Reduce, Use, At
  <2> QED BY <1>3, <2>1, Passes
<1>5. /\ stage' = stage /\ seqctr' = seqctr /\ out' = out /\ order' = order /\ pads' = pads
  BY DEF Reduce, Use
<1>6. Launches' = Launches /\ PoolTags' = PoolTags /\ \A p : LaunchesBefore(p)' = LaunchesBefore(p)
  BY <1>5, ProgramFixed
<1>7. PoolTypes'
  BY <1>1, <1>4, <1>5, <1>6 DEF PoolTypes
<1>8. \A q \in Ranks : pc[q] \in Nat /\ pc'[q] >= pc[q]
  <2>1. \A q \in Ranks : pc[q] \in 1..(ProgramLen + 1)
    BY <1>1 DEF PoolTypes
  <2> QED BY <1>1, <1>4, <2>1, SMT
<1>9. ASSUME NEW q \in Ranks, pc'[r] > 2 PROVE pc[q] > 1
  <2>1. CASE pc[r] = 2
    BY <1>2, <1>3, <1>8, <2>1, SMT
  <2>2. CASE pc[r] # 2
    <3>1. pc[r] > 2
      BY <1>3, <1>2, <1>1, <2>2, SMT
    <3> QED BY <3>1 DEF PoolIInv, Rendezvous
  <2> QED BY <2>1, <2>2
<1>10. Rendezvous'
  <2>1. ASSUME NEW q \in Ranks, NEW x \in Ranks, pc'[q] > 2 PROVE pc'[x] > 1
    <3>1. pc[x] > 1
      <4>1. CASE q = r
        BY <1>9, <2>1, <4>1
      <4>2. CASE q # r
        BY <1>4, <2>1, <4>2 DEF PoolIInv, Rendezvous
      <4> QED BY <4>1, <4>2
    <3>2. pc'[x] \in Nat
      BY <1>1, <1>4, SMT
    <3> QED BY <1>8, <3>1, <3>2, SMT
  <2>2. \A q \in Ranks : seqctr'[q] = LaunchesBefore(pc'[q])
    BY <1>4, <1>5 DEF PoolIInv, Rendezvous
  <2> QED BY <1>6, <2>1, <2>2 DEF Rendezvous
<1>11. PadsTell'
  <2>1. \A q \in Ranks : AnnouncedSeq(q)' = AnnouncedSeq(q) /\ StoredSeq(q)' = StoredSeq(q)
    BY <1>4, <1>5, <1>6 DEF AnnouncedSeq, StoredSeq
  <2>2. \A x \in Ranks : pc'[x] > 1 => pc[x] > 1
    <3>1. pc[r] > 1
      BY <1>1, <1>2, <1>3, SMT
    <3> QED BY <1>4, <3>1
  <2> QED BY <1>5, <2>1, <2>2 DEF PoolIInv, PadsTell
<1> QED BY <1>4, <1>7, <1>10, <1>11 DEF PoolIInv

\* What a rank in a launch knows: everybody has zeroed its pads; its own sequence.
LEMMA InLaunch ==
  ASSUME PoolIInv, NEW r \in Ranks, pc[r] \in Launches
  PROVE  /\ pc[r] \in 1..ProgramLen /\ \A q \in Ranks : pc[q] > 1
         /\ LaunchSeq(r, Step(pc[r])) = LaunchesBefore(pc[r]) + 1
         /\ LaunchesBefore(pc[r]) \in Nat
         /\ Slot(Step(pc[r])) \in Ubatches /\ Tag(Step(pc[r])) \in PoolTags
<1>1. order \in Turns /\ ProgramLen \in Nat
  BY ProgramSize DEF PoolIInv, PoolTypes
<1>2. pc[r] \in 3..ProgramLen
  BY <1>1, LaunchesCount
<1>3. pc[r] > 2 /\ pc[r] \in 1..ProgramLen /\ pc[r] \in 1..(ProgramLen + 1)
  BY <1>1, <1>2, SMT
<1>4. \A q \in Ranks : pc[q] > 1
  BY <1>3 DEF PoolIInv, Rendezvous
<1>5. LaunchSeq(r, Step(pc[r])) = LaunchesBefore(pc[r]) + 1
  BY DEF PoolIInv, Rendezvous, LaunchSeq
<1> QED BY <1>1, <1>3, <1>4, <1>5, StepTypes, LaunchesCount

\* A rank that is let through its first pad knows that all have announced their terms,
\* and through its second that all have stored their shards.
LEMMA LetThrough ==
  ASSUME PoolIInv, NEW r \in Ranks, pc[r] \in Launches
  PROVE  /\ Met(r, 1) => \A q \in Ranks : Announced(q, pc[r])
         /\ Met(r, 2) => \A q \in Ranks : Stored(q, pc[r])
<1>1. PoolTypes /\ order \in Turns
  BY DEF PoolIInv, PoolTypes
<1>2. /\ pc[r] > 1 /\ LaunchSeq(r, Step(pc[r])) = LaunchesBefore(pc[r]) + 1
  BY InLaunch
<1>3. \A q \in Ranks : pads[r][q][1] = AnnouncedSeq(q) /\ pads[r][q][2] = StoredSeq(q)
  BY <1>2 DEF PoolIInv, PadsTell
<1>4. ASSUME Met(r, 1), NEW q \in Ranks PROVE Announced(q, pc[r])
  <2> DEFINE b == IF stage[q] # "idle" THEN 1 ELSE 0
  <2>1. LaunchesBefore(pc[q]) + b >= LaunchesBefore(pc[r]) + 1
    BY <1>2, <1>3, <1>4 DEF Met, AnnouncedSeq
  <2>2. pc[q] \in 1..(ProgramLen + 1) /\ b \in {0, 1} /\ (b = 1 => pc[q] \in Launches)
        /\ (b = 1 => stage[q] # "idle")
    BY <1>1 DEF PoolTypes
  <2> HIDE DEF b
  <2>3. pc[q] > pc[r] \/ (pc[q] = pc[r] /\ b = 1)
    BY <1>1, <2>1, <2>2, NumberTells
  <2> QED BY <2>2, <2>3 DEF Announced
<1>5. ASSUME Met(r, 2), NEW q \in Ranks PROVE Stored(q, pc[r])
  <2> DEFINE b == IF stage[q] = "done" THEN 1 ELSE 0
  <2>1. LaunchesBefore(pc[q]) + b >= LaunchesBefore(pc[r]) + 1
    BY <1>2, <1>3, <1>5 DEF Met, StoredSeq
  <2>2. pc[q] \in 1..(ProgramLen + 1) /\ b \in {0, 1} /\ (b = 1 => pc[q] \in Launches)
        /\ (b = 1 => stage[q] = "done")
    BY <1>1 DEF PoolTypes
  <2> HIDE DEF b
  <2>3. pc[q] > pc[r] \/ (pc[q] = pc[r] /\ b = 1)
    BY <1>1, <2>1, <2>2, NumberTells
  <2> QED BY <2>2, <2>3 DEF Stored
<1> QED BY <1>4, <1>5

LEMMA PoolBegin ==
  ASSUME PoolIInv, NEW r \in Ranks, Start(r)
  PROVE  PoolIInv'
<1> DEFINE p0 == pc[r]
           s0 == Slot(Step(p0))
           t0 == Tag(Step(p0))
<1>1. PoolTypes /\ ProgramLen \in Nat /\ order \in Turns
  BY ProgramSize DEF PoolIInv, PoolTypes
<1>2. p0 \in Launches /\ stage[r] = "idle"
  <2>1. p0 \in 1..(ProgramLen + 1) /\ p0 <= ProgramLen /\ Step(p0).kind = "launch"
        /\ stage[r] = "idle"
    BY <1>1 DEF PoolTypes, Start, At
  <2>2. p0 \in 1..ProgramLen
    BY <1>1, <2>1, SMT
  <2> QED BY <2>1, <2>2 DEF Launches
<1>3. /\ p0 \in 1..ProgramLen /\ \A q \in Ranks : pc[q] > 1
      /\ LaunchSeq(r, Step(p0)) = LaunchesBefore(p0) + 1 /\ LaunchesBefore(p0) \in Nat
      /\ s0 \in Ubatches /\ t0 \in PoolTags
  BY <1>2, InLaunch
<1>4. /\ order' = order /\ pc' = pc /\ seqctr' = seqctr
      /\ stage' = [stage EXCEPT ![r] = "sum"]
      /\ out' = [out EXCEPT ![r][s0] = [terms |-> t0, shards |-> NoShards]]
      /\ pads' = [q \in Ranks |-> [pads[q] EXCEPT ![r][1] = LaunchesBefore(p0) + 1]]
  <2>1. [pads EXCEPT ![r] = Cleared(r)] = pads
    BY <1>1 DEF PoolTypes, Cleared
  <2> QED BY <1>3, <2>1 DEF Start
<1>5. Launches' = Launches /\ PoolTags' = PoolTags
      /\ \A p : Step(p)' = Step(p) /\ LaunchesBefore(p)' = LaunchesBefore(p)
  BY <1>4, ProgramFixed
<1>6. \A q \in Ranks : stage'[q] = IF q = r THEN "sum" ELSE stage[q]
  BY <1>1, <1>4 DEF PoolTypes
<1>7. PoolTypes'
  <2>1. stage' \in [Ranks -> {"idle", "sum", "done"}]
        /\ \A q \in Ranks : stage'[q] # "idle" => pc'[q] \in Launches
    BY <1>1, <1>2, <1>4, <1>6 DEF PoolTypes
  <2>2. pads' \in [Ranks -> [Ranks -> Nat \X Nat]]
    <3>1. LaunchesBefore(p0) + 1 \in Nat
      BY <1>3, SMT
    <3>2. ASSUME NEW q \in Ranks
          PROVE  [pads[q] EXCEPT ![r][1] = LaunchesBefore(p0) + 1] \in [Ranks -> Nat \X Nat]
      <4>1. pads[q] \in [Ranks -> Nat \X Nat] /\ pads[q][r] \in Nat \X Nat
        BY <1>1 DEF PoolTypes
      <4> QED BY <3>1, <4>1
    <3> QED BY <1>4, <3>2
  <2>3. out' \in [Ranks -> [Ubatches -> [terms : PoolTags, shards : [Ranks -> PoolTags]]]]
    <3>1. [terms |-> t0, shards |-> NoShards] \in [terms : PoolTags, shards : [Ranks -> PoolTags]]
      BY <1>3 DEF NoShards, PoolTags
    <3> HIDE DEF s0, t0, p0
    <3> QED BY <1>1, <1>3, <1>4, <3>1 DEF PoolTypes
  <2> QED BY <1>1, <1>4, <1>5, <2>1, <2>2, <2>3 DEF PoolTypes
<1>8. Rendezvous'
  BY <1>4, <1>5 DEF PoolIInv, Rendezvous
<1>9. PadsTell'
  <2>1. \A q \in Ranks : q # r => AnnouncedSeq(q)' = AnnouncedSeq(q) /\ StoredSeq(q)' = StoredSeq(q)
    BY <1>4, <1>5, <1>6 DEF AnnouncedSeq, StoredSeq
  <2>2. AnnouncedSeq(r)' = LaunchesBefore(p0) + 1 /\ StoredSeq(r)' = StoredSeq(r)
    BY <1>2, <1>4, <1>5, <1>6 DEF AnnouncedSeq, StoredSeq
  <2>3. ASSUME NEW x \in Ranks, NEW q \in Ranks
        PROVE  pads'[x][q][1] = AnnouncedSeq(q)' /\ pads'[x][q][2] = StoredSeq(q)'
    <3>1. pads[x][q][1] = AnnouncedSeq(q) /\ pads[x][q][2] = StoredSeq(q)
      BY <1>3 DEF PoolIInv, PadsTell
    <3>2. pads[x] \in [Ranks -> Nat \X Nat] /\ {pads[x][q], pads[x][r]} \subseteq Nat \X Nat
      BY <1>1 DEF PoolTypes
    <3>3. pads'[x] = [pads[x] EXCEPT ![r][1] = LaunchesBefore(p0) + 1]
      BY <1>4
    <3> HIDE DEF p0
    <3>4. CASE q = r
      <4>1. pads'[x][r][1] = LaunchesBefore(p0) + 1 /\ pads'[x][r][2] = pads[x][r][2]
        BY <3>2, <3>3
      <4> QED BY <2>2, <3>1, <3>4, <4>1
    <3>5. CASE q # r
      <4>1. pads'[x][q] = pads[x][q]
        BY <3>2, <3>3, <3>5
      <4> QED BY <2>1, <3>1, <3>5, <4>1
    <3> QED BY <3>4, <3>5
  <2> QED BY <2>3 DEF PadsTell
<1>10. \A p \in Launches : \A q \in Ranks :
        /\ Announced(q, p)' <=> (Announced(q, p) \/ (q = r /\ p = p0))
        /\ Stored(q, p)' <=> Stored(q, p)
        /\ q = r => ~ Stored(q, p0)
  <2>1. ~ (p0 > p0)
    BY <1>1, <1>3, SMT
  <2> QED BY <1>2, <1>4, <1>6, <2>1 DEF Announced, Stored
<1>11. LaunchesMeet'
  <2>1. \A p \in Launches : \A q, x \in Ranks :
            /\ pc'[x] > p => Stored(q, p)'
            /\ Stored(x, p)' => Announced(q, p)'
    BY <1>4, <1>10 DEF PoolIInv, LaunchesMeet
  <2> QED BY <1>5, <2>1 DEF LaunchesMeet
<1>12. ASSUME NEW p \in Launches, NEW x \in Ranks, Latest(x, p)'
       PROVE  /\ out'[x][Slot(Step(p))].terms = Tag(Step(p))
              /\ \A q \in Ranks : Stored(q, p)' => out'[x][Slot(Step(p))].shards[q] = Tag(Step(p))
  <2>0. p \in 1..ProgramLen /\ Slot(Step(p)) \in Ubatches
    BY <1>1, StepTypes DEF Launches
  <2>1. /\ Announced(x, p)'
        /\ \A l \in Launches : Announced(x, l)' /\ Slot(Step(l)) = Slot(Step(p)) => l <= p
    BY <1>5, <1>12 DEF Latest, Slot
  <2>2. CASE x # r
    <3>1. Latest(x, p)
      BY <1>10, <2>1, <2>2 DEF Latest
    <3>2. out'[x] = out[x]
      BY <1>1, <1>4, <2>2 DEF PoolTypes
    <3> QED BY <1>10, <3>1, <3>2 DEF PoolIInv, SlotHolds
  <2>3. CASE x = r /\ p = p0
    <3>1. out'[r][s0].terms = t0
      BY <1>1, <1>3, <1>4 DEF PoolTypes
    <3>2. \A q \in Ranks : ~ Stored(q, p0)
      <4>1. ~ Announced(r, p0)
        <5>1. ~ (p0 > p0)
          BY <1>1, <1>3, SMT
        <5> QED BY <1>2, <5>1 DEF Announced
      <4> QED BY <1>2, <4>1 DEF PoolIInv, LaunchesMeet
    <3> QED BY <1>10, <2>3, <3>1, <3>2
  <2>4. CASE x = r /\ p # p0
    <3>1. Slot(Step(p)) # s0
      <4>1. ASSUME Slot(Step(p)) = s0 PROVE FALSE
        <5>1. Announced(r, p)' /\ p0 <= p
          BY <1>2, <1>10, <2>1, <2>4, <4>1
        <5>2. Announced(r, p) /\ p0 < p
          BY <1>1, <1>3, <1>10, <2>0, <2>4, <5>1, SMT
        <5> QED BY <1>1, <1>3, <2>0, <5>2, SMT DEF Announced
      <4> QED BY <4>1
    <3>2. out'[r][Slot(Step(p))] = out[r][Slot(Step(p))]
      BY <1>1, <1>4, <2>0, <3>1 DEF PoolTypes
    <3>3. Latest(r, p)
      BY <1>10, <2>1, <2>4 DEF Latest
    <3> QED BY <1>10, <2>4, <3>2, <3>3 DEF PoolIInv, SlotHolds
  <2> QED BY <2>2, <2>3, <2>4
<1>13. SlotHolds'
  BY <1>5, <1>12 DEF SlotHolds, Slot, Tag
<1> QED BY <1>7, <1>8, <1>9, <1>11, <1>13 DEF PoolIInv

LEMMA PoolSum ==
  ASSUME PoolIInv, NEW r \in Ranks, Sum(r)
  PROVE  PoolIInv'
<1> DEFINE p0 == pc[r]
           s0 == Slot(Step(p0))
           t0 == Tag(Step(p0))
<1>1. PoolTypes /\ ProgramLen \in Nat /\ order \in Turns
  BY ProgramSize DEF PoolIInv, PoolTypes
<1>2. p0 \in Launches /\ stage[r] = "sum" /\ Met(r, 1)
  BY <1>1 DEF PoolTypes, Sum
<1>3. /\ p0 \in 1..ProgramLen /\ \A q \in Ranks : pc[q] > 1
      /\ LaunchSeq(r, Step(p0)) = LaunchesBefore(p0) + 1 /\ LaunchesBefore(p0) \in Nat
      /\ s0 \in Ubatches /\ t0 \in PoolTags
  BY <1>2, InLaunch
<1>4. \A q \in Ranks : Announced(q, p0)
  BY <1>2, LetThrough
<1>5. \A q \in Ranks : pc[q] = p0 /\ stage[q] # "idle"
  <2>1. ~ Stored(r, p0)
    <3>1. ~ (p0 > p0)
      BY <1>1, <1>3, SMT
    <3> QED BY <1>2, <3>1 DEF Stored
  <2>2. \A q \in Ranks : ~ (pc[q] > p0)
    BY <1>2, <2>1 DEF PoolIInv, LaunchesMeet
  <2> QED BY <1>4, <2>2 DEF Announced
<1>6. \A q \in Ranks : Latest(q, p0)
  <2>1. ASSUME NEW q \in Ranks, NEW l \in Launches, Announced(q, l) PROVE l <= p0
    <3>1. p0 > l \/ p0 = l
      BY <1>5, <2>1 DEF Announced
    <3>2. l \in 1..ProgramLen
      BY DEF Launches
    <3> QED BY <1>1, <1>3, <3>1, <3>2, SMT
  <2> QED BY <1>4, <2>1 DEF Latest
<1>7. \A q \in Ranks : out[q][s0].terms = t0
  BY <1>2, <1>6 DEF PoolIInv, SlotHolds
<1>8. /\ order' = order /\ pc' = pc /\ seqctr' = seqctr
      /\ stage' = [stage EXCEPT ![r] = "done"]
      /\ out' = [q \in Ranks |-> [out[q] EXCEPT ![s0].shards[r] = t0]]
      /\ pads' = [q \in Ranks |-> [pads[q] EXCEPT ![r][2] = LaunchesBefore(p0) + 1]]
  BY <1>3, <1>7 DEF Sum
<1>9. Launches' = Launches /\ PoolTags' = PoolTags
      /\ \A p : Step(p)' = Step(p) /\ LaunchesBefore(p)' = LaunchesBefore(p)
  BY <1>8, ProgramFixed
<1>10. \A q \in Ranks : stage'[q] = IF q = r THEN "done" ELSE stage[q]
  BY <1>1, <1>8 DEF PoolTypes
<1>11. ASSUME NEW x \in Ranks, NEW s \in Ubatches
       PROVE  /\ out'[x][s] \in [terms : PoolTags, shards : [Ranks -> PoolTags]]
              /\ out'[x][s].terms = out[x][s].terms
              /\ \A q \in Ranks : out'[x][s].shards[q] =
                    IF s = s0 /\ q = r THEN t0 ELSE out[x][s].shards[q]
  <2>1. out[x] \in [Ubatches -> [terms : PoolTags, shards : [Ranks -> PoolTags]]]
        /\ out'[x] = [out[x] EXCEPT ![s0].shards[r] = t0]
    BY <1>1, <1>8 DEF PoolTypes
  <2> HIDE DEF s0, t0, p0
  <2>2. CASE s # s0
    BY <2>1, <2>2
  <2>3. CASE s = s0
    <3>1. out[x][s0] \in [terms : PoolTags, shards : [Ranks -> PoolTags]]
      BY <1>3, <2>1
    <3>2. out'[x][s0] = [out[x][s0] EXCEPT !.shards = [@ EXCEPT ![r] = t0]]
      BY <1>3, <2>1
    <3>3. [out[x][s0].shards EXCEPT ![r] = t0] \in [Ranks -> PoolTags]
      BY <1>3, <3>1
    <3> QED BY <2>3, <3>1, <3>2, <3>3
  <2> QED BY <2>2, <2>3
<1>12. PoolTypes'
  <2>1. stage' \in [Ranks -> {"idle", "sum", "done"}]
        /\ \A q \in Ranks : stage'[q] # "idle" => pc'[q] \in Launches
    BY <1>1, <1>2, <1>8, <1>10 DEF PoolTypes
  <2>2. pads' \in [Ranks -> [Ranks -> Nat \X Nat]]
    <3>1. LaunchesBefore(p0) + 1 \in Nat
      BY <1>3, SMT
    <3>2. ASSUME NEW q \in Ranks
          PROVE  [pads[q] EXCEPT ![r][2] = LaunchesBefore(p0) + 1] \in [Ranks -> Nat \X Nat]
      <4>1. pads[q] \in [Ranks -> Nat \X Nat] /\ pads[q][r] \in Nat \X Nat
        BY <1>1 DEF PoolTypes
      <4> QED BY <3>1, <4>1
    <3> QED BY <1>8, <3>2
  <2>3. out' \in [Ranks -> [Ubatches -> [terms : PoolTags, shards : [Ranks -> PoolTags]]]]
    <3>1. ASSUME NEW x \in Ranks
          PROVE  out'[x] \in [Ubatches -> [terms : PoolTags, shards : [Ranks -> PoolTags]]]
      <4>1. out'[x] = [out[x] EXCEPT ![s0].shards[r] = t0] /\ DOMAIN out[x] = Ubatches
        BY <1>1, <1>8 DEF PoolTypes
      <4>2. out'[x] = [s \in Ubatches |-> out'[x][s]]
        <5> HIDE DEF s0, t0, p0
        <5> QED BY <4>1
      <4>3. \A s \in Ubatches : out'[x][s] \in [terms : PoolTags, shards : [Ranks -> PoolTags]]
        BY <1>11
      <4> QED BY <4>2, <4>3
    <3>2. out' = [x \in Ranks |-> out'[x]]
      BY <1>8
    <3> QED BY <3>1, <3>2
  <2> QED BY <1>1, <1>8, <1>9, <2>1, <2>2, <2>3 DEF PoolTypes
<1>13. Rendezvous'
  BY <1>8, <1>9 DEF PoolIInv, Rendezvous
<1>14. PadsTell'
  <2>1. \A q \in Ranks : q # r => AnnouncedSeq(q)' = AnnouncedSeq(q) /\ StoredSeq(q)' = StoredSeq(q)
    BY <1>8, <1>9, <1>10 DEF AnnouncedSeq, StoredSeq
  <2>2. StoredSeq(r)' = LaunchesBefore(p0) + 1 /\ AnnouncedSeq(r)' = AnnouncedSeq(r)
    BY <1>2, <1>8, <1>9, <1>10 DEF AnnouncedSeq, StoredSeq
  <2>3. ASSUME NEW x \in Ranks, NEW q \in Ranks
        PROVE  pads'[x][q][1] = AnnouncedSeq(q)' /\ pads'[x][q][2] = StoredSeq(q)'
    <3>1. pads[x][q][1] = AnnouncedSeq(q) /\ pads[x][q][2] = StoredSeq(q)
      BY <1>3 DEF PoolIInv, PadsTell
    <3>2. pads[x] \in [Ranks -> Nat \X Nat] /\ {pads[x][q], pads[x][r]} \subseteq Nat \X Nat
      BY <1>1 DEF PoolTypes
    <3>3. pads'[x] = [pads[x] EXCEPT ![r][2] = LaunchesBefore(p0) + 1]
      BY <1>8
    <3> HIDE DEF p0
    <3>4. CASE q = r
      <4>1. pads'[x][r][2] = LaunchesBefore(p0) + 1 /\ pads'[x][r][1] = pads[x][r][1]
        BY <3>2, <3>3
      <4> QED BY <2>2, <3>1, <3>4, <4>1
    <3>5. CASE q # r
      <4>1. pads'[x][q] = pads[x][q]
        BY <3>2, <3>3, <3>5
      <4> QED BY <2>1, <3>1, <3>5, <4>1
    <3> QED BY <3>4, <3>5
  <2> QED BY <2>3 DEF PadsTell
<1>15. \A p \in Launches : \A q \in Ranks :
        /\ Announced(q, p)' <=> Announced(q, p)
        /\ Stored(q, p)' <=> (Stored(q, p) \/ (q = r /\ p = p0))
  BY <1>2, <1>8, <1>10 DEF Announced, Stored
<1>16. LaunchesMeet'
  <2>1. \A p \in Launches : \A q, x \in Ranks :
            /\ pc'[x] > p => Stored(q, p)'
            /\ Stored(x, p)' => Announced(q, p)'
    BY <1>4, <1>8, <1>15 DEF PoolIInv, LaunchesMeet
  <2> QED BY <1>9, <2>1 DEF LaunchesMeet
<1>17. ASSUME NEW p \in Launches, NEW x \in Ranks, Latest(x, p)'
       PROVE  /\ out'[x][Slot(Step(p))].terms = Tag(Step(p))
              /\ \A q \in Ranks : Stored(q, p)' => out'[x][Slot(Step(p))].shards[q] = Tag(Step(p))
  <2>1. Latest(x, p)
    BY <1>9, <1>15, <1>17 DEF Latest, Slot
  <2>2. p \in 1..ProgramLen /\ Slot(Step(p)) \in Ubatches
    BY <1>1, StepTypes DEF Launches
  <2>3. /\ out[x][Slot(Step(p))].terms = Tag(Step(p))
        /\ \A q \in Ranks : Stored(q, p) => out[x][Slot(Step(p))].shards[q] = Tag(Step(p))
    BY <2>1 DEF PoolIInv, SlotHolds
  <2>4. Slot(Step(p)) = s0 => p = p0
    <3>1. ASSUME Slot(Step(p)) = s0 PROVE p <= p0 /\ p0 <= p
      BY <1>2, <1>6, <2>1, <3>1 DEF Latest
    <3> QED BY <1>1, <1>3, <2>2, <3>1, SMT
  <2>5. CASE p = p0
    <3>1. Slot(Step(p)) = s0 /\ Tag(Step(p)) = t0
      BY <2>5
    <3> HIDE DEF p0, s0, t0
    <3> QED BY <1>3, <1>11, <1>15, <2>3, <3>1
  <2>6. CASE p # p0
    <3>1. Slot(Step(p)) # s0
      BY <2>4, <2>6
    <3> HIDE DEF p0, s0, t0
    <3> QED BY <1>11, <1>15, <2>2, <2>3, <2>6, <3>1
  <2> QED BY <2>5, <2>6
<1>18. SlotHolds'
  BY <1>9, <1>17 DEF SlotHolds, Slot, Tag
<1> QED BY <1>12, <1>13, <1>14, <1>16, <1>18 DEF PoolIInv

LEMMA PoolFinish ==
  ASSUME PoolIInv, NEW r \in Ranks, Finish(r)
  PROVE  PoolIInv'
<1> DEFINE p0 == pc[r]
<1>1. PoolTypes /\ ProgramLen \in Nat /\ order \in Turns
  BY ProgramSize DEF PoolIInv, PoolTypes
<1>2. p0 \in Launches /\ stage[r] = "done" /\ Met(r, 2)
  BY <1>1 DEF PoolTypes, Finish
<1>3. /\ p0 \in 1..ProgramLen /\ \A q \in Ranks : pc[q] > 1 /\ LaunchesBefore(p0) \in Nat
  BY <1>2, InLaunch
<1>4. \A q \in Ranks : Stored(q, p0)
  BY <1>2, LetThrough
<1>5. /\ order' = order /\ out' = out /\ pads' = pads
      /\ stage' = [stage EXCEPT ![r] = "idle"]
      /\ seqctr' = [seqctr EXCEPT ![r] = @ + 1] /\ pc' = [pc EXCEPT ![r] = @ + 1]
  BY DEF Finish, Advance
<1>6. Launches' = Launches /\ PoolTags' = PoolTags
      /\ \A p : Step(p)' = Step(p) /\ LaunchesBefore(p)' = LaunchesBefore(p)
  BY <1>5, ProgramFixed
<1>7. \A q \in Ranks : /\ pc'[q] = IF q = r THEN p0 + 1 ELSE pc[q]
                       /\ stage'[q] = IF q = r THEN "idle" ELSE stage[q]
                       /\ seqctr'[q] = IF q = r THEN seqctr[r] + 1 ELSE seqctr[q]
  BY <1>1, <1>5 DEF PoolTypes
<1>8. LaunchesBefore(p0 + 1) = LaunchesBefore(p0) + 1
  BY <1>1, <1>2, <1>3, LaunchesCount
<1>9. p0 + 1 \in 1..(ProgramLen + 1) /\ p0 + 1 > 2 /\ p0 > 2
  <2>1. p0 \in 3..ProgramLen
    BY <1>1, <1>2, LaunchesCount
  <2> QED BY <1>1, <2>1, SMT
<1>10. PoolTypes'
  <2>1. pc' \in [Ranks -> 1..(ProgramLen + 1)] /\ stage' \in [Ranks -> {"idle", "sum", "done"}]
    BY <1>1, <1>5, <1>9 DEF PoolTypes
  <2>2. seqctr' \in [Ranks -> Nat]
    <3>1. seqctr[r] + 1 \in Nat
      BY <1>1, SMT DEF PoolTypes
    <3> QED BY <1>1, <1>5, <3>1 DEF PoolTypes
  <2>3. \A q \in Ranks : stage'[q] # "idle" => pc'[q] \in Launches
    BY <1>1, <1>7 DEF PoolTypes
  <2> QED BY <1>1, <1>5, <1>6, <2>1, <2>2, <2>3 DEF PoolTypes
<1>11. Rendezvous'
  <2>1. \A q \in Ranks : pc'[q] > 1
    BY <1>3, <1>7, <1>9, SMT
  <2>2. \A q \in Ranks : seqctr'[q] = LaunchesBefore(pc'[q])
    BY <1>7, <1>8 DEF PoolIInv, Rendezvous
  <2> QED BY <1>6, <2>1, <2>2 DEF Rendezvous
<1>12. PadsTell'
  <2>1. \A q \in Ranks : q # r => AnnouncedSeq(q)' = AnnouncedSeq(q) /\ StoredSeq(q)' = StoredSeq(q)
    BY <1>6, <1>7 DEF AnnouncedSeq, StoredSeq
  <2>2. /\ AnnouncedSeq(r)' = (LaunchesBefore(p0) + 1) + 0
        /\ StoredSeq(r)' = (LaunchesBefore(p0) + 1) + 0
    BY <1>6, <1>7, <1>8 DEF AnnouncedSeq, StoredSeq
  <2>3. AnnouncedSeq(r) = LaunchesBefore(p0) + 1 /\ StoredSeq(r) = LaunchesBefore(p0) + 1
    BY <1>2 DEF AnnouncedSeq, StoredSeq
  <2>4. (LaunchesBefore(p0) + 1) + 0 = LaunchesBefore(p0) + 1
    BY <1>3, SMT
  <2>5. \A q \in Ranks : AnnouncedSeq(q)' = AnnouncedSeq(q) /\ StoredSeq(q)' = StoredSeq(q)
    BY <2>1, <2>2, <2>3, <2>4
  <2>6. \A q, x \in Ranks : pads[x][q][1] = AnnouncedSeq(q) /\ pads[x][q][2] = StoredSeq(q)
    BY <1>3 DEF PoolIInv, PadsTell
  <2> QED BY <1>5, <2>5, <2>6 DEF PadsTell
<1>13. \A p \in Launches : \A q \in Ranks :
        /\ pc'[q] > p <=> (pc[q] > p \/ (q = r /\ p = p0))
        /\ pc'[q] = p /\ q = r => stage'[q] = "idle"
  <2>1. ASSUME NEW p \in Launches PROVE p0 + 1 > p <=> (p0 > p \/ p = p0)
    <3>1. p \in Nat /\ p0 \in Nat
      BY <1>1, <1>3, SMT DEF Launches
    <3> QED BY <3>1, SMT
  <2> QED BY <1>7, <2>1
<1>14. \A p \in Launches : \A q \in Ranks :
        /\ Announced(q, p)' <=> Announced(q, p)
        /\ Stored(q, p)' <=> Stored(q, p)
  <2>1. ASSUME NEW p \in Launches, NEW q \in Ranks
        PROVE  (Announced(q, p)' <=> Announced(q, p)) /\ (Stored(q, p)' <=> Stored(q, p))
    <3>1. CASE q = r
      BY <1>2, <1>7, <1>13, <3>1 DEF Announced, Stored
    <3>2. CASE q # r
      BY <1>7, <3>2 DEF Announced, Stored
    <3> QED BY <3>1, <3>2
  <2> QED BY <2>1
<1>15. \A p \in Launches : \A q, x \in Ranks : pc'[x] > p => Stored(q, p)
  BY <1>4, <1>13 DEF PoolIInv, LaunchesMeet
<1>16. LaunchesMeet' /\ SlotHolds'
  BY <1>5, <1>14, <1>15, LaunchesKept
<1> QED BY <1>10, <1>11, <1>12, <1>16 DEF PoolIInv

LEMMA PoolInductive == PoolIInv /\ [PoolNext]_poolVars => PoolIInv'
<1> SUFFICES ASSUME PoolIInv, [PoolNext]_poolVars PROVE PoolIInv'
  OBVIOUS
<1>1. CASE UNCHANGED poolVars
  <2>1. /\ order' = order /\ pc' = pc /\ stage' = stage /\ pads' = pads
        /\ seqctr' = seqctr /\ out' = out
    BY <1>1 DEF poolVars
  <2>2. Launches' = Launches /\ PoolTags' = PoolTags
        /\ \A p : Step(p)' = Step(p) /\ LaunchesBefore(p)' = LaunchesBefore(p)
    BY <2>1, ProgramFixed
  <2>3. PoolTypes' /\ Rendezvous'
    BY <2>1, <2>2 DEF PoolIInv, PoolTypes, Rendezvous
  <2>4. PadsTell'
    <3>1. \A q \in Ranks : AnnouncedSeq(q)' = AnnouncedSeq(q) /\ StoredSeq(q)' = StoredSeq(q)
      BY <2>1, <2>2 DEF AnnouncedSeq, StoredSeq
    <3> QED BY <2>1, <3>1 DEF PoolIInv, PadsTell
  <2>5. LaunchesMeet' /\ SlotHolds'
    <3>1. \A p : \A q \in Ranks : /\ Announced(q, p)' <=> Announced(q, p)
                                  /\ Stored(q, p)' <=> Stored(q, p)
      BY <2>1 DEF Announced, Stored
    <3>2. \A p \in Launches : \A q, r \in Ranks : pc'[r] > p => Stored(q, p)
      BY <2>1 DEF PoolIInv, LaunchesMeet
    <3> QED BY <2>1, <3>1, <3>2, LaunchesKept
  <2> QED BY <2>3, <2>4, <2>5 DEF PoolIInv
<1>2. CASE PoolNext
  <2>1. ASSUME NEW r \in Ranks, RankStep(r) PROVE PoolIInv'
    <3>1. CASE Zero(r)
      BY <3>1, PoolZero
    <3>2. CASE Reduce(r) \/ Use(r)
      BY <3>2, PoolPass
    <3>3. CASE Start(r)
      BY <3>3, PoolBegin
    <3>4. CASE Sum(r)
      BY <3>4, PoolSum
    <3>5. CASE Finish(r)
      BY <3>5, PoolFinish
    <3> QED BY <2>1, <3>1, <3>2, <3>3, <3>4, <3>5 DEF RankStep
  <2> QED BY <1>1, <1>2, <2>1 DEF PoolNext
<1> QED BY <1>1, <1>2

\* At a residual add the launch just before it in its microbatch is the latest in the
\* slot, and it is behind the rank.
LEMMA PoolServes == PoolIInv => OutputIntact
<1> SUFFICES ASSUME PoolIInv, NEW r \in Ranks, At(r, "use"), NEW q \in Ranks
             PROVE  out[r][Slot(Step(pc[r]))].shards[q] = LaunchOf(r)
  BY DEF OutputIntact
<1> DEFINE p == pc[r]
<1>1. PoolTypes /\ ProgramLen \in Nat /\ order \in Turns
  BY ProgramSize DEF PoolIInv, PoolTypes
<1>2. p \in 1..ProgramLen /\ Step(p).kind = "use"
  <2>1. p \in 1..(ProgramLen + 1) /\ p <= ProgramLen
    BY <1>1 DEF PoolTypes, At
  <2> QED BY <1>1, <2>1, SMT DEF At
<1>3. PICK l \in 1..(p - 1) :
        /\ Step(l) = [Step(p) EXCEPT !.kind = "launch"]
        /\ \A x \in (l + 1)..(p - 1) : Step(x).ubatch # Step(p).ubatch
  BY <1>1, <1>2, LaunchBeforeUse
<1>4. l \in 1..ProgramLen /\ l < p
  BY <1>1, <1>2, SMT
<1>5. Slot(Step(l)) = Slot(Step(p)) /\ Tag(Step(l)) = LaunchOf(r) /\ l \in Launches
  <2>1. PICK f, u, k, g : Step(p) = [kind |-> f, ubatch |-> u, layer |-> k, forward |-> g]
    BY DEF Step, StepOf
  <2>2. Step(l) = [kind |-> "launch", ubatch |-> u, layer |-> k, forward |-> g]
    BY <1>3, <2>1
  <2> QED BY <1>3, <1>4, <2>1, <2>2 DEF Launches, Slot, LaunchOf, Tag
<1>6. ASSUME NEW x \in Launches, Announced(r, x), Slot(Step(x)) = Slot(Step(l)) PROVE x <= l
  <2>1. x \in 1..ProgramLen /\ x # p
    BY <1>2 DEF Launches
  <2>2. p > x
    BY <1>6, <2>1 DEF Announced
  <2>3. x \notin (l + 1)..(p - 1)
    BY <1>3, <1>5, <1>6 DEF Slot
  <2> QED BY <1>1, <1>2, <1>4, <2>1, <2>2, <2>3, SMT
<1>7. Latest(r, l)
  <2>1. p > l
    BY <1>1, <1>2, <1>4, SMT
  <2> QED BY <1>6, <2>1 DEF Latest, Announced
<1>8. Stored(q, l)
  <2>1. p > l
    BY <1>1, <1>2, <1>4, SMT
  <2> QED BY <1>5, <2>1 DEF PoolIInv, LaunchesMeet
<1> QED BY <1>5, <1>7, <1>8 DEF PoolIInv, SlotHolds

\* A residual add reads the sums of its own launch, all of them, over the terms of all
\* ranks, for any order of the microbatches and any number of layers and replays.
THEOREM PoolKeepsOutputs == PoolSpec => []OutputIntact
<1>1. PoolSpec => []PoolIInv
  BY PoolStart, PoolInductive, PTL DEF PoolSpec
<1> QED BY <1>1, PoolServes, PTL

=============================================================================
