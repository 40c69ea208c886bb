---------------------------- MODULE ChunkPartition ----------------------------
(* The index arithmetic of the fused epilogue.  Compute blocks and           *)
(* communication blocks find the bounds of a chunk by different formulas, in *)
(* different units; the communication blocks of all ranks split a chunk into *)
(* shards; every meeting of the ranks has a pad of its own.  TPEpilogue      *)
(* rests on all three.                                                       *)
(*                                                                           *)
(* A behaviour is the chunk loop of one launch that the launcher accepts.    *)
EXTENDS Naturals

CONSTANTS
    HDim,           \* H_DIM
    Grid,           \* GRID_SIZE
    W,              \* bf16 that a compute thread stores at once
    Mm,             \* TP_MM, bf16 of a multimem operation
    Align,          \* TP_ALIGN, units of a warp's access
    MaxC,           \* TP_MAX_C
    TokenCounts, ChunkCounts, Worlds, CommCounts    \* launch arguments considered

ASSUME PartitionAssumption ==
    /\ {HDim, Grid, W, Mm, Align, MaxC} \subseteq Nat \ {0}
    /\ TokenCounts \cup ChunkCounts \cup Worlds \cup CommCounts \subseteq Nat
    /\ 0 \notin CommCounts

VARIABLES
    tokens, nchunk, world, ncomm,   \* the launch's arguments
    chunk                           \* c

args == << tokens, nchunk, world, ncomm >>
vars == << args, chunk >>

-----------------------------------------------------------------------------
(* The launcher's checks, -101 and -110 to -114.                             *)

MutWholeUnits(n, c) == (n * HDim) % Mm = 0
WholeUnits(n, c) == (n * HDim) % (Mm * c) = 0

Accepts(n, c, w, k) ==
    /\ n > 0
    /\ c \in 1..MaxC
    /\ k < Grid
    /\ w >= 1
    /\ WholeUnits(n, c)

Init ==
    /\ tokens \in TokenCounts /\ nchunk \in ChunkCounts
    /\ world \in Worlds /\ ncomm \in CommCounts
    /\ Accepts(tokens, nchunk, world, ncomm)
    /\ chunk = 0

NextChunk ==
    /\ chunk + 1 < nchunk
    /\ chunk' = chunk + 1
    /\ UNCHANGED args

Next == NextChunk \/ (chunk + 1 = nchunk /\ UNCHANGED vars)

Spec == Init /\ [][Next]_vars

-----------------------------------------------------------------------------
(* The two sides' bounds of chunk c, in bf16 elements.                       *)

OutElems == tokens * HDim

\* c_lo of the compute blocks, in vectors of W; c_hi is c_lo of c + 1.
ComputeLo(c) == (((OutElems \div W) * c) \div nchunk) * W

\* lo of the communication blocks, in units of Mm; hi is lo of c + 1.
UnitLo(c) == ((OutElems \div Mm) * c) \div nchunk

\* Shard s of the current chunk, in units: s_lo, s_hi, both cut at hi.
NumShards == world * ncomm
MutGroups == (UnitLo(chunk + 1) - UnitLo(chunk)) \div Align
Groups == (UnitLo(chunk + 1) - UnitLo(chunk) + Align - 1) \div Align
Edge(s) == UnitLo(chunk) + ((Groups * s) \div NumShards) * Align
Cut(v) == IF v < UnitLo(chunk + 1) THEN v ELSE UnitLo(chunk + 1)
ShardLo(s) == Cut(Edge(s))
ShardHi(s) == Cut(Edge(s + 1))

\* Pads: one per chunk and communication block, and the final one; a pad is
\* one word per rank.  The window is sized for the widest launch.
PadOf(c, k) == c * ncomm + k
FinalPad == nchunk * ncomm
Word(pad, rank) == pad * world + rank
MutPadWords(c, k, w) == c * k * w
PadWords(c, k, w) == (c * k + 1) * w
Window == PadWords(MaxC, Grid - 1, world)

-----------------------------------------------------------------------------
(* Properties.                                                               *)

\* What the compute blocks signal as chunk c is, to the element, what the
\* communication blocks reduce as chunk c.  The two formulas round differently
\* and agree only on the shapes that the launcher lets through.
ChunksAgree ==
    /\ ComputeLo(chunk) = UnitLo(chunk) * Mm
    /\ ComputeLo(chunk + 1) = UnitLo(chunk + 1) * Mm
    /\ nchunk = chunk + 1 => UnitLo(nchunk) * Mm = OutElems

\* The shards of all ranks cover the chunk without overlap, also when there
\* are more shards than groups: "each byte is summed exactly once".
ShardsTile ==
    /\ ShardLo(0) = UnitLo(chunk)
    /\ ShardHi(NumShards - 1) = UnitLo(chunk + 1)
    /\ \A s \in 0..(NumShards - 1) :
        /\ ShardLo(s) <= ShardHi(s)
        /\ s + 1 < NumShards => ShardHi(s) = ShardLo(s + 1)

\* Every word the rank barriers touch lies in the window, and no two of their
\* meetings share a pad.
PadsFit ==
    /\ Word(FinalPad, world - 1) < Window
    /\ \A k \in 0..(ncomm - 1) :
        /\ Word(PadOf(chunk, k), world - 1) < Window
        /\ PadOf(chunk, k) # FinalPad
        /\ chunk > 0 => \A j \in 0..(ncomm - 1) : PadOf(chunk, k) # PadOf(chunk - 1, j)

\* Cut by either formula, into any shards, with any window: one partition.
CutsAgree == ChunksAgree /\ ShardsTile /\ PadsFit

=============================================================================
