--------------------------- MODULE MonoKernel_proofs ---------------------------
(* Proofs about MonoKernel, for any grid, warps, threads, experts, tokens,    *)
(* tiles and launches: the schedule is right, and every output is the sum of  *)
(* exactly the owned slots of its token, computed in its launch.              *)
EXTENDS MonoKernel, NumberLemmas

-----------------------------------------------------------------------------
(* The tile schedule, as a function of the histogram.                        *)

Tiling == [x \in Experts |-> TilesOf(x)]
Offsets == [e \in 0..NumExperts |-> Offset(e)]
Bases == [e \in 0..NumExperts |-> TileBase(e)]
IsPlan == offsets = Offsets /\ tiles = [i \in 0..(TileBase(NumExperts) - 1) |-> TileAt(i)]

LEMMA TilesFacts ==
  ASSUME counts \in [Experts -> Nat]
  PROVE  \A e \in Experts :
            /\ TilesOf(e) \in Nat
            /\ \A k \in Nat : k < TilesOf(e) <=> k * BlockM < counts[e]
            /\ BlockM * TilesOf(e) + 1 <= counts[e] + BlockM
<1> SUFFICES ASSUME NEW e \in Experts
             PROVE  /\ TilesOf(e) \in Nat
                    /\ \A k \in Nat : k < TilesOf(e) <=> k * BlockM < counts[e]
                    /\ BlockM * TilesOf(e) + 1 <= counts[e] + BlockM
  OBVIOUS
<1> DEFINE c == counts[e]
           B == BlockM
           T == TilesOf(e)
<1>1. c \in Nat /\ B \in Nat \ {0}
  BY KernelAssumption
<1>2. T = (c + B - 1) \div B /\ c + B - 1 \in Nat
  BY <1>1, SMT DEF TilesOf
<1> HIDE DEF c, B, T
<1>3. T \in Nat /\ B * T <= c + B - 1 /\ c + B - 1 < B * T + B
  BY <1>1, <1>2, DivBounds
<1>4. ASSUME NEW k \in Nat PROVE k < T <=> k * B < c
  <2>1. CASE k < T
    <3>1. (k + 1) * B <= T * B
      BY <1>1, <1>3, <2>1, ProductMonotone
    <3>2. (k + 1) * B = k * B + B /\ T * B = B * T /\ k * B \in Nat
      BY <1>1, <1>3, SMT
    <3>3. k * B < c
      BY <1>1, <1>3, <3>1, <3>2, SMT
    <3> QED BY <2>1, <3>3
  <2>2. CASE ~ (k < T)
    <3>1. T * B <= k * B
      BY <1>1, <1>3, <2>2, ProductMonotone
    <3>2. T * B = B * T /\ k * B \in Nat
      BY <1>1, <1>3, SMT
    <3>3. ~ (k * B < c)
      BY <1>1, <1>3, <3>1, <3>2, SMT
    <3> QED BY <2>2, <3>3
  <2> QED BY <2>1, <2>2
<1>5. B * T + 1 <= c + B
  BY <1>1, <1>3, SMT
<1> QED BY <1>3, <1>4, <1>5 DEF c, B, T

LEMMA PlanSums ==
  ASSUME counts \in [Experts -> Nat]
  PROVE  /\ NumExperts \in Nat /\ Experts = 0..(NumExperts - 1)
         /\ counts \in [0..(NumExperts - 1) -> Nat]
         /\ Tiling \in [0..(NumExperts - 1) -> Nat]
         /\ FirstSums(counts, NumExperts, Offsets)
         /\ FirstSums(Tiling, NumExperts, Bases)
<1>1. NumExperts \in Nat /\ Experts = 0..(NumExperts - 1)
  BY KernelAssumption DEF Experts
<1>2. Tiling \in [0..(NumExperts - 1) -> Nat]
  BY <1>1, TilesFacts DEF Tiling
<1>3. FirstSums(counts, NumExperts, [n \in 0..NumExperts |-> SumOver(counts, 0..(n - 1))])
  BY <1>1, FirstSumsOf
<1>4. FirstSums(Tiling, NumExperts, [n \in 0..NumExperts |-> SumOver(Tiling, 0..(n - 1))])
  BY <1>1, <1>2, FirstSumsOf
<1>5. Offsets = [n \in 0..NumExperts |-> SumOver(counts, 0..(n - 1))]
  BY DEF Offsets, Offset, SumBelow, SumOver
<1>6. Bases = [n \in 0..NumExperts |-> SumOver(Tiling, 0..(n - 1))]
  BY DEF Bases, TileBase, SumBelow, SumOver, Tiling
<1> QED BY <1>1, <1>2, <1>3, <1>4, <1>5, <1>6

\* What each entry of a plan is, and which rows it serves.
TileOf(j, e, k) ==
    /\ e \in Experts /\ k \in Nat /\ j = TileBase(e) + k /\ k < TilesOf(e)
    /\ tiles[j].expert = e /\ tiles[j].row0 = offsets[e] + k * BlockM

Region(e) == offsets[e]..(offsets[e + 1] - 1)

LEMMA OffsetFacts ==
  ASSUME counts \in [Experts -> Nat], IsPlan
  PROVE  /\ \A e \in Experts : /\ offsets[e] \in Nat /\ offsets[e + 1] \in Nat
                               /\ offsets[e + 1] = offsets[e] + counts[e]
                               /\ offsets[e + 1] <= offsets[NumExperts]
         /\ offsets[NumExperts] \in Nat
         /\ \A e, f \in Experts : \A p \in Nat : p \in Region(e) /\ p \in Region(f) => e = f
<1>1. offsets = Offsets /\ FirstSums(counts, NumExperts, offsets)
  BY PlanSums DEF IsPlan
<1>2. offsets \in [0..NumExperts -> Nat] /\ NumExperts \in Nat /\ Experts = 0..(NumExperts - 1)
  BY <1>1, PlanSums DEF FirstSums
<1>3. ASSUME NEW e \in Experts
      PROVE  /\ e \in 0..NumExperts /\ e + 1 \in 0..NumExperts /\ NumExperts \in 0..NumExperts
             /\ e + 1 <= NumExperts
  BY <1>2, SMT
<1>4. ASSUME NEW e \in Experts
      PROVE  /\ offsets[e] \in Nat /\ offsets[e + 1] \in Nat
             /\ offsets[e + 1] = offsets[e] + counts[e]
  BY <1>1, <1>2, <1>3 DEF FirstSums
<1>5. ASSUME NEW e \in Experts PROVE offsets[e + 1] <= offsets[NumExperts]
  <2>1. NumExperts \in Nat /\ counts \in [0..(NumExperts - 1) -> Nat]
    BY PlanSums
  <2> QED BY <1>1, <1>3, <2>1, SumsGrow
<1>6. ASSUME NEW e \in Experts, NEW f \in Experts, NEW p \in Nat,
             p \in Region(e), p \in Region(f)
      PROVE  e = f
  <2>1. /\ offsets[e] <= p /\ p < offsets[e] + counts[e]
        /\ offsets[f] <= p /\ p < offsets[f] + counts[f]
    BY <1>4, <1>6, SMT DEF Region
  <2>2. NumExperts \in Nat /\ counts \in [0..(NumExperts - 1) -> Nat]
    BY PlanSums
  <2>3. e \in 0..(NumExperts - 1) /\ f \in 0..(NumExperts - 1)
    BY <1>2
  <2> QED BY <1>1, <2>1, <2>2, <2>3, SumsApart
<1>7. offsets[NumExperts] \in Nat
  BY <1>2, SMT
<1> QED BY <1>4, <1>5, <1>6, <1>7

LEMMA TileFacts ==
  ASSUME counts \in [Experts -> Nat], IsPlan
  PROVE  /\ DOMAIN tiles = 0..(TileBase(NumExperts) - 1)
         /\ TileBase(NumExperts) \in Nat /\ TotalTiles = TileBase(NumExperts)
         /\ \A j \in DOMAIN tiles : \E e \in Experts : \E k \in Nat : TileOf(j, e, k)
         /\ \A e \in Experts : \A k \in Nat : k < TilesOf(e) =>
                TileBase(e) + k \in DOMAIN tiles /\ TileOf(TileBase(e) + k, e, k)
<1>1. /\ NumExperts \in Nat /\ Experts = 0..(NumExperts - 1)
      /\ Tiling \in [0..(NumExperts - 1) -> Nat]
      /\ FirstSums(Tiling, NumExperts, Bases)
  BY PlanSums
<1>2. \A e \in 0..NumExperts : Bases[e] = TileBase(e) /\ Bases[e] \in Nat
  BY <1>1 DEF FirstSums, Bases
<1>3. /\ NumExperts \in 0..NumExperts
      /\ \A e \in Experts : e \in 0..NumExperts /\ e + 1 \in 0..NumExperts
  BY <1>1, SMT
<1>4. DOMAIN tiles = 0..(TileBase(NumExperts) - 1) /\ TileBase(NumExperts) \in Nat
  BY <1>2, <1>3 DEF IsPlan
<1>5. TotalTiles = TileBase(NumExperts)
  <2>1. Cardinality(0..(TileBase(NumExperts) - 1)) = TileBase(NumExperts)
    <3> DEFINE n == TileBase(NumExperts)
    <3>1. n \in Nat
      BY <1>4
    <3> HIDE DEF n
    <3>2. 0 \in Int /\ n - 1 \in Int
      BY <3>1
    <3>3. Cardinality(0..(n - 1)) = IF 0 > n - 1 THEN 0 ELSE (n - 1) - 0 + 1
      BY <3>2, FS_Interval
    <3> QED BY <3>1, <3>3, SMT DEF n
  <2> QED BY <1>4, <2>1 DEF TotalTiles
<1>6. \A e \in Experts : Tiling[e] = TilesOf(e) /\ TilesOf(e) \in Nat
  BY <1>1 DEF Tiling
\* The range of entries that holds j belongs to one expert only.
<1>7. ASSUME NEW j \in Nat, NEW e \in Experts, TileBase(e) <= j, j < TileBase(e) + TilesOf(e),
             j \in DOMAIN tiles
      PROVE  TileOf(j, e, j - TileBase(e))
  <2> DEFINE P(x) == TileBase(x) <= j /\ j < TileBase(x) + TilesOf(x)
             x == CHOOSE y \in Experts : P(y)
  <2>1. x \in Experts /\ P(x)
    BY <1>7
  <2>2. x = e
    <3> HIDE DEF x
    <3>1. /\ Bases[x] <= j /\ j < Bases[x] + Tiling[x]
          /\ Bases[e] <= j /\ j < Bases[e] + Tiling[e]
      BY <1>2, <1>3, <1>6, <1>7, <2>1
    <3>2. x \in 0..(NumExperts - 1) /\ e \in 0..(NumExperts - 1)
      BY <1>1, <2>1
    <3> QED BY <1>1, <3>1, <3>2, SumsApart
  <2>3. tiles[j] = TileAt(j)
    BY <1>4, <1>7 DEF IsPlan
  <2>4. TileAt(j) = [expert |-> e, row0 |-> Offset(e) + (j - TileBase(e)) * BlockM]
    BY <2>2 DEF TileAt
  <2>5. Offset(e) = offsets[e]
    BY <1>3 DEF IsPlan, Offsets
  <2>6. TileBase(e) \in Nat /\ TilesOf(e) \in Nat
    BY <1>2, <1>3, <1>6
  <2>7. /\ j - TileBase(e) \in Nat /\ j = TileBase(e) + (j - TileBase(e))
        /\ j - TileBase(e) < TilesOf(e)
    <3> HIDE DEF P, x
    <3> QED BY <1>7, <2>6, SMT
  <2>8. tiles[j].expert = e /\ tiles[j].row0 = offsets[e] + (j - TileBase(e)) * BlockM
    BY <2>3, <2>4, <2>5
  <2> QED BY <2>7, <2>8 DEF TileOf
<1>8. ASSUME NEW j \in DOMAIN tiles PROVE \E e \in Experts : \E k \in Nat : TileOf(j, e, k)
  <2>1. j \in Nat /\ j < Bases[NumExperts]
    BY <1>2, <1>3, <1>4, SMT
  <2>2. PICK e \in 0..(NumExperts - 1) : Bases[e] <= j /\ j < Bases[e] + Tiling[e]
    BY <1>1, <2>1, SumsCover
  <2>3. e \in Experts /\ TileBase(e) <= j /\ j < TileBase(e) + TilesOf(e)
    BY <1>1, <1>2, <1>3, <1>6, <2>2
  <2>4. TileOf(j, e, j - TileBase(e))
    BY <1>7, <2>1, <2>3
  <2>5. j - TileBase(e) \in Nat
    BY <2>4 DEF TileOf
  <2> QED BY <2>3, <2>4, <2>5
<1>9. ASSUME NEW e \in Experts, NEW k \in Nat, k < TilesOf(e)
      PROVE  TileBase(e) + k \in DOMAIN tiles /\ TileOf(TileBase(e) + k, e, k)
  <2>1. Bases[e + 1] = Bases[e] + Tiling[e]
    BY <1>1 DEF FirstSums
  <2>2. e + 1 <= NumExperts
    BY <1>1, SMT
  <2>3. Bases[e + 1] <= Bases[NumExperts]
    BY <1>1, <1>3, <2>2, SumsGrow
  <2>4. TileBase(e) \in Nat /\ TilesOf(e) \in Nat
    BY <1>2, <1>3, <1>6
  <2>5. TileBase(e) + TilesOf(e) <= TileBase(NumExperts)
    BY <1>2, <1>3, <1>6, <2>1, <2>3
  <2>6. /\ TileBase(e) + k \in 0..(TileBase(NumExperts) - 1) /\ TileBase(e) + k \in Nat
        /\ TileBase(e) <= TileBase(e) + k /\ TileBase(e) + k < TileBase(e) + TilesOf(e)
        /\ (TileBase(e) + k) - TileBase(e) = k
    BY <1>4, <1>9, <2>4, <2>5, SMT
  <2>7. TileOf(TileBase(e) + k, e, (TileBase(e) + k) - TileBase(e))
    BY <1>4, <1>7, <2>6
  <2> QED BY <1>4, <2>6, <2>7
<1> QED BY <1>4, <1>5, <1>8, <1>9

LEMMA MinOfTwo ==
  ASSUME NEW a \in Int, NEW b \in Int
  PROVE  Min({a, b}) \in Int /\ Min({a, b}) = IF a <= b THEN a ELSE b
<1> DEFINE m == IF a <= b THEN a ELSE b
<1>1. m \in {a, b} /\ \A y \in {a, b} : m <= y
  BY SMT
<1>2. \A x \in {a, b} : (\A y \in {a, b} : x <= y) => x = m
  BY SMT
<1>3. Min({a, b}) = m
  <2> HIDE DEF m
  <2> QED BY <1>1, <1>2 DEF Min
<1> QED BY <1>3

\* The rows of the k-th tile of expert e.
LEMMA RowsFacts ==
  ASSUME counts \in [Experts -> Nat], IsPlan, NEW j \in DOMAIN tiles,
         NEW e \in Experts, NEW k \in Nat, TileOf(j, e, k)
  PROVE  /\ tiles[j].row0 \in Nat /\ tiles[j].row0 < offsets[e + 1]
         /\ \A p \in Int : p \in RowsOf(tiles[j]) <=>
                /\ offsets[e] + k * BlockM <= p /\ p < offsets[e] + (k + 1) * BlockM
                /\ p < offsets[e + 1]
<1> DEFINE o == offsets[e]
           n == offsets[e + 1]
           B == BlockM
           q == k * BlockM
           r == tiles[j].row0
<1>1. o \in Nat /\ n \in Nat /\ n = o + counts[e] /\ B \in Nat \ {0} /\ counts[e] \in Nat
  BY OffsetFacts, KernelAssumption
<1>2. q \in Nat /\ (k + 1) * B = q + B
  BY <1>1, SMT
<1>3. q < counts[e]
  BY TilesFacts DEF TileOf
<1>4. r = o + q /\ tiles[j].expert = e
  BY DEF TileOf
<1>5. RowsOf(tiles[j]) = r..(r + Min({B, n - r}) - 1)
  BY <1>4 DEF RowsOf
<1> HIDE DEF o, n, B, q, r
<1>6. r \in Nat /\ r < n /\ n - r \in Int
  BY <1>1, <1>2, <1>3, <1>4, SMT
<1>7. Min({B, n - r}) = IF B <= n - r THEN B ELSE n - r
  BY <1>1, <1>6, MinOfTwo
<1>8. ASSUME NEW p \in Int
      PROVE  p \in RowsOf(tiles[j]) <=> o + q <= p /\ p < o + (q + B) /\ p < n
  <2>1. CASE B <= n - r
    <3>1. RowsOf(tiles[j]) = r..(r + B - 1)
      BY <1>5, <1>7, <2>1
    <3> QED BY <1>1, <1>2, <1>4, <1>6, <2>1, <3>1, SMT
  <2>2. CASE ~ (B <= n - r)
    <3>1. RowsOf(tiles[j]) = r..(r + (n - r) - 1)
      BY <1>5, <1>7, <2>2
    <3> QED BY <1>1, <1>2, <1>4, <1>6, <2>2, <3>1, SMT
  <2> QED BY <2>1, <2>2
<1> QED BY <1>2, <1>6, <1>8 DEF o, n, B, q, r

\* Tiles keep to the region of their expert, and every row of a region is in one tile.
LEMMA TilingRight ==
  ASSUME counts \in [Experts -> Nat], IsPlan
  PROVE  /\ \A j \in DOMAIN tiles :
                /\ tiles[j].expert \in Experts /\ tiles[j].row0 \in Nat
                /\ tiles[j].row0 < offsets[NumExperts]
                /\ RowsOf(tiles[j]) \subseteq Region(tiles[j].expert)
         /\ \A e \in Experts : \A p \in Region(e) :
                \E j \in DOMAIN tiles : tiles[j].expert = e /\ p \in RowsOf(tiles[j])
         /\ \A i, j \in DOMAIN tiles : \A p \in RowsOf(tiles[i]) :
                p \in RowsOf(tiles[j]) => i = j
<1>1. BlockM \in Nat \ {0}
  BY KernelAssumption
<1>2. \A e \in Experts : offsets[e] \in Nat /\ offsets[e + 1] \in Nat
                         /\ offsets[e + 1] = offsets[e] + counts[e]
                         /\ offsets[e + 1] <= offsets[NumExperts] /\ offsets[NumExperts] \in Nat
  BY OffsetFacts
<1>3. ASSUME NEW j \in DOMAIN tiles, NEW e \in Experts, NEW k \in Nat, TileOf(j, e, k)
      PROVE  /\ tiles[j].expert = e /\ tiles[j].row0 \in Nat
             /\ tiles[j].row0 < offsets[NumExperts]
             /\ RowsOf(tiles[j]) \subseteq Int
             /\ RowsOf(tiles[j]) \subseteq Region(e)
  <2>1. /\ tiles[j].row0 \in Nat /\ tiles[j].row0 < offsets[e + 1]
        /\ \A p \in Int : p \in RowsOf(tiles[j]) <=>
                /\ offsets[e] + k * BlockM <= p /\ p < offsets[e] + (k + 1) * BlockM
                /\ p < offsets[e + 1]
    BY <1>3, RowsFacts
  <2>2. RowsOf(tiles[j]) \subseteq Int
    BY DEF RowsOf
  <2>3. k * BlockM \in Nat
    BY <1>1, SMT
  <2>4. ASSUME NEW p \in RowsOf(tiles[j]) PROVE p \in Region(e)
    <3>1. p \in Int /\ offsets[e] + k * BlockM <= p /\ p < offsets[e + 1]
      BY <2>1, <2>2
    <3> DEFINE q == k * BlockM
    <3> HIDE DEF q
    <3> QED BY <1>2, <2>3, <3>1, SMT DEF Region, q
  <2>5. tiles[j].row0 < offsets[NumExperts]
    BY <1>2, <2>1, SMT
  <2> QED BY <1>3, <2>1, <2>2, <2>4, <2>5 DEF TileOf
<1>4. ASSUME NEW j \in DOMAIN tiles
      PROVE  /\ tiles[j].expert \in Experts /\ tiles[j].row0 \in Nat
             /\ tiles[j].row0 < offsets[NumExperts]
             /\ RowsOf(tiles[j]) \subseteq Region(tiles[j].expert)
  <2>1. PICK e \in Experts : \E k \in Nat : TileOf(j, e, k)
    BY TileFacts
  <2>2. PICK k \in Nat : TileOf(j, e, k)
    BY <2>1
  <2> QED BY <1>3, <2>2
<1>5. ASSUME NEW e \in Experts, NEW p \in Region(e)
      PROVE  \E j \in DOMAIN tiles : tiles[j].expert = e /\ p \in RowsOf(tiles[j])
  <2> DEFINE o == offsets[e]
             B == BlockM
             k == (p - o) \div B
             c == counts[e]
  <2>1. p \in Nat /\ p - o \in Nat /\ p - o < c /\ o \in Nat /\ c \in Nat /\ p = o + (p - o)
    BY <1>2, SMT DEF Region
  <2>2. k \in Nat /\ B * k <= p - o /\ p - o < B * k + B
    <3> DEFINE a == p - o
    <3>1. a \in Nat /\ B \in Nat \ {0}
      BY <1>1, <2>1
    <3> HIDE DEF a, B
    <3> QED BY <3>1, DivBounds DEF a
  <2> HIDE DEF k
  <2>3. k * B = B * k /\ (k + 1) * B = B * k + B /\ B * k \in Nat
    BY <1>1, <2>2, SMT
  <2>4. k * B < c
    BY <2>1, <2>2, <2>3, SMT
  <2>5. k < TilesOf(e)
    BY <2>2, <2>4, TilesFacts
  <2> DEFINE j == TileBase(e) + k
  <2>6. j \in DOMAIN tiles /\ TileOf(j, e, k)
    BY <2>2, <2>5, TileFacts
  <2> HIDE DEF j
  <2>7. \A x \in Int : x \in RowsOf(tiles[j]) <=>
            offsets[e] + k * BlockM <= x /\ x < offsets[e] + (k + 1) * BlockM
            /\ x < offsets[e + 1]
    BY <2>2, <2>6, RowsFacts
  <2>8. o + k * B <= p /\ p < o + (k + 1) * B /\ p < offsets[e + 1] /\ p \in Int
    <3>1. offsets[e + 1] = o + c
      BY <1>2
    <3> DEFINE d == B * k
    <3>2. d <= p - o /\ p - o < d + B /\ d \in Nat /\ k * B = d /\ (k + 1) * B = d + B
      BY <2>2, <2>3
    <3>3. B \in Nat
      BY <1>1
    <3> HIDE DEF o, B, c, d
    <3>4. o + d <= p /\ p < o + (d + B) /\ p < o + c /\ p \in Int
      BY <2>1, <3>2, <3>3, SMT
    <3> QED BY <3>1, <3>2, <3>4
  <2>9. tiles[j].expert = e
    BY <2>6 DEF TileOf
  <2> QED BY <2>6, <2>7, <2>8, <2>9
<1>6. ASSUME NEW i \in DOMAIN tiles, NEW j \in DOMAIN tiles, NEW p \in RowsOf(tiles[i]),
             p \in RowsOf(tiles[j])
      PROVE  i = j
  <2>1. PICK e \in Experts : \E k \in Nat : TileOf(i, e, k)
    BY TileFacts
  <2>2. PICK k \in Nat : TileOf(i, e, k)
    BY <2>1
  <2>3. PICK f \in Experts : \E l \in Nat : TileOf(j, f, l)
    BY TileFacts
  <2>4. PICK l \in Nat : TileOf(j, f, l)
    BY <2>3
  <2>5. p \in Region(e) /\ p \in Region(f) /\ p \in Int
    BY <1>3, <1>6, <2>2, <2>4
  <2>6. p \in Nat
    BY <1>2, <2>5, SMT DEF Region
  <2>7. e = f
    BY <2>5, <2>6, OffsetFacts
  <2>8. offsets[e] + k * BlockM <= p /\ p < offsets[e] + (k + 1) * BlockM
    BY <1>6, <2>2, <2>5, RowsFacts
  <2>9. offsets[e] + l * BlockM <= p /\ p < offsets[e] + (l + 1) * BlockM
    BY <1>6, <2>4, <2>5, <2>7, RowsFacts
  <2>10. k = l
    <3>1. ASSUME NEW a \in Nat, NEW b \in Nat, a < b,
                 p < offsets[e] + (a + 1) * BlockM, offsets[e] + b * BlockM <= p
          PROVE  FALSE
      <4>1. (a + 1) * BlockM <= b * BlockM /\ (a + 1) * BlockM \in Nat
        BY <1>1, <3>1, ProductMonotone
      <4>2. b * BlockM \in Nat
        BY <1>1, SMT
      <4> DEFINE x == (a + 1) * BlockM
                 y == b * BlockM
      <4>3. offsets[e] \in Nat
        BY <1>2
      <4> HIDE DEF x, y
      <4> QED BY <2>6, <3>1, <4>1, <4>2, <4>3, SMT DEF x, y
    <3>2. ~ (k < l) /\ ~ (l < k)
      BY <2>8, <2>9, <3>1
    <3> QED BY <3>2, SMT
  <2> QED BY <2>2, <2>4, <2>7, <2>10 DEF TileOf
<1> QED BY <1>4, <1>5, <1>6

\* An expert adds at most one ragged tile.
LEMMA TilesBounded ==
  ASSUME counts \in [Experts -> Nat], NEW n \in Nat, Offset(NumExperts) <= n
  PROVE  TileBase(NumExperts) <= n \div BlockM + NumExperts
<1> DEFINE N == NumExperts
<1>1. /\ N \in Nat /\ BlockM \in Nat \ {0} /\ Experts = 0..(N - 1)
      /\ counts \in [0..(N - 1) -> Nat] /\ Tiling \in [0..(N - 1) -> Nat]
      /\ FirstSums(counts, N, Offsets) /\ FirstSums(Tiling, N, Bases)
  BY PlanSums, KernelAssumption
<1>2. \A m \in 0..(N - 1) : BlockM * Tiling[m] + 1 <= counts[m] + BlockM
  BY <1>1, TilesFacts DEF Tiling
<1>3. Offsets[N] = Offset(N) /\ Bases[N] = TileBase(N)
  <2>1. N \in 0..N
    BY <1>1, SMT
  <2> QED BY <2>1 DEF Offsets, Bases
<1>4. Offsets[N] <= n
  BY <1>3
<1>5. Bases[N] <= n \div BlockM + N
  <2> HIDE DEF N
  <2> QED BY <1>1, <1>2, <1>4, RoundedSums
<1> QED BY <1>3, <1>5

-----------------------------------------------------------------------------
(* Slots, tokens and workers.                                                *)

LEMMA SlotFacts ==
  ASSUME NEW t \in Tokens
  PROVE  \A i \in Int : i \in SlotsOf(t) <=> i \in Slots /\ i \div TopK = t
<1>1. TopK \in Nat \ {0} /\ MaxTokens \in Nat \ {0} /\ t \in Nat /\ t + 1 <= MaxTokens
  BY KernelAssumption, SMT DEF Tokens
<1>2. (t + 1) * TopK <= MaxTokens * TopK
  BY <1>1, ProductMonotone
<1>3. (t + 1) * TopK = t * TopK + TopK /\ t * TopK = TopK * t /\ t * TopK \in Nat
  BY <1>1, SMT
<1>4. MaxTokens * TopK \in Nat
  BY <1>1, SMT
<1> DEFINE a == t * TopK
           m == MaxTokens * TopK
<1>5. a \in Nat /\ m \in Nat /\ a + TopK <= m
  BY <1>2, <1>3, <1>4
<1>6. SlotsOf(t) = a..(a + TopK - 1) /\ Slots = 0..(m - 1)
  BY DEF SlotsOf, Slots
<1> HIDE DEF a, m
<1>7. ASSUME NEW i \in SlotsOf(t) PROVE i \in Slots /\ i \div TopK = t
  <2>1. i \in Slots /\ i \in Nat /\ i - a \in 0..(TopK - 1) /\ i = a + (i - a)
    BY <1>1, <1>5, <1>6, SMT
  <2>2. (TopK * t + (i - a)) \div TopK = t
    BY <1>1, <2>1, DivUnique
  <2> QED BY <1>3, <2>1, <2>2 DEF a
<1>8. ASSUME NEW i \in Slots, i \div TopK = t PROVE i \in SlotsOf(t)
  <2>1. i \in Nat
    BY <1>6, SMT
  <2>2. TopK * (i \div TopK) <= i /\ i < TopK * (i \div TopK) + TopK
    BY <1>1, <2>1, DivBounds
  <2>3. a <= i /\ i < a + TopK
    BY <1>3, <1>8, <2>2 DEF a
  <2> QED BY <1>1, <1>5, <1>6, <2>1, <2>3, SMT
<1> QED BY <1>7, <1>8

-----------------------------------------------------------------------------
(* The inductive invariant.                                                  *)

Types ==
    /\ round \in [Blocks -> 1..5] /\ inside \subseteq Blocks
    /\ launch \in 0..MaxLaunches /\ tokens \in 0..MaxTokens /\ logits \in Routings
    /\ routed \subseteq Tokens
    /\ act \in [Rows -> 0..MaxLaunches]
    /\ topkIds \in [Slots -> Experts \cup {-1}]
    /\ counts \in [Experts -> Nat]
    /\ scheduled \in BOOLEAN
    /\ cursors \in [Experts -> Nat]
    /\ fetched \in [Slots -> Slots \cup {-1}]
    /\ stored \subseteq Slots
    /\ sorted \in [Slots -> Slots]
    /\ nextTile \in [Blocks -> Nat]
    /\ partial \in [Slots -> Cells]
    /\ summed \subseteq Tokens
    /\ output \in [Tokens -> SUBSET (Slots \X Cells)]
    /\ \A t \in Tokens : output[t] \subseteq SlotsOf(t) \X Cells

\* No block is past a barrier that another has not entered.
BarrierHolds ==
    /\ \A b, c \in Blocks : GB!Reached(c, round[b] - 1)
    /\ \A b \in inside : round[b] <= 4
    /\ tokens = 0 => inside = {} /\ \A b \in Blocks : round[b] = 5
    /\ tokens # 0 => Accepts(tokens)

\* A block that has entered a barrier has done its share of the round.
RoundsDone ==
    /\ GB!Reached(0, 2) /\ tokens # 0 => scheduled
    /\ \A b \in Blocks :
        /\ GB!Reached(b, 1) => Phase0Done(b)
        /\ GB!Reached(b, 3) => ScatterDone(b)
        /\ GB!Reached(b, 4) => nextTile[b] >= TotalTiles

\* The slots of the routed tokens that chose local expert e.
RoutedTo(e) == {i \in Slots : i \div TopK \in routed /\ LocalId(i) = e}

RoutingRight ==
    /\ routed \subseteq LiveTokens
    /\ \A i \in Slots : i \div TopK \in routed => topkIds[i] = LocalId(i)
    /\ \A e \in Experts : counts[e] = Cardinality(RoutedTo(e))

Planned ==
    /\ scheduled => tokens # 0 /\ round[0] >= 2 /\ IsPlan
    /\ ~ scheduled => /\ offsets = [e \in 0..NumExperts |-> 0] /\ tiles = << >>
                      /\ cursors = [e \in Experts |-> 0]

\* The slots of local expert e that have their position.
Taken(e) == {i \in Slots : fetched[i] # -1 /\ LocalId(i) = e}

\* The positions drawn are those of the regions up to the cursors, each once.
ScatterRight ==
    /\ \A i \in Slots : fetched[i] # -1 =>
        /\ scheduled /\ round[Owner(i, Threads)] >= 3
        /\ i \in LiveSlots /\ LocalId(i) \in Experts
        /\ offsets[LocalId(i)] <= fetched[i] /\ fetched[i] < cursors[LocalId(i)]
    /\ \A i, j \in Slots : fetched[i] # -1 /\ fetched[i] = fetched[j] => i = j
    /\ scheduled => \A e \in Experts :
        /\ cursors[e] = offsets[e] + Cardinality(Taken(e))
        /\ \A p \in offsets[e]..(cursors[e] - 1) :
            \E i \in Slots : fetched[i] = p /\ LocalId(i) = e
    /\ \A i \in stored : fetched[i] # -1 /\ sorted[fetched[i]] = i

Right(i) == [launch |-> launch, expert |-> LocalId(i)]

\* The tiles that a block is through with have left the right cells.
TilesRight ==
    \A b \in Blocks :
        /\ nextTile[b] % Grid = b
        /\ round[b] < 4 => nextTile[b] = b
        /\ \A j \in DOMAIN tiles : j % Grid = b /\ j < nextTile[b] =>
            \A p \in RowsOf(tiles[j]) : partial[sorted[p]] = Right(sorted[p])

SumsRight == summed \subseteq LiveTokens /\ OutputExact

IInv ==
    /\ Types /\ BarrierHolds /\ RoundsDone /\ RoutingRight
    /\ Planned /\ ScatterRight /\ TilesRight /\ SumsRight

-----------------------------------------------------------------------------
(* What the invariant says at each round.                                    *)

LEMMA OwnerIn ==
  ASSUME NEW i \in Nat, NEW per \in Nat \ {0}
  PROVE  Owner(i, per) \in Blocks
<1> DEFINE G == Grid
           n == G * per
           w == i % n
           d == w \div per
<1>1. G \in Nat \ {0}
  BY KernelAssumption
<1>2. n \in Nat \ {0}
  BY <1>1, SMT
<1>3. w \in Nat /\ w < n
  <2> HIDE DEF n
  <2> QED BY <1>2, SMT
<1>4. d \in Nat /\ per * d <= w
  <2> HIDE DEF w
  <2> QED BY <1>3, DivBounds
<1>5. ASSUME G <= d PROVE FALSE
  <2>1. G * per <= d * per
    BY <1>1, <1>4, <1>5, ProductMonotone
  <2> DEFINE x == d * per
  <2>2. x = per * d /\ x \in Nat
    <3> HIDE DEF d
    <3> QED BY <1>4, SMT
  <2>3. n <= x /\ x <= w
    BY <1>4, <2>1, <2>2
  <2> HIDE DEF x, n, w
  <2> QED BY <1>2, <1>3, <2>2, <2>3, SMT
<1>6. d \in Blocks
  <2> HIDE DEF d
  <2> QED BY <1>1, <1>4, <1>5, SMT DEF Blocks, G
<1> QED BY <1>6 DEF Owner, Worker

LEMMA LiveFacts ==
  ASSUME tokens \in 0..MaxTokens
  PROVE  /\ LiveTokens \subseteq Tokens /\ Tokens \subseteq Nat
         /\ LiveSlots \subseteq Slots /\ Slots \subseteq Nat
         /\ LiveRows \subseteq Rows /\ Rows \subseteq Nat
         /\ tokens * TopK \in Nat /\ tokens * TopK <= MaxTokens * TopK
         /\ \A i \in Slots : i \div TopK \in Tokens
         /\ \A i \in Slots : i \in LiveSlots <=> i \div TopK \in LiveTokens
         /\ \A t \in LiveTokens : \A k \in 0..(KBlocks - 1) : t * KBlocks + k \in LiveRows
<1>1. /\ TopK \in Nat \ {0} /\ MaxTokens \in Nat \ {0} /\ KBlocks \in Nat \ {0}
      /\ tokens \in Nat /\ tokens <= MaxTokens
  BY KernelAssumption, SMT
<1>2. tokens * TopK \in Nat /\ tokens * TopK <= MaxTokens * TopK
  BY <1>1, ProductMonotone
<1>3. tokens * KBlocks \in Nat /\ tokens * KBlocks <= MaxTokens * KBlocks
  BY <1>1, ProductMonotone
<1>4. MaxTokens * TopK \in Nat /\ MaxTokens * KBlocks \in Nat
  BY <1>1, SMT
<1> DEFINE x == tokens * TopK
           y == tokens * KBlocks
           m == MaxTokens * TopK
           n == MaxTokens * KBlocks
<1>5. /\ LiveTokens = 0..(tokens - 1) /\ Tokens = 0..(MaxTokens - 1)
      /\ LiveSlots = 0..(x - 1) /\ Slots = 0..(m - 1)
      /\ LiveRows = 0..(y - 1) /\ Rows = 0..(n - 1)
  BY DEF LiveTokens, Tokens, LiveSlots, Slots, LiveRows, Rows
<1>6. x \in Nat /\ y \in Nat /\ m \in Nat /\ n \in Nat /\ x <= m /\ y <= n
  BY <1>2, <1>3, <1>4
<1>7. /\ LiveTokens \subseteq Tokens /\ Tokens \subseteq Nat
      /\ LiveSlots \subseteq Slots /\ Slots \subseteq Nat
      /\ LiveRows \subseteq Rows /\ Rows \subseteq Nat
  <2> HIDE DEF x, y, m, n
  <2> QED BY <1>1, <1>5, <1>6, SMT
<1>8. ASSUME NEW i \in Nat, NEW k \in Nat
      PROVE  i < k * TopK <=> i \div TopK < k
  <2> DEFINE d == i \div TopK
             z == k * TopK
             u == TopK * d
  <2>1. d \in Nat /\ u <= i /\ i < u + TopK
    BY <1>1, DivBounds
  <2> HIDE DEF d
  <2>2. z \in Nat /\ u \in Nat /\ u = d * TopK /\ (d + 1) * TopK = u + TopK
    BY <1>1, <2>1, SMT
  <2>3. CASE d < k
    <3>1. (d + 1) * TopK <= k * TopK
      BY <1>1, <2>1, <2>3, ProductMonotone
    <3>2. u + TopK <= z
      BY <2>2, <3>1
    <3> HIDE DEF u, z
    <3>3. i < z
      BY <1>1, <2>1, <2>2, <3>2, SMT
    <3> QED BY <2>3, <3>3 DEF d, z
  <2>4. CASE ~ (d < k)
    <3>1. k * TopK <= d * TopK
      BY <1>1, <2>1, <2>4, ProductMonotone
    <3>2. z <= u
      BY <2>2, <3>1
    <3> HIDE DEF u, z
    <3>3. ~ (i < z)
      BY <1>1, <2>1, <2>2, <3>2, SMT
    <3> QED BY <2>4, <3>3 DEF d, z
  <2> QED BY <2>3, <2>4
<1>9. ASSUME NEW i \in Slots
      PROVE  i \div TopK \in Tokens /\ (i \in LiveSlots <=> i \div TopK \in LiveTokens)
  <2>1. i \in Nat /\ i < m
    <3> HIDE DEF m
    <3> QED BY <1>5, <1>6, SMT
  <2>2. i \div TopK \in Nat
    BY <1>1, <2>1, DivBounds
  <2>3. i \div TopK < MaxTokens
    BY <1>1, <1>8, <2>1
  <2>4. i < x <=> i \div TopK < tokens
    BY <1>1, <1>8, <2>1
  <2> DEFINE d == i \div TopK
  <2> HIDE DEF x, m, d
  <2>5. d \in Tokens /\ (d \in LiveTokens <=> d < tokens)
    BY <1>1, <1>5, <2>2, <2>3, SMT DEF d
  <2>6. i \in LiveSlots <=> i < x
    BY <1>5, <1>6, <2>1, SMT
  <2> QED BY <2>4, <2>5, <2>6 DEF d
<1>10. ASSUME NEW t \in LiveTokens, NEW k \in 0..(KBlocks - 1)
       PROVE  t * KBlocks + k \in LiveRows
  <2>1. t \in Nat /\ t + 1 <= tokens /\ k \in Nat /\ k < KBlocks
    BY <1>1, <1>5, SMT
  <2>2. (t + 1) * KBlocks <= tokens * KBlocks
    BY <1>1, <2>1, ProductMonotone
  <2>3. (t + 1) * KBlocks = t * KBlocks + KBlocks /\ t * KBlocks \in Nat
    BY <1>1, <2>1, SMT
  <2> DEFINE a == t * KBlocks
  <2>4. a + KBlocks <= y /\ a \in Nat
    BY <2>2, <2>3
  <2> HIDE DEF a, y
  <2> QED BY <1>1, <1>5, <1>6, <2>1, <2>4, SMT DEF a
<1> QED BY <1>2, <1>7, <1>9, <1>10

LEMMA LocalFacts ==
  ASSUME logits \in Routings, NEW i \in Slots
  PROVE  LocalId(i) \in Experts \cup {-1} /\ -1 \notin Experts
<1>1. logits[i] \in Experts
  BY KernelAssumption
<1>2. -1 \notin Experts
  BY KernelAssumption, SMT DEF Experts
<1> QED BY <1>1, <1>2, KernelAssumption DEF LocalId

\* Past a barrier, every block has entered it and those before it.
LEMMA AllReached ==
  ASSUME round \in [Blocks -> 1..5], BarrierHolds,
         NEW b \in Blocks, NEW k \in 1..4, round[b] > k
  PROVE  \A c \in Blocks : GB!Reached(c, k)
<1> TAKE c \in Blocks
<1>1. GB!Reached(c, round[b] - 1)
  BY DEF BarrierHolds
<1>2. round[c] \in 1..5 /\ round[b] \in 1..5
  OBVIOUS
<1> QED BY <1>1, <1>2, SMT DEF GB!Reached

\* Past the first barrier every token is routed and every row is quantized.
LEMMA RoutedBefore ==
  ASSUME IInv, NEW b \in Blocks, round[b] >= 2
  PROVE  /\ routed = LiveTokens
         /\ \A q \in LiveRows : act[q] = launch
         /\ \A i \in LiveSlots : topkIds[i] = LocalId(i)
<1>1. round \in [Blocks -> 1..5] /\ tokens \in 0..MaxTokens
  BY DEF IInv, Types
<1>2. \A c \in Blocks : Phase0Done(c)
  <2>1. 1 \in 1..4 /\ round[b] > 1
    BY <1>1, SMT
  <2>2. \A c \in Blocks : GB!Reached(c, 1)
    BY <1>1, <2>1, AllReached DEF IInv
  <2> QED BY <2>2 DEF IInv, RoundsDone
<1>3. Warps \in Nat \ {0}
  BY KernelAssumption
<1>4. LiveTokens \subseteq Nat /\ LiveRows \subseteq Nat
  BY <1>1, LiveFacts
<1>5. \A t \in LiveTokens : t \in routed
  BY <1>2, <1>3, <1>4, OwnerIn DEF Phase0Done
<1>6. \A q \in LiveRows : act[q] = launch
  BY <1>2, <1>3, <1>4, OwnerIn DEF Phase0Done
<1>7. routed = LiveTokens
  BY <1>5 DEF IInv, RoutingRight
<1>8. \A i \in LiveSlots : topkIds[i] = LocalId(i)
  BY <1>1, <1>7, LiveFacts DEF IInv, RoutingRight
<1> QED BY <1>6, <1>7, <1>8

LEMMA SlotSets ==
  /\ IsFiniteSet(Slots) /\ Cardinality(Slots) = MaxTokens * TopK
  /\ \A S \in SUBSET Slots : IsFiniteSet(S) /\ Cardinality(S) \in Nat
                             /\ Cardinality(S) <= MaxTokens * TopK
<1> DEFINE m == MaxTokens * TopK
<1>1. m \in Nat
  BY KernelAssumption, SMT
<1>2. Slots = 0..(m - 1)
  BY DEF Slots
<1> HIDE DEF m
<1>3. 0 \in Int /\ m - 1 \in Int
  BY <1>1
<1>4. IsFiniteSet(0..(m - 1)) /\ Cardinality(0..(m - 1)) = IF 0 > m - 1 THEN 0 ELSE (m - 1) - 0 + 1
  BY <1>3, FS_Interval
<1>5. IsFiniteSet(Slots) /\ Cardinality(Slots) = m
  BY <1>1, <1>2, <1>4, SMT
<1>6. ASSUME NEW S \in SUBSET Slots
      PROVE  IsFiniteSet(S) /\ Cardinality(S) \in Nat /\ Cardinality(S) <= m
  BY <1>5, FS_Subset, FS_CardinalityType
<1> QED BY <1>5, <1>6 DEF m

\* Once every token is routed the histogram counts the slots to serve.
LEMMA CountsFinal ==
  ASSUME IInv, routed = LiveTokens
  PROVE  /\ \A e \in Experts : RoutedTo(e) = {i \in ToServe : LocalId(i) = e}
         /\ Offset(NumExperts) = Cardinality(ToServe)
         /\ Cardinality(ToServe) <= tokens * TopK
<1> DEFINE Upto(n) == {i \in ToServe : LocalId(i) \in 0..(n - 1)}
           T == {n \in Nat : n <= NumExperts => Offsets[n] = Cardinality(Upto(n))}
<1>1. /\ tokens \in 0..MaxTokens /\ logits \in Routings /\ counts \in [Experts -> Nat]
  BY DEF IInv, Types
<1>2. ToServe \subseteq LiveSlots /\ LiveSlots \subseteq Slots
  BY <1>1, LiveFacts DEF ToServe
<1>3. ASSUME NEW e \in Experts PROVE RoutedTo(e) = {i \in ToServe : LocalId(i) = e}
  <2>1. -1 \notin Experts
    BY KernelAssumption, SMT DEF Experts
  <2> QED BY <1>1, <1>2, <2>1, LiveFacts DEF RoutedTo, ToServe
<1>4. /\ NumExperts \in Nat /\ Experts = 0..(NumExperts - 1)
      /\ FirstSums(counts, NumExperts, Offsets)
  BY <1>1, PlanSums
<1>5. 0 \in T
  <2>1. Upto(0) = {}
    <3>1. 0..(0 - 1) = {}
      BY SMT
    <3> QED BY <3>1
  <2>2. Cardinality(Upto(0)) = 0
    BY <2>1, FS_EmptySet
  <2>3. Offsets[0] = 0
    BY <1>4 DEF FirstSums
  <2> HIDE DEF Upto
  <2> QED BY <2>2, <2>3
<1>6. ASSUME NEW n \in T PROVE n + 1 \in T
  <2> SUFFICES ASSUME n + 1 <= NumExperts PROVE Offsets[n + 1] = Cardinality(Upto(n + 1))
    BY <1>6
  <2>1. n \in Nat /\ n <= NumExperts /\ n \in 0..(NumExperts - 1) /\ n \in Experts
    BY <1>4, SMT
  <2>2. Offsets[n + 1] = Offsets[n] + counts[n]
    BY <1>4, <2>1 DEF FirstSums
  <2>3. Offsets[n] = Cardinality(Upto(n))
    BY <2>1
  <2>4. counts[n] = Cardinality(RoutedTo(n))
    BY <2>1 DEF IInv, RoutingRight
  <2>5. 0..((n + 1) - 1) = (0..(n - 1)) \cup {n} /\ n \notin 0..(n - 1)
    BY <2>1, SMT
  <2>6. Upto(n + 1) = Upto(n) \cup RoutedTo(n) /\ Upto(n) \cap RoutedTo(n) = {}
    BY <1>3, <2>1, <2>5
  <2>7. Upto(n) \in SUBSET Slots /\ RoutedTo(n) \in SUBSET Slots
    BY <1>2 DEF RoutedTo
  <2> HIDE DEF Upto
  <2>8. /\ IsFiniteSet(Upto(n)) /\ Cardinality(Upto(n)) \in Nat
        /\ IsFiniteSet(RoutedTo(n)) /\ Cardinality(RoutedTo(n)) \in Nat
    BY <2>7, SlotSets
  <2>9. Cardinality(Upto(n) \cup RoutedTo(n))
          = Cardinality(Upto(n)) + Cardinality(RoutedTo(n)) - Cardinality(Upto(n) \cap RoutedTo(n))
    BY <2>8, FS_Union
  <2>10. Cardinality(Upto(n) \cap RoutedTo(n)) = 0
    BY <2>6, FS_EmptySet
  <2> DEFINE a == Cardinality(Upto(n))
             c == Cardinality(RoutedTo(n))
             d == Cardinality(Upto(n) \cap RoutedTo(n))
             s == Cardinality(Upto(n + 1))
  <2>11. a \in Nat /\ c \in Nat /\ d = 0 /\ s = a + c - d
    BY <2>6, <2>8, <2>9, <2>10
  <2>12. Offsets[n + 1] = a + c
    BY <2>2, <2>3, <2>4
  <2>13. s = a + c
    <3> HIDE DEF a, c, d, s
    <3> QED BY <2>11, SMT
  <2> QED BY <2>12, <2>13
<1>7. T = Nat
  <2>1. T \subseteq Nat
    OBVIOUS
  <2> HIDE DEF T
  <2> QED BY <1>5, <1>6, <2>1, SetInduction
<1>8. Offsets[NumExperts] = Cardinality(Upto(NumExperts))
  BY <1>4, <1>7
<1>9. Upto(NumExperts) = ToServe
  <2>1. \A i \in ToServe : LocalId(i) \in Experts
    BY <1>1, <1>2, LocalFacts DEF ToServe
  <2> QED BY <1>4, <2>1
<1>10. Offsets[NumExperts] = Offset(NumExperts)
  BY <1>4, SMT DEF Offsets
<1>11. Cardinality(ToServe) <= tokens * TopK
  <2> DEFINE x == tokens * TopK
  <2>1. x \in Nat /\ LiveSlots = 0..(x - 1)
    BY <1>1, LiveFacts DEF LiveSlots
  <2> HIDE DEF x
  <2>2. 0 \in Int /\ x - 1 \in Int
    BY <2>1
  <2>3. IsFiniteSet(0..(x - 1))
        /\ Cardinality(0..(x - 1)) = IF 0 > x - 1 THEN 0 ELSE (x - 1) - 0 + 1
    BY <2>2, FS_Interval
  <2>4. Cardinality(LiveSlots) = x /\ IsFiniteSet(LiveSlots)
    BY <2>1, <2>3, SMT
  <2>5. ToServe \in SUBSET LiveSlots
    BY <1>2
  <2>6. Cardinality(ToServe) <= x
    BY <2>4, <2>5, FS_Subset
  <2> QED BY <2>6 DEF x
<1> QED BY <1>3, <1>8, <1>9, <1>10, <1>11

\* A schedule is made only when every token is routed.
LEMMA WhenScheduled ==
  ASSUME IInv, scheduled
  PROVE  /\ IsPlan /\ counts \in [Experts -> Nat] /\ routed = LiveTokens
         /\ tokens # 0 /\ Accepts(tokens) /\ 0 \in Blocks /\ round[0] >= 2
<1>1. 0 \in Blocks
  BY KernelAssumption, SMT DEF Blocks
<1>2. IsPlan /\ tokens # 0 /\ round[0] >= 2
  BY DEF IInv, Planned
<1>3. routed = LiveTokens
  BY <1>1, <1>2, RoutedBefore
<1> QED BY <1>1, <1>2, <1>3 DEF IInv, Types, BarrierHolds

\* A cursor keeps to the region of its expert, and stays below its end while a
\* slot of the expert has no position.
LEMMA CursorFacts ==
  ASSUME IInv, scheduled, NEW e \in Experts
  PROVE  /\ Taken(e) \subseteq RoutedTo(e)
         /\ cursors[e] \in Nat /\ offsets[e] \in Nat /\ offsets[e + 1] \in Nat
         /\ offsets[e] <= cursors[e] /\ cursors[e] <= offsets[e + 1]
         /\ Region(e) \subseteq LiveSlots
         /\ \A i \in RoutedTo(e) \ Taken(e) : cursors[e] < offsets[e + 1]
         /\ Taken(e) = RoutedTo(e) => cursors[e] = offsets[e + 1]
<1>1. IsPlan /\ counts \in [Experts -> Nat] /\ routed = LiveTokens
  BY WhenScheduled
<1>2. tokens \in 0..MaxTokens
  BY DEF IInv, Types
<1>3. Taken(e) \subseteq RoutedTo(e)
  BY <1>1, <1>2, LiveFacts DEF IInv, ScatterRight, Taken, RoutedTo
<1>4. /\ offsets[e] \in Nat /\ offsets[e + 1] \in Nat /\ offsets[e + 1] = offsets[e] + counts[e]
      /\ offsets[e + 1] <= offsets[NumExperts] /\ offsets[NumExperts] \in Nat
  BY <1>1, OffsetFacts
<1>5. counts[e] = Cardinality(RoutedTo(e)) /\ cursors[e] = offsets[e] + Cardinality(Taken(e))
  BY DEF IInv, RoutingRight, ScatterRight
<1>6. RoutedTo(e) \in SUBSET Slots /\ Taken(e) \in SUBSET Slots
  BY DEF RoutedTo, Taken
<1>7. /\ IsFiniteSet(RoutedTo(e)) /\ Cardinality(RoutedTo(e)) \in Nat
      /\ IsFiniteSet(Taken(e)) /\ Cardinality(Taken(e)) \in Nat
  BY <1>6, SlotSets
<1>8. Cardinality(Taken(e)) <= Cardinality(RoutedTo(e))
  BY <1>3, <1>7, FS_Subset
<1> DEFINE a == Cardinality(Taken(e))
           c == Cardinality(RoutedTo(e))
<1>9. /\ a \in Nat /\ c \in Nat /\ a <= c
      /\ cursors[e] = offsets[e] + a /\ offsets[e + 1] = offsets[e] + c
  BY <1>4, <1>5, <1>7, <1>8
<1>10. ASSUME NEW i \in RoutedTo(e) \ Taken(e) PROVE a < c
  <2>1. a # c
    BY <1>3, <1>7, <1>10, FS_Subset
  <2> HIDE DEF a, c
  <2> QED BY <1>9, <2>1, SMT
<1>11. Region(e) \subseteq LiveSlots
  <2>1. offsets[NumExperts] = Offset(NumExperts)
    <3>1. NumExperts \in 0..NumExperts
      BY KernelAssumption, SMT
    <3> QED BY <1>1, <3>1 DEF IsPlan, Offsets
  <2>2. offsets[NumExperts] <= tokens * TopK
    BY <1>1, <2>1, CountsFinal, <1>4, <1>2, LiveFacts, SlotSets
  <2> DEFINE x == tokens * TopK
  <2>3. x \in Nat /\ LiveSlots = 0..(x - 1)
    BY <1>2, LiveFacts DEF LiveSlots
  <2> HIDE DEF x
  <2> QED BY <1>4, <2>2, <2>3, SMT DEF Region, x
<1>12. a = c => cursors[e] = offsets[e + 1]
  BY <1>9
<1>13. offsets[e] <= cursors[e] /\ cursors[e] <= offsets[e + 1] /\ cursors[e] \in Nat
  <2> HIDE DEF a, c
  <2> QED BY <1>4, <1>9, SMT
<1>14. a < c => cursors[e] < offsets[e + 1]
  <2> HIDE DEF a, c
  <2> QED BY <1>4, <1>9, SMT
<1> QED BY <1>3, <1>4, <1>10, <1>11, <1>12, <1>13, <1>14

\* Past the third barrier every owned slot is in the sorted list, once.
LEMMA ScatteredBefore ==
  ASSUME IInv, tokens # 0, NEW b \in Blocks, round[b] >= 4
  PROVE  /\ scheduled /\ ToServe \subseteq stored
         /\ \A e \in Experts : \A p \in Region(e) :
                p \in Slots /\ sorted[p] \in ToServe /\ LocalId(sorted[p]) = e
<1>1. /\ round \in [Blocks -> 1..5] /\ tokens \in 0..MaxTokens /\ logits \in Routings
      /\ BarrierHolds
  BY DEF IInv, Types
<1>2. round[b] > 2 /\ round[b] > 3 /\ round[b] >= 2 /\ 2 \in 1..4 /\ 3 \in 1..4 /\ 0 \in Blocks
  <2>1. Grid \in Nat \ {0}
    BY KernelAssumption
  <2>2. round[b] \in 1..5
    BY <1>1
  <2> QED BY <2>1, <2>2, SMT DEF Blocks
<1>3. \A c \in Blocks : GB!Reached(c, 2) /\ GB!Reached(c, 3)
  BY <1>1, <1>2, AllReached
<1>4. scheduled
  BY <1>2, <1>3 DEF IInv, RoundsDone
<1>5. \A c \in Blocks : ScatterDone(c)
  BY <1>3 DEF IInv, RoundsDone
<1>6. \A i \in LiveSlots : topkIds[i] = LocalId(i)
  BY <1>2, RoutedBefore
<1>7. LiveSlots \subseteq Slots /\ Slots \subseteq Nat /\ Threads \in Nat \ {0}
  BY <1>1, LiveFacts, KernelAssumption
<1>8. ASSUME NEW i \in ToServe PROVE i \in stored
  <2>1. i \in LiveSlots /\ LocalId(i) \in Experts
    BY <1>1, <1>7, LocalFacts DEF ToServe
  <2>2. Owned(i)
    <3>1. LocalId(i) >= 0
      BY <2>1, SMT DEF Experts
    <3> QED BY <1>6, <2>1, <3>1 DEF Owned
  <2>3. Owner(i, Threads) \in Blocks
    BY <1>7, <2>1, OwnerIn
  <2> QED BY <1>5, <2>1, <2>2, <2>3 DEF ScatterDone
<1>9. ASSUME NEW e \in Experts, NEW p \in Region(e)
      PROVE  p \in Slots /\ sorted[p] \in ToServe /\ LocalId(sorted[p]) = e
  <2>1. routed = LiveTokens
    BY <1>4, WhenScheduled
  <2>2. RoutedTo(e) = {i \in ToServe : LocalId(i) = e}
    BY <2>1, CountsFinal
  <2>3. ToServe \subseteq Slots
    BY <1>7 DEF ToServe
  <2>4. Taken(e) = RoutedTo(e)
    <3>1. \A i \in ToServe : fetched[i] # -1
      BY <1>8 DEF IInv, ScatterRight
    <3>2. RoutedTo(e) \subseteq Taken(e)
      BY <2>2, <2>3, <3>1 DEF Taken
    <3> QED BY <1>4, <3>2, CursorFacts
  <2>5. Region(e) = offsets[e]..(cursors[e] - 1) /\ Region(e) \subseteq LiveSlots
    BY <1>4, <2>4, CursorFacts DEF Region
  <2>6. PICK i \in Slots : fetched[i] = p /\ LocalId(i) = e
    BY <1>4, <2>5 DEF IInv, ScatterRight
  <2>7. p \in Slots /\ p # -1
    <3>1. p \in Slots /\ p \in Nat
      BY <1>7, <2>5
    <3> QED BY <3>1, SMT
  <2>8. i \in ToServe
    BY <2>2, <2>4, <2>6, <2>7 DEF Taken
  <2>9. sorted[p] = i
    BY <1>8, <2>6, <2>8 DEF IInv, ScatterRight
  <2> QED BY <2>6, <2>7, <2>8, <2>9
<1> QED BY <1>4, <1>8, <1>9

\* Past the last barrier the cell of every owned slot is right.
LEMMA CellsRight ==
  ASSUME IInv, tokens # 0, NEW b \in Blocks, round[b] = 5
  PROVE  \A i \in ToServe : partial[i] = Right(i)
<1>1. /\ round \in [Blocks -> 1..5] /\ tokens \in 0..MaxTokens /\ logits \in Routings
      /\ nextTile \in [Blocks -> Nat] /\ fetched \in [Slots -> Slots \cup {-1}] /\ BarrierHolds
  BY DEF IInv, Types
<1>2. round[b] > 4 /\ round[b] >= 4 /\ 4 \in 1..4
  BY SMT
<1>3. \A c \in Blocks : nextTile[c] >= TotalTiles
  BY <1>1, <1>2, AllReached DEF IInv, RoundsDone
<1>4. scheduled /\ ToServe \subseteq stored
  BY <1>2, ScatteredBefore
<1>5. IsPlan /\ counts \in [Experts -> Nat]
  BY <1>4, WhenScheduled
<1>6. DOMAIN tiles = 0..(TileBase(NumExperts) - 1) /\ TileBase(NumExperts) \in Nat
      /\ TotalTiles = TileBase(NumExperts)
  BY <1>5, TileFacts
<1>7. ASSUME NEW j \in DOMAIN tiles, NEW p \in RowsOf(tiles[j])
      PROVE  partial[sorted[p]] = Right(sorted[p])
  <2>1. j \in Nat /\ j < TotalTiles /\ TotalTiles \in Nat
    BY <1>6, SMT
  <2>2. j % Grid \in Blocks
    <3>1. Grid \in Nat \ {0}
      BY KernelAssumption
    <3> QED BY <2>1, <3>1, SMT DEF Blocks
  <2>3. j < nextTile[j % Grid]
    <3>1. nextTile[j % Grid] \in Nat /\ nextTile[j % Grid] >= TotalTiles
      BY <1>1, <1>3, <2>2
    <3> QED BY <2>1, <3>1, SMT
  <2> QED BY <2>2, <2>3 DEF IInv, TilesRight
<1>8. ASSUME NEW i \in ToServe PROVE partial[i] = Right(i)
  <2>1. fetched[i] # -1 /\ sorted[fetched[i]] = i
    BY <1>4 DEF IInv, ScatterRight
  <2>2. i \in Slots
    BY <1>1, LiveFacts DEF ToServe
  <2> DEFINE e == LocalId(i)
             p == fetched[i]
  <2>3. e \in Experts /\ offsets[e] <= p /\ p < cursors[e] /\ p \in Slots
    BY <1>1, <2>1, <2>2 DEF IInv, ScatterRight
  <2>4. p \in Region(e)
    <3>1. /\ cursors[e] <= offsets[e + 1] /\ cursors[e] \in Nat
          /\ offsets[e] \in Nat /\ offsets[e + 1] \in Nat
      BY <1>4, <2>3, CursorFacts
    <3>2. p \in Nat
      BY <1>1, <2>3, LiveFacts
    <3> HIDE DEF p, e
    <3> QED BY <2>3, <3>1, <3>2, SMT DEF Region
  <2> HIDE DEF e
  <2>5. PICK j \in DOMAIN tiles : p \in RowsOf(tiles[j])
    BY <1>5, <2>3, <2>4, TilingRight
  <2> QED BY <1>7, <2>1, <2>5
<1> QED BY <1>8

-----------------------------------------------------------------------------
(* What the invariant implies.                                               *)

\* Under a schedule, the rows end where the slots to serve do.
LEMMA RowsEnd ==
  ASSUME IInv, scheduled
  PROVE  /\ offsets[NumExperts] = Cardinality(ToServe)
         /\ offsets[NumExperts] \in Nat /\ offsets[NumExperts] <= tokens * TopK
         /\ \A p \in Nat : p < offsets[NumExperts] => p \in LiveSlots
<1>1. IsPlan /\ counts \in [Experts -> Nat] /\ routed = LiveTokens
  BY WhenScheduled
<1>2. tokens \in 0..MaxTokens
  BY DEF IInv, Types
<1>3. offsets[NumExperts] = Offset(NumExperts)
  <2>1. NumExperts \in 0..NumExperts
    BY KernelAssumption, SMT
  <2> QED BY <1>1, <2>1 DEF IsPlan, Offsets
<1>4. offsets[NumExperts] \in Nat
  BY <1>1, OffsetFacts
<1>5. offsets[NumExperts] = Cardinality(ToServe) /\ offsets[NumExperts] <= tokens * TopK
  BY <1>1, <1>3, CountsFinal
<1>6. ASSUME NEW p \in Nat, p < offsets[NumExperts] PROVE p \in LiveSlots
  <2> DEFINE x == tokens * TopK
  <2>1. x \in Nat /\ LiveSlots = 0..(x - 1) /\ offsets[NumExperts] <= x
    BY <1>2, <1>5, LiveFacts DEF LiveSlots
  <2> HIDE DEF x
  <2> QED BY <1>4, <1>6, <2>1, SMT
<1> QED BY <1>4, <1>5, <1>6

LEMMA TypesFollow ==
  ASSUME IInv
  PROVE  TypeOK
<1> DEFINE m == MaxTokens * TopK
<1>1. Types /\ tokens \in 0..MaxTokens
  BY DEF IInv, Types
<1>2. m \in Nat /\ tokens * TopK \in Nat /\ tokens * TopK <= m /\ LiveSlots \subseteq Slots
  <2>1. m \in Nat
    BY KernelAssumption, SMT
  <2> QED BY <1>1, <2>1, LiveFacts
<1>3. counts \in [Experts -> 0..m]
  <2>1. ASSUME NEW e \in Experts PROVE counts[e] \in 0..m
    <3>1. RoutedTo(e) \in SUBSET Slots
      BY DEF RoutedTo
    <3>2. counts[e] \in Nat /\ counts[e] <= m
      BY <3>1, SlotSets DEF IInv, RoutingRight
    <3> HIDE DEF m
    <3> QED BY <1>2, <3>2, SMT
  <2> HIDE DEF m
  <2> QED BY <1>1, <2>1 DEF Types
<1>4. CASE scheduled
  <2>1. IsPlan /\ counts \in [Experts -> Nat]
    BY <1>4, WhenScheduled
  <2>2. /\ NumExperts \in Nat /\ Experts = 0..(NumExperts - 1)
        /\ counts \in [0..(NumExperts - 1) -> Nat]
        /\ FirstSums(counts, NumExperts, offsets)
    BY <2>1, PlanSums DEF IsPlan
  <2>3. /\ offsets[NumExperts] \in Nat /\ offsets[NumExperts] <= m
        /\ \A p \in Nat : p < offsets[NumExperts] => p \in Slots
    <3>1. offsets[NumExperts] \in Nat /\ offsets[NumExperts] <= tokens * TopK
      BY <1>4, RowsEnd
    <3> DEFINE x == tokens * TopK
    <3>2. x \in Nat /\ x <= m /\ offsets[NumExperts] <= x
      BY <1>2, <3>1
    <3> HIDE DEF m, x
    <3>3. offsets[NumExperts] <= m
      BY <1>2, <3>1, <3>2, SMT
    <3> QED BY <1>2, <1>4, <3>1, <3>3, RowsEnd
  <2>4. offsets \in [0..NumExperts -> 0..m]
    <3>1. offsets \in [0..NumExperts -> Nat]
      BY <2>2 DEF FirstSums
    <3>2. ASSUME NEW e \in 0..NumExperts PROVE offsets[e] \in 0..m
      <4>1. NumExperts \in 0..NumExperts /\ e <= NumExperts
        BY <2>2, SMT
      <4>2. offsets[e] <= offsets[NumExperts]
        BY <2>2, <4>1, SumsGrow
      <4>3. offsets[e] \in Nat
        BY <3>1
      <4> HIDE DEF m
      <4> QED BY <1>2, <2>3, <4>2, <4>3, SMT
    <3> HIDE DEF m
    <3> QED BY <3>1, <3>2
  <2>5. cursors \in [Experts -> 0..m]
    <3>1. ASSUME NEW e \in Experts PROVE cursors[e] \in 0..m
      <4>1. cursors[e] \in Nat /\ cursors[e] <= offsets[e + 1] /\ offsets[e + 1] \in Nat
        BY <1>4, CursorFacts
      <4>2. offsets[e + 1] <= offsets[NumExperts]
        BY <2>1, OffsetFacts
      <4> HIDE DEF m
      <4> QED BY <1>2, <2>3, <4>1, <4>2, SMT
    <3> HIDE DEF m
    <3> QED BY <1>1, <3>1 DEF Types
  <2>6. \A i \in DOMAIN tiles : tiles[i].expert \in Experts /\ tiles[i].row0 \in Slots
    BY <2>1, <2>3, TilingRight
  <2> QED BY <1>1, <1>3, <2>4, <2>5, <2>6 DEF TypeOK, Types
<1>5. CASE ~ scheduled
  <2>1. /\ offsets = [e \in 0..NumExperts |-> 0] /\ tiles = << >>
        /\ cursors = [e \in Experts |-> 0]
    BY <1>5 DEF IInv, Planned
  <2>2. 0 \in 0..m /\ DOMAIN tiles = {}
    <3> HIDE DEF m
    <3> QED BY <1>2, <2>1, SMT
  <2>3. offsets \in [0..NumExperts -> 0..m] /\ cursors \in [Experts -> 0..m]
    <3> HIDE DEF m
    <3> QED BY <2>1, <2>2
  <2> QED BY <1>1, <1>3, <2>2, <2>3 DEF TypeOK, Types
<1> QED BY <1>4, <1>5

LEMMA ScatterFollows ==
  ASSUME IInv
  PROVE  ScatterInRegion
<1>1. /\ tokens \in 0..MaxTokens /\ logits \in Routings
      /\ fetched \in [Slots -> Slots \cup {-1}]
  BY DEF IInv, Types
<1>2. ASSUME NEW i \in Slots, fetched[i] # -1
      PROVE  /\ i \in ToServe
             /\ fetched[i] \in offsets[LocalId(i)]..(offsets[LocalId(i) + 1] - 1)
  <2> DEFINE e == LocalId(i)
             p == fetched[i]
  <2>1. /\ scheduled /\ i \in LiveSlots /\ e \in Experts
        /\ offsets[e] <= p /\ p < cursors[e]
    BY <1>2 DEF IInv, ScatterRight
  <2>2. p \in Nat /\ e # -1
    <3>1. -1 \notin Experts
      BY <1>1, LocalFacts
    <3>2. p \in Slots
      BY <1>1, <1>2
    <3> QED BY <1>1, <2>1, <3>1, <3>2, LiveFacts
  <2>3. /\ cursors[e] \in Nat /\ offsets[e] \in Nat /\ offsets[e + 1] \in Nat
        /\ cursors[e] <= offsets[e + 1]
    BY <2>1, CursorFacts
  <2>4. p \in offsets[e]..(offsets[e + 1] - 1)
    <3> HIDE DEF p, e
    <3> QED BY <2>1, <2>2, <2>3, SMT
  <2> QED BY <2>1, <2>2, <2>4 DEF ToServe
<1>3. \A i, j \in Slots : fetched[i] # -1 /\ fetched[i] = fetched[j] => i = j
  BY DEF IInv, ScatterRight
<1> QED BY <1>2, <1>3 DEF ScatterInRegion

\* Every row below the last offset is in the region of an expert.
LEMMA RegionsCover ==
  ASSUME counts \in [Experts -> Nat], IsPlan, NEW p \in Nat, p < offsets[NumExperts]
  PROVE  \E e \in Experts : p \in Region(e)
<1> DEFINE N == NumExperts
           f == counts
           s == offsets
<1>1. N \in Nat /\ f \in [0..(N - 1) -> Nat]
  BY PlanSums
<1>2. FirstSums(f, N, s) /\ p < s[N]
  BY PlanSums DEF IsPlan
<1>3. PICK e \in 0..(N - 1) : s[e] <= p /\ p < s[e] + f[e]
  <2> HIDE DEF N, f, s
  <2> QED BY <1>1, <1>2, SumsCover
<1>4. e \in Experts
  BY PlanSums
<1>5. offsets[e] \in Nat /\ offsets[e + 1] \in Nat /\ offsets[e + 1] = offsets[e] + counts[e]
  BY <1>4, OffsetFacts
<1>6. p < offsets[e + 1]
  BY <1>3, <1>5
<1>7. p \in Region(e)
  BY <1>3, <1>5, <1>6, SMT DEF Region
<1> QED BY <1>4, <1>7

LEMMA TilesFollow ==
  ASSUME IInv
  PROVE  TilesPartitionRows
<1> SUFFICES ASSUME scheduled
             PROVE  /\ TotalTiles <= MaxTiles
                    /\ \A i \in DOMAIN tiles : RowsOf(tiles[i]) \subseteq
                            offsets[tiles[i].expert]..(offsets[tiles[i].expert + 1] - 1)
                    /\ \A p \in 0..(Cardinality(ToServe) - 1) :
                            Cardinality({i \in DOMAIN tiles : p \in RowsOf(tiles[i])}) = 1
  BY DEF TilesPartitionRows
<1>1. IsPlan /\ counts \in [Experts -> Nat] /\ Accepts(tokens)
  BY WhenScheduled
<1>2. tokens \in 0..MaxTokens
  BY DEF IInv, Types
<1>3. offsets[NumExperts] = Cardinality(ToServe) /\ offsets[NumExperts] <= tokens * TopK
      /\ offsets[NumExperts] \in Nat
  BY RowsEnd
<1>4. TotalTiles <= MaxTiles
  <2>1. tokens * TopK \in Nat
    BY <1>2, LiveFacts
  <2>2. Offset(NumExperts) = offsets[NumExperts]
    <3>1. NumExperts \in 0..NumExperts
      BY KernelAssumption, SMT
    <3> QED BY <1>1, <3>1 DEF IsPlan, Offsets
  <2>3. TileBase(NumExperts) <= (tokens * TopK) \div BlockM + NumExperts
    BY <1>1, <1>3, <2>1, <2>2, TilesBounded
  <2>4. TotalTiles = TileBase(NumExperts) /\ TileBase(NumExperts) \in Nat
    BY <1>1, TileFacts
  <2> DEFINE d == (tokens * TopK) \div BlockM
             b == TileBase(NumExperts)
  <2>5. d \in Nat /\ d + NumExperts <= MaxTiles /\ b <= d + NumExperts /\ b \in Nat
    <3>1. d \in Nat
      BY <2>1, KernelAssumption, DivBounds
    <3> QED BY <1>1, <2>3, <2>4, <3>1 DEF Accepts
  <2>6. NumExperts \in Nat /\ MaxTiles \in Nat
    BY KernelAssumption
  <2>7. b <= MaxTiles
    <3> HIDE DEF d, b
    <3> QED BY <2>5, <2>6, SMT
  <2> QED BY <2>4, <2>7
<1>5. ASSUME NEW i \in DOMAIN tiles
      PROVE  RowsOf(tiles[i]) \subseteq offsets[tiles[i].expert]..(offsets[tiles[i].expert + 1] - 1)
  BY <1>1, TilingRight DEF Region
<1>6. ASSUME NEW p \in 0..(Cardinality(ToServe) - 1)
      PROVE  Cardinality({i \in DOMAIN tiles : p \in RowsOf(tiles[i])}) = 1
  <2>1. p \in Nat /\ p < offsets[NumExperts]
    BY <1>3, SMT
  <2>4. PICK e \in Experts : p \in Region(e)
    BY <1>1, <2>1, RegionsCover
  <2>5. PICK j \in DOMAIN tiles : p \in RowsOf(tiles[j])
    BY <1>1, <2>4, TilingRight
  <2>6. \A i \in DOMAIN tiles : p \in RowsOf(tiles[i]) => i = j
    BY <1>1, <2>5, TilingRight
  <2>7. {i \in DOMAIN tiles : p \in RowsOf(tiles[i])} = {j}
    BY <2>5, <2>6
  <2> QED BY <2>7, FS_Singleton
<1> QED BY <1>4, <1>5, <1>6

LEMMA InvariantGivesAll ==
  ASSUME IInv
  PROVE  ScheduleRight /\ OutputExact
BY TypesFollow, ScatterFollows, TilesFollow DEF ScheduleRight, IInv, SumsRight

-----------------------------------------------------------------------------
(* The invariant holds first, and after a launch.                            *)

LEMMA NoTiles ==
  ASSUME tiles = << >>
  PROVE  DOMAIN tiles = {} /\ TotalTiles = 0
<1>1. DOMAIN tiles = {}
  BY SMT
<1> QED BY <1>1, FS_EmptySet DEF TotalTiles

\* Before any position is drawn there is nothing to say of the scatter.
LEMMA NothingTaken ==
  ASSUME ~ scheduled, fetched = [i \in Slots |-> -1], stored = {}
  PROVE  ScatterRight
BY DEF ScatterRight

LEMMA NothingRouted ==
  ASSUME routed = {}, counts = [e \in Experts |-> 0]
  PROVE  RoutingRight
<1>1. \A e \in Experts : RoutedTo(e) = {}
  BY DEF RoutedTo
<1>2. \A e \in Experts : counts[e] = Cardinality(RoutedTo(e))
  BY <1>1, FS_EmptySet
<1> QED BY <1>2 DEF RoutingRight

LEMMA FirstTiles ==
  ASSUME nextTile = [b \in Blocks |-> b], tiles = << >>
  PROVE  TilesRight
<1>1. DOMAIN tiles = {}
  BY NoTiles
<1>2. \A b \in Blocks : b % Grid = b /\ nextTile[b] = b
  <2>1. Grid \in Nat \ {0}
    BY KernelAssumption
  <2>2. ASSUME NEW b \in Blocks PROVE b % Grid = b
    BY <2>1, SMT DEF Blocks
  <2> QED BY <2>2
<1> QED BY <1>1, <1>2 DEF TilesRight

LEMMA BlocksIn ==
  /\ Grid \in Nat \ {0} /\ Blocks \subseteq Nat /\ 0 \in Blocks
  /\ \A b \in Blocks : GB!Group(b) = Blocks
<1>1. Grid \in Nat \ {0}
  BY KernelAssumption
<1>2. Blocks \subseteq Nat /\ 0 \in Blocks
  BY <1>1, SMT DEF Blocks
<1> QED BY <1>1, <1>2 DEF GB!Group

LEMMA InitHolds ==
  ASSUME Init
  PROVE  IInv
<1>1. /\ launch = 0 /\ tokens = 0 /\ logits \in Routings /\ routed = {}
      /\ act = [q \in Rows |-> 0] /\ topkIds = [i \in Slots |-> 0]
      /\ counts = [e \in Experts |-> 0] /\ scheduled = FALSE
      /\ offsets = [e \in 0..NumExperts |-> 0] /\ tiles = << >>
      /\ cursors = [e \in Experts |-> 0] /\ fetched = [i \in Slots |-> -1]
      /\ stored = {} /\ sorted = [p \in Slots |-> 0]
      /\ nextTile = [b \in Blocks |-> b] /\ partial = [i \in Slots |-> NoCell]
      /\ summed = {} /\ output = [t \in Tokens |-> {}]
      /\ round = [b \in Blocks |-> 4 + 1] /\ inside = {}
  BY DEF Init, GB!Init
<1>2. Types
  <2>1. round \in [Blocks -> 1..5] /\ inside \subseteq Blocks /\ nextTile \in [Blocks -> Nat]
    <3>1. 4 + 1 \in 1..5
      BY SMT
    <3> QED BY <1>1, <3>1, BlocksIn
  <2>2. 0 \in 0..MaxLaunches /\ 0 \in 0..MaxTokens
    <3>1. MaxLaunches \in Nat /\ MaxTokens \in Nat
      BY KernelAssumption
    <3> QED BY <3>1, SMT
  <2>3. act \in [Rows -> 0..MaxLaunches]
    BY <1>1, <2>2
  <2>4. 0 \in Experts
    <3>1. NumExperts \in Nat \ {0}
      BY KernelAssumption
    <3> QED BY <3>1, SMT DEF Experts
  <2>5. counts \in [Experts -> Nat] /\ cursors \in [Experts -> Nat]
    BY <1>1
  <2>6. topkIds \in [Slots -> Experts \cup {-1}] /\ fetched \in [Slots -> Slots \cup {-1}]
    BY <1>1, <2>4
  <2>7. sorted \in [Slots -> Slots]
    <3>1. \A p \in Slots : 0 \in Slots
      <4>1. MaxTokens * TopK \in Nat
        BY KernelAssumption, SMT
      <4> DEFINE m == MaxTokens * TopK
      <4> HIDE DEF m
      <4> QED BY <4>1, SMT DEF Slots, m
    <3> QED BY <1>1, <3>1
  <2>8. partial \in [Slots -> Cells]
    BY <1>1, <2>2 DEF NoCell, Cells
  <2>9. /\ output \in [Tokens -> SUBSET (Slots \X Cells)]
        /\ \A t \in Tokens : output[t] \subseteq SlotsOf(t) \X Cells
    BY <1>1
  <2> QED BY <1>1, <2>1, <2>2, <2>3, <2>5, <2>6, <2>7, <2>8, <2>9 DEF Types
<1>3. round \in [Blocks -> 1..5] /\ \A b \in Blocks : round[b] = 5
  BY <1>1, <1>2, SMT DEF Types
<1>4. BarrierHolds
  <2>1. \A b, c \in Blocks : GB!Reached(c, round[b] - 1)
    <3>1. 5 > 5 - 1
      BY SMT
    <3> QED BY <1>3, <3>1 DEF GB!Reached
  <2> QED BY <1>1, <1>3, <2>1 DEF BarrierHolds
<1>5. LiveTokens = {} /\ LiveRows = {} /\ LiveSlots = {}
  <2>1. 0 * KBlocks = 0 /\ 0 * TopK = 0
    BY KernelAssumption, SMT
  <2>2. 0..(0 - 1) = {}
    BY SMT
  <2> QED BY <1>1, <2>1, <2>2 DEF LiveTokens, LiveRows, LiveSlots
<1>6. RoundsDone
  <2>1. \A b \in Blocks : Phase0Done(b) /\ ScatterDone(b)
    BY <1>5 DEF Phase0Done, ScatterDone
  <2>2. \A b \in Blocks : nextTile[b] >= TotalTiles
    <3>1. TotalTiles = 0
      BY <1>1, NoTiles
    <3>2. \A b \in Blocks : b \in Nat /\ nextTile[b] = b
      BY <1>1, BlocksIn
    <3> QED BY <3>1, <3>2, SMT
  <2> QED BY <1>1, <2>1, <2>2 DEF RoundsDone
<1>7. RoutingRight /\ ScatterRight /\ TilesRight
  BY <1>1, NothingRouted, NothingTaken, FirstTiles
<1>8. Planned
  BY <1>1 DEF Planned
<1>9. SumsRight
  BY <1>1 DEF SumsRight, OutputExact
<1> QED BY <1>2, <1>4, <1>6, <1>7, <1>8, <1>9 DEF IInv

LEMMA LaunchKeeps ==
  ASSUME IInv, Launch
  PROVE  IInv'
<1>1. /\ tokens' \in 1..MaxTokens /\ Accepts(tokens') /\ logits' \in Routings
      /\ launch < MaxLaunches /\ launch' = launch + 1
      /\ round' = [b \in Blocks |-> 1] /\ inside' = inside /\ inside = {}
      /\ routed' = {} /\ counts' = [e \in Experts |-> 0] /\ scheduled' = FALSE
      /\ offsets' = [e \in 0..NumExperts |-> 0] /\ tiles' = << >>
      /\ cursors' = [e \in Experts |-> 0] /\ fetched' = [i \in Slots |-> -1]
      /\ stored' = {} /\ nextTile' = [b \in Blocks |-> b] /\ summed' = {}
      /\ act' = act /\ topkIds' = topkIds /\ sorted' = sorted
      /\ partial' = partial /\ output' = output
  BY DEF Launch, GB!Restart, GB!Retired, ZeroCounts
<1>2. Types'
  <2>1. Types
    BY DEF IInv
  <2>2. round' \in [Blocks -> 1..5] /\ nextTile' \in [Blocks -> Nat]
    <3>1. 1 \in 1..5
      BY SMT
    <3> QED BY <1>1, <3>1, BlocksIn
  <2>3. launch' \in 0..MaxLaunches /\ tokens' \in 0..MaxTokens
    <3>1. MaxLaunches \in Nat /\ MaxTokens \in Nat
      BY KernelAssumption
    <3>2. launch \in 0..MaxLaunches
      BY <2>1 DEF Types
    <3> QED BY <1>1, <3>1, <3>2, SMT
  <2>4. counts' \in [Experts -> Nat] /\ cursors' \in [Experts -> Nat]
    BY <1>1
  <2>5. fetched' \in [Slots -> Slots \cup {-1}]
    BY <1>1
  <2> QED BY <1>1, <2>1, <2>2, <2>3, <2>4, <2>5 DEF Types
<1>3. \A b \in Blocks : round'[b] = 1
  BY <1>1
<1>4. BarrierHolds'
  <2>1. \A b, c \in Blocks : GB!Reached(c, round[b] - 1)'
    <3>1. 1 > 1 - 1
      BY SMT
    <3> QED BY <1>3, <3>1 DEF GB!Reached
  <2>2. tokens' # 0
    BY <1>1, SMT
  <2> QED BY <1>1, <2>1, <2>2 DEF BarrierHolds, Accepts
<1>5. RoundsDone'
  <2>1. \A b \in Blocks : \A k \in 1..4 : ~ GB!Reached(b, k)'
    <3>1. \A k \in 1..4 : ~ (1 > k)
      BY SMT
    <3> QED BY <1>1, <1>3, <3>1 DEF GB!Reached
  <2>2. 1 \in 1..4 /\ 2 \in 1..4 /\ 3 \in 1..4 /\ 4 \in 1..4
    BY SMT
  <2> QED BY <2>1, <2>2, BlocksIn DEF RoundsDone
<1>6. RoutingRight'
  <2>1. \A e \in Experts : RoutedTo(e)' = {}
    BY <1>1 DEF RoutedTo
  <2>2. \A e \in Experts : counts'[e] = Cardinality(RoutedTo(e)')
    BY <1>1, <2>1, FS_EmptySet
  <2> QED BY <1>1, <2>2 DEF RoutingRight
<1>7. ScatterRight'
  BY <1>1 DEF ScatterRight
<1>8. TilesRight'
  <2>1. DOMAIN tiles' = {}
    BY <1>1, SMT
  <2>2. \A b \in Blocks : b % Grid = b /\ nextTile'[b] = b
    <3>1. \A b \in Blocks : b % Grid = b
      BY BlocksIn, SMT DEF Blocks
    <3> QED BY <1>1, <3>1
  <2> QED BY <2>1, <2>2 DEF TilesRight
<1>9. Planned'
  BY <1>1 DEF Planned
<1>10. SumsRight'
  BY <1>1 DEF SumsRight, OutputExact
<1> QED BY <1>2, <1>4, <1>5, <1>6, <1>7, <1>8, <1>9, <1>10 DEF IInv

-----------------------------------------------------------------------------
(* Round 1 keeps it.                                                         *)

\* No block is ahead of one that has not entered its barrier.
LEMMA NoneAhead ==
  ASSUME IInv, NEW b \in Blocks, b \notin inside
  PROVE  /\ round \in [Blocks -> 1..5] /\ tokens \in 0..MaxTokens
         /\ \A c \in Blocks : round[c] <= round[b]
         /\ \A c \in Blocks : \A k \in 1..4 : k > round[b] => ~ GB!Reached(c, k)
<1>1. round \in [Blocks -> 1..5] /\ tokens \in 0..MaxTokens
  BY DEF IInv, Types
<1>2. ASSUME NEW c \in Blocks PROVE round[c] <= round[b]
  <2>1. GB!Reached(b, round[c] - 1)
    BY DEF IInv, BarrierHolds
  <2>2. round[b] \in 1..5 /\ round[c] \in 1..5
    BY <1>1
  <2> QED BY <2>1, <2>2, SMT DEF GB!Reached
<1>3. ASSUME NEW c \in Blocks, NEW k \in 1..4, k > round[b] PROVE ~ GB!Reached(c, k)
  <2>1. round[b] \in 1..5 /\ round[c] \in 1..5 /\ round[c] <= round[b]
    BY <1>1, <1>2
  <2> QED BY <1>3, <2>1, SMT DEF GB!Reached
<1> QED BY <1>1, <1>2, <1>3

\* While a block is in round 1 nothing is scheduled and none is past the round.
LEMMA InRoundOne ==
  ASSUME IInv, NEW b \in Blocks, Running(b, 1)
  PROVE  /\ ~ scheduled
         /\ \A c \in Blocks : ~ GB!Reached(c, 2) /\ ~ GB!Reached(c, 3) /\ ~ GB!Reached(c, 4)
<1>1. round[b] = 1 /\ b \notin inside
  BY DEF Running
<1>2. \A c \in Blocks : \A k \in 1..4 : k > 1 => ~ GB!Reached(c, k)
  BY <1>1, NoneAhead
<1>3. 2 \in 1..4 /\ 3 \in 1..4 /\ 4 \in 1..4 /\ 2 > 1 /\ 3 > 1 /\ 4 > 1
  BY SMT
<1>4. ~ scheduled
  <2>1. round[0] <= 1 /\ round[0] \in 1..5
    BY <1>1, NoneAhead, BlocksIn
  <2>2. ~ (round[0] >= 2)
    BY <2>1, SMT
  <2> QED BY <2>2 DEF IInv, Planned
<1> QED BY <1>2, <1>3, <1>4

LEMMA RouteKeeps ==
  ASSUME IInv, NEW t \in Tokens, Route(t)
  PROVE  IInv'
<1>1. /\ t \in LiveTokens \ routed /\ Running(Owner(t, Warps), 1)
      /\ routed' = routed \cup {t}
      /\ topkIds' = [i \in Slots |-> IF i \in SlotsOf(t) THEN LocalId(i) ELSE topkIds[i]]
      /\ counts' = [e \in Experts |->
                      counts[e] + Cardinality({i \in SlotsOf(t) : LocalId(i) = e})]
      /\ act' = act /\ round' = round /\ inside' = inside
      /\ launch' = launch /\ tokens' = tokens /\ logits' = logits
      /\ scheduled' = scheduled /\ offsets' = offsets /\ tiles' = tiles
      /\ cursors' = cursors /\ fetched' = fetched /\ stored' = stored /\ sorted' = sorted
      /\ nextTile' = nextTile /\ partial' = partial
      /\ summed' = summed /\ output' = output
  BY DEF Route, barrier, input, phase1, scatter, phase2, phase3
<1>2. Types /\ tokens \in 0..MaxTokens /\ logits \in Routings
  BY DEF IInv, Types
<1>3. Owner(t, Warps) \in Blocks
  <2>1. t \in Nat
    BY <1>1, <1>2, LiveFacts
  <2>2. Warps \in Nat \ {0}
    BY KernelAssumption
  <2> QED BY <2>1, <2>2, OwnerIn
<1>4. /\ ~ scheduled
      /\ \A c \in Blocks : ~ GB!Reached(c, 2) /\ ~ GB!Reached(c, 3) /\ ~ GB!Reached(c, 4)
  BY <1>1, <1>3, InRoundOne
<1> DEFINE Chosen(e) == {i \in SlotsOf(t) : LocalId(i) = e}
<1>5. \A i \in SlotsOf(t) : i \in Slots /\ i \div TopK = t
  <2>1. \A i \in SlotsOf(t) : i \in Int
    BY KernelAssumption, <1>2, <1>1, LiveFacts, SMT DEF SlotsOf
  <2> QED BY <2>1, SlotFacts
<1>6. \A i \in Slots : i \div TopK = t => i \in SlotsOf(t)
  <2>1. \A i \in Slots : i \in Int
    BY <1>2, LiveFacts
  <2> QED BY <2>1, SlotFacts
<1>7. ASSUME NEW e \in Experts
      PROVE  /\ RoutedTo(e)' = RoutedTo(e) \cup Chosen(e)
             /\ RoutedTo(e) \cap Chosen(e) = {}
  <2>1. RoutedTo(e)' = {i \in Slots : i \div TopK \in routed' /\ LocalId(i) = e}
    BY <1>1 DEF RoutedTo, LocalId
  <2> QED BY <1>1, <1>5, <1>6, <2>1 DEF RoutedTo
<1>8. ASSUME NEW e \in Experts
      PROVE  counts'[e] = Cardinality(RoutedTo(e)') /\ counts'[e] \in Nat
  <2>1. RoutedTo(e) \in SUBSET Slots /\ Chosen(e) \in SUBSET Slots
    BY <1>5 DEF RoutedTo
  <2>2. counts[e] = Cardinality(RoutedTo(e))
    BY DEF IInv, RoutingRight
  <2>3. counts'[e] = counts[e] + Cardinality(Chosen(e))
    BY <1>1
  <2> HIDE DEF Chosen
  <2>4. /\ IsFiniteSet(RoutedTo(e)) /\ Cardinality(RoutedTo(e)) \in Nat
        /\ IsFiniteSet(Chosen(e)) /\ Cardinality(Chosen(e)) \in Nat
    BY <2>1, SlotSets
  <2>5. Cardinality(RoutedTo(e) \cup Chosen(e))
          = Cardinality(RoutedTo(e)) + Cardinality(Chosen(e))
              - Cardinality(RoutedTo(e) \cap Chosen(e))
    BY <2>4, FS_Union
  <2>6. Cardinality(RoutedTo(e) \cap Chosen(e)) = 0
    BY <1>7, FS_EmptySet
  <2> DEFINE a == Cardinality(RoutedTo(e))
             c == Cardinality(Chosen(e))
             d == Cardinality(RoutedTo(e) \cap Chosen(e))
             s == Cardinality(RoutedTo(e)')
  <2>7. a \in Nat /\ c \in Nat /\ d = 0 /\ s = a + c - d /\ counts'[e] = a + c
    BY <1>7, <2>2, <2>3, <2>4, <2>5, <2>6
  <2>8. counts'[e] = s /\ counts'[e] \in Nat
    <3> HIDE DEF a, c, d, s
    <3> QED BY <2>7, SMT
  <2> QED BY <2>8
<1>9. Types'
  <2>1. counts' \in [Experts -> Nat]
    BY <1>1, <1>8
  <2>2. topkIds' \in [Slots -> Experts \cup {-1}]
    <3>1. topkIds \in [Slots -> Experts \cup {-1}]
      BY <1>2 DEF Types
    <3>2. \A i \in Slots : LocalId(i) \in Experts \cup {-1}
      BY <1>2, LocalFacts
    <3> QED BY <1>1, <3>1, <3>2
  <2> QED BY <1>1, <1>2, <2>1, <2>2 DEF Types
<1>10. BarrierHolds'
  BY <1>1 DEF IInv, BarrierHolds, GB!Reached, Accepts
<1>11. RoundsDone'
  <2>1. ASSUME NEW c \in Blocks, GB!Reached(c, 1)' PROVE Phase0Done(c)'
    <3>1. Phase0Done(c)
      BY <1>1, <2>1 DEF IInv, RoundsDone, GB!Reached
    <3> QED BY <1>1, <3>1 DEF Phase0Done, LiveTokens, LiveRows
  <2>2. \A c \in Blocks : ~ GB!Reached(c, 2)' /\ ~ GB!Reached(c, 3)' /\ ~ GB!Reached(c, 4)'
    BY <1>1, <1>4 DEF GB!Reached
  <2> QED BY <2>1, <2>2, BlocksIn DEF RoundsDone
<1>12. RoutingRight'
  <2>1. routed' \subseteq LiveTokens'
    BY <1>1 DEF IInv, RoutingRight, LiveTokens
  <2>2. \A i \in Slots : i \div TopK \in routed' => topkIds'[i] = LocalId(i)'
    BY <1>1, <1>6 DEF IInv, RoutingRight, LocalId
  <2> QED BY <1>8, <2>1, <2>2 DEF RoutingRight
<1>13. Planned'
  BY <1>1, <1>4 DEF IInv, Planned
<1>14. ScatterRight'
  BY <1>1, <1>4 DEF IInv, ScatterRight
<1>15. TilesRight'
  BY <1>1 DEF IInv, TilesRight, RowsOf, Right, LocalId
<1>16. SumsRight'
  BY <1>1 DEF IInv, SumsRight, OutputExact, ToServe, LocalId, LiveTokens, LiveSlots
<1> QED BY <1>9, <1>10, <1>11, <1>12, <1>13, <1>14, <1>15, <1>16 DEF IInv

\* The plan depends on the histogram only.
LEMMA PlanSame ==
  ASSUME counts' = counts
  PROVE  /\ \A e : Offset(e)' = Offset(e) /\ TileBase(e)' = TileBase(e)
         /\ \A i : TileAt(i)' = TileAt(i)
         /\ Offsets' = Offsets
<1>1. \A e : TilesOf(e)' = TilesOf(e)
  BY DEF TilesOf
<1>2. \A e : Offset(e)' = Offset(e)
  <2>1. \A e : Offset(e) = SumOver(counts, 0..(e - 1))
    BY DEF Offset, SumBelow, SumOver
  <2>2. \A e : Offset(e)' = SumOver(counts', 0..(e - 1))
    BY DEF Offset, SumBelow, SumOver, MapThenSumSet, MapThenFoldSet
  <2> QED BY <2>1, <2>2
<1>3. Tiling' = Tiling
  BY <1>1 DEF Tiling
<1>4. \A e : TileBase(e)' = TileBase(e)
  <2>1. \A e : TileBase(e) = SumOver(Tiling, 0..(e - 1))
    BY DEF TileBase, SumBelow, SumOver, Tiling
  <2>2. \A e : TileBase(e)' = SumOver(Tiling', 0..(e - 1))
    BY DEF TileBase, SumBelow, SumOver, Tiling, MapThenSumSet, MapThenFoldSet
  <2> QED BY <1>3, <2>1, <2>2
<1>5. \A i : TileAt(i)' = TileAt(i)
  BY <1>1, <1>2, <1>4 DEF TileAt
<1>6. Offsets' = Offsets
  BY <1>2 DEF Offsets
<1> QED BY <1>2, <1>4, <1>5, <1>6

LEMMA PlanKept ==
  ASSUME counts' = counts, offsets' = offsets, tiles' = tiles
  PROVE  IsPlan' <=> IsPlan
BY PlanSame DEF IsPlan

LEMMA QuantizeKeeps ==
  ASSUME IInv, NEW q \in Rows, Quantize(q)
  PROVE  IInv'
<1>1. /\ q \in LiveRows /\ act' = [act EXCEPT ![q] = launch]
      /\ routed' = routed /\ topkIds' = topkIds /\ counts' = counts
      /\ round' = round /\ inside' = inside
      /\ launch' = launch /\ tokens' = tokens /\ logits' = logits
      /\ scheduled' = scheduled /\ offsets' = offsets /\ tiles' = tiles
      /\ cursors' = cursors /\ fetched' = fetched /\ stored' = stored /\ sorted' = sorted
      /\ nextTile' = nextTile /\ partial' = partial
      /\ summed' = summed /\ output' = output
  BY DEF Quantize, barrier, input, phase1, scatter, phase2, phase3
<1>2. act \in [Rows -> 0..MaxLaunches] /\ launch \in 0..MaxLaunches
  BY DEF IInv, Types
<1>3. Types'
  <2>1. act' \in [Rows -> 0..MaxLaunches]
    BY <1>1, <1>2
  <2> QED BY <1>1, <2>1 DEF IInv, Types
<1>4. BarrierHolds'
  BY <1>1 DEF IInv, BarrierHolds, GB!Reached, Accepts
<1>5. RoundsDone'
  <2>1. ASSUME NEW c \in Blocks, Phase0Done(c) PROVE Phase0Done(c)'
    <3>1. LiveRows \subseteq Rows
      BY LiveFacts DEF IInv, Types
    <3>2. \A r \in LiveRows : act[r] = launch => act'[r] = launch
      BY <1>1, <1>2, <3>1
    <3> QED BY <1>1, <2>1, <3>2 DEF Phase0Done, LiveTokens, LiveRows
  <2>2. ASSUME NEW c \in Blocks, ScatterDone(c) PROVE ScatterDone(c)'
    BY <1>1, <2>2 DEF ScatterDone, Owned, LiveSlots
  <2>3. TotalTiles' = TotalTiles
    BY <1>1 DEF TotalTiles
  <2>4. \A c \in Blocks : \A k \in 1..4 : GB!Reached(c, k)' <=> GB!Reached(c, k)
    BY <1>1 DEF GB!Reached
  <2>5. 1 \in 1..4 /\ 2 \in 1..4 /\ 3 \in 1..4 /\ 4 \in 1..4
    BY SMT
  <2> QED BY <1>1, <2>1, <2>2, <2>3, <2>4, <2>5, BlocksIn DEF IInv, RoundsDone
<1>6. RoutingRight'
  BY <1>1 DEF IInv, RoutingRight, RoutedTo, LocalId, LiveTokens
<1>7. Planned'
  <2>1. IsPlan' <=> IsPlan
    BY <1>1, PlanKept
  <2> QED BY <1>1, <2>1 DEF IInv, Planned
<1>8. ScatterRight'
  BY <1>1 DEF IInv, ScatterRight, Taken, LocalId, LiveSlots
<1>9. TilesRight'
  BY <1>1 DEF IInv, TilesRight, RowsOf, Right, LocalId
<1>10. SumsRight'
  BY <1>1 DEF IInv, SumsRight, OutputExact, ToServe, LocalId, LiveTokens, LiveSlots
<1> QED BY <1>3, <1>4, <1>5, <1>6, <1>7, <1>8, <1>9, <1>10 DEF IInv

-----------------------------------------------------------------------------
(* Rounds 2 and 3 keep it.                                                   *)

LEMMA ScheduleKeeps ==
  ASSUME IInv, Schedule
  PROVE  IInv'
<1>1. /\ Running(0, 2) /\ ~ scheduled /\ scheduled' = TRUE
      /\ offsets' = [e \in 0..NumExperts |-> Offset(e)]
      /\ cursors' = [e \in Experts |-> Offset(e)]
      /\ tiles' = [i \in 0..(TileBase(NumExperts) - 1) |-> TileAt(i)]
      /\ routed' = routed /\ act' = act /\ topkIds' = topkIds /\ counts' = counts
      /\ round' = round /\ inside' = inside
      /\ launch' = launch /\ tokens' = tokens /\ logits' = logits
      /\ fetched' = fetched /\ stored' = stored /\ sorted' = sorted
      /\ nextTile' = nextTile /\ partial' = partial
      /\ summed' = summed /\ output' = output
  BY DEF Schedule, FirstCursors, barrier, input, phase0, scatter, phase2, phase3
<1>2. Types /\ counts \in [Experts -> Nat] /\ nextTile \in [Blocks -> Nat]
  BY DEF IInv, Types
<1>3. 0 \in Blocks /\ round[0] = 2 /\ 0 \notin inside
  BY <1>1, BlocksIn DEF Running
<1>4. /\ \A c \in Blocks : round[c] <= 2 /\ round[c] < 4
      /\ \A c \in Blocks : ~ GB!Reached(c, 3) /\ ~ GB!Reached(c, 4)
  <2>1. /\ round \in [Blocks -> 1..5]
        /\ \A c \in Blocks : round[c] <= 2
        /\ \A c \in Blocks : \A k \in 1..4 : k > 2 => ~ GB!Reached(c, k)
    BY <1>3, NoneAhead
  <2>2. 3 \in 1..4 /\ 4 \in 1..4 /\ 3 > 2 /\ 4 > 2
    BY SMT
  <2>3. \A c \in Blocks : round[c] < 4
    <3>1. \A c \in Blocks : round[c] \in 1..5 /\ round[c] <= 2
      BY <2>1
    <3> QED BY <3>1, SMT
  <2> QED BY <2>1, <2>2, <2>3
<1>5. tokens # 0
  <2>1. ~ (round[0] = 5)
    BY <1>3, SMT
  <2> QED BY <1>3, <2>1 DEF IInv, BarrierHolds
<1>6. \A i \in Slots : fetched[i] = -1
  BY <1>1 DEF IInv, ScatterRight
<1>7. ASSUME NEW e \in Experts PROVE Offset(e) \in Nat /\ e \in 0..NumExperts
  <2>1. NumExperts \in Nat /\ Experts = 0..(NumExperts - 1)
    BY <1>2, PlanSums
  <2>2. e \in 0..NumExperts
    BY <2>1, SMT
  <2>3. Offsets \in [0..NumExperts -> Nat]
    BY <1>2, PlanSums DEF FirstSums
  <2> QED BY <2>2, <2>3 DEF Offsets
<1>8. Types'
  <2>1. cursors' \in [Experts -> Nat]
    BY <1>1, <1>7
  <2> QED BY <1>1, <1>2, <2>1 DEF Types
<1>9. BarrierHolds'
  BY <1>1 DEF IInv, BarrierHolds, GB!Reached, Accepts
<1>10. RoundsDone'
  <2>1. ASSUME NEW c \in Blocks, GB!Reached(c, 1)' PROVE Phase0Done(c)'
    <3>1. Phase0Done(c)
      BY <1>1, <2>1 DEF IInv, RoundsDone, GB!Reached
    <3> QED BY <1>1, <3>1 DEF Phase0Done, LiveTokens, LiveRows
  <2>2. \A c \in Blocks : ~ GB!Reached(c, 3)' /\ ~ GB!Reached(c, 4)'
    BY <1>1, <1>4 DEF GB!Reached
  <2> QED BY <1>1, <2>1, <2>2 DEF RoundsDone
<1>11. RoutingRight'
  BY <1>1 DEF IInv, RoutingRight, RoutedTo, LocalId, LiveTokens
<1>12. Planned'
  <2>1. IsPlan'
    <3>1. Offsets' = Offsets /\ Offsets = offsets'
      BY <1>1, PlanSame DEF Offsets
    <3>2. TileBase(NumExperts)' = TileBase(NumExperts) /\ \A i : TileAt(i)' = TileAt(i)
      BY <1>1, PlanSame
    <3> QED BY <1>1, <3>1, <3>2 DEF IsPlan
  <2>2. round'[0] >= 2 /\ tokens' # 0
    BY <1>1, <1>3, <1>5, SMT
  <2> QED BY <1>1, <2>1, <2>2 DEF Planned
<1>13. ScatterRight'
  <2>1. \A e \in Experts : Taken(e)' = {}
    BY <1>1, <1>6 DEF Taken
  <2>2. ASSUME NEW e \in Experts
        PROVE  /\ cursors'[e] = offsets'[e] + Cardinality(Taken(e)')
               /\ offsets'[e]..(cursors'[e] - 1) = {}
    <3>1. cursors'[e] = Offset(e) /\ offsets'[e] = Offset(e) /\ Offset(e) \in Nat
      BY <1>1, <1>7
    <3>2. Cardinality(Taken(e)') = 0
      BY <2>1, FS_EmptySet
    <3> QED BY <3>1, <3>2, SMT
  <2>3. stored' = {}
    BY <1>1, <1>2, <1>6 DEF IInv, ScatterRight, Types
  <2> QED BY <1>1, <1>6, <2>2, <2>3 DEF ScatterRight
<1>14. TilesRight'
  <2>1. \A b \in Blocks : nextTile[b] = b /\ nextTile[b] % Grid = b
    BY <1>4 DEF IInv, TilesRight
  <2>2. ASSUME NEW b \in Blocks, NEW j \in DOMAIN tiles', j % Grid = b, j < nextTile'[b]
        PROVE  FALSE
    <3>1. j \in Nat /\ j < b
      <4>1. TileBase(NumExperts) \in Nat
        <5>1. Bases \in [0..NumExperts -> Nat] /\ NumExperts \in 0..NumExperts
          BY <1>2, PlanSums, SMT DEF FirstSums
        <5> QED BY <5>1 DEF Bases
      <4>2. j \in 0..(TileBase(NumExperts) - 1)
        BY <1>1, <2>2
      <4>3. j < b
        BY <1>1, <2>1, <2>2
      <4> QED BY <4>1, <4>2, <4>3, SMT
    <3>2. Grid \in Nat \ {0} /\ b \in 0..(Grid - 1)
      BY BlocksIn DEF Blocks
    <3>3. j % Grid = j
      BY <3>1, <3>2, SMT
    <3> QED BY <2>2, <3>1, <3>2, <3>3, SMT
  <2> QED BY <1>1, <2>1, <2>2 DEF TilesRight
<1>15. SumsRight'
  BY <1>1 DEF IInv, SumsRight, OutputExact, ToServe, LocalId, LiveTokens, LiveSlots
<1> QED BY <1>8, <1>9, <1>10, <1>11, <1>12, <1>13, <1>14, <1>15 DEF IInv

\* What a thread knows when it is the turn of its slot.
LEMMA TurnFacts ==
  ASSUME IInv, NEW i \in Slots, ScatterTurn(i)
  PROVE  /\ scheduled /\ i \in LiveSlots /\ routed = LiveTokens
         /\ topkIds[i] = LocalId(i) /\ LocalId(i) \in Experts /\ i \in RoutedTo(LocalId(i))
         /\ Owner(i, Threads) \in Blocks /\ round[Owner(i, Threads)] = 3
         /\ \A c \in Blocks : round[c] < 4 /\ ~ GB!Reached(c, 4)
<1> DEFINE b == Owner(i, Threads)
<1>1. i \in LiveSlots /\ Owned(i) /\ round[b] = 3 /\ b \notin inside
  BY DEF ScatterTurn, Running
<1>2. /\ round \in [Blocks -> 1..5] /\ tokens \in 0..MaxTokens /\ logits \in Routings
      /\ BarrierHolds
  BY DEF IInv, Types
<1>3. b \in Blocks
  <2>1. i \in Nat /\ Threads \in Nat \ {0}
    BY <1>2, LiveFacts, KernelAssumption
  <2> QED BY <2>1, OwnerIn
<1> HIDE DEF b
<1>4. round[b] > 2 /\ round[b] >= 2 /\ ~ (round[b] = 5) /\ 2 \in 1..4 /\ 4 \in 1..4 /\ 4 > round[b]
  BY <1>1, SMT
<1>5. scheduled
  <2>1. GB!Reached(0, 2)
    BY <1>2, <1>3, <1>4, AllReached, BlocksIn
  <2>2. tokens # 0
    BY <1>2, <1>3, <1>4 DEF BarrierHolds
  <2> QED BY <2>1, <2>2 DEF IInv, RoundsDone
<1>6. topkIds[i] = LocalId(i) /\ routed = LiveTokens
  BY <1>1, <1>3, <1>4, RoutedBefore
<1>7. LocalId(i) \in Experts
  <2>1. LocalId(i) \in Experts \cup {-1}
    BY <1>2, LocalFacts
  <2>2. LocalId(i) >= 0
    BY <1>1, <1>6 DEF Owned
  <2>3. LocalId(i) # -1
    BY <2>2, SMT
  <2> QED BY <2>1, <2>3
<1>8. i \in RoutedTo(LocalId(i))
  <2>1. i \div TopK \in LiveTokens
    BY <1>1, <1>2, LiveFacts
  <2> QED BY <1>6, <2>1 DEF RoutedTo
<1>9. \A c \in Blocks : round[c] < 4 /\ ~ GB!Reached(c, 4)
  <2>1. \A c \in Blocks : round[c] <= 3 /\ round[c] \in 1..5
    BY <1>1, <1>3, NoneAhead
  <2>2. \A c \in Blocks : ~ GB!Reached(c, 4)
    BY <1>1, <1>3, <1>4, NoneAhead
  <2>3. \A c \in Blocks : round[c] < 4
    BY <2>1, SMT
  <2> QED BY <2>2, <2>3
<1> QED BY <1>1, <1>3, <1>5, <1>6, <1>7, <1>8, <1>9 DEF b

LEMMA FetchKeeps ==
  ASSUME IInv, NEW i \in Slots, Fetch(i)
  PROVE  IInv'
<1> DEFINE e == LocalId(i)
<1>1. ScatterTurn(i) /\ fetched[i] = -1
  BY DEF Fetch
<1>2. /\ scheduled /\ i \in LiveSlots /\ routed = LiveTokens
      /\ topkIds[i] = e /\ e \in Experts /\ i \in RoutedTo(e)
      /\ Owner(i, Threads) \in Blocks /\ round[Owner(i, Threads)] = 3
  BY <1>1, TurnFacts
<1> HIDE DEF e
<1>3. /\ fetched' = [fetched EXCEPT ![i] = cursors[e]]
      /\ cursors' = [cursors EXCEPT ![e] = @ + 1]
      /\ routed' = routed /\ act' = act /\ topkIds' = topkIds /\ counts' = counts
      /\ round' = round /\ inside' = inside
      /\ launch' = launch /\ tokens' = tokens /\ logits' = logits
      /\ scheduled' = scheduled /\ offsets' = offsets /\ tiles' = tiles
      /\ stored' = stored /\ sorted' = sorted
      /\ nextTile' = nextTile /\ partial' = partial
      /\ summed' = summed /\ output' = output
  BY <1>2 DEF Fetch, barrier, input, phase0, phase1, phase2, phase3
<1>4. /\ Types /\ fetched \in [Slots -> Slots \cup {-1}] /\ cursors \in [Experts -> Nat]
      /\ tokens \in 0..MaxTokens /\ logits \in Routings
  BY DEF IInv, Types
<1>5. /\ cursors[e] \in Nat /\ offsets[e] \in Nat /\ offsets[e + 1] \in Nat
      /\ offsets[e] <= cursors[e] /\ cursors[e] < offsets[e + 1]
      /\ Region(e) \subseteq LiveSlots
  <2>1. i \in RoutedTo(e) \ Taken(e)
    BY <1>1, <1>2 DEF Taken
  <2> QED BY <1>2, <2>1, CursorFacts
<1>6. cursors[e] \in Region(e) /\ cursors[e] \in Slots /\ cursors[e] # -1
  <2>1. cursors[e] \in Region(e) /\ cursors[e] # -1
    BY <1>5, SMT DEF Region
  <2> QED BY <1>4, <1>5, <2>1, LiveFacts
<1>7. /\ fetched'[i] = cursors[e]
      /\ \A j \in Slots : j # i => fetched'[j] = fetched[j]
      /\ cursors'[e] = cursors[e] + 1
      /\ \A f \in Experts : f # e => cursors'[f] = cursors[f]
  BY <1>2, <1>3, <1>4
<1>8. /\ \A j \in Slots : LocalId(j)' = LocalId(j)
      /\ LiveSlots' = LiveSlots /\ LocalId(i) = e
  BY <1>3 DEF LocalId, LiveSlots, e
<1>9. Types'
  <2>1. fetched' \in [Slots -> Slots \cup {-1}]
    BY <1>3, <1>4, <1>6
  <2>2. cursors' \in [Experts -> Nat]
    <3>1. cursors[e] + 1 \in Nat
      BY <1>5, SMT
    <3> QED BY <1>3, <1>4, <3>1
  <2> QED BY <1>3, <1>4, <2>1, <2>2 DEF Types
<1>10. BarrierHolds'
  BY <1>3 DEF IInv, BarrierHolds, GB!Reached, Accepts
<1>11. RoundsDone'
  BY <1>3 DEF IInv, RoundsDone, GB!Reached, Phase0Done, ScatterDone, Owned, TotalTiles,
              LiveTokens, LiveRows, LiveSlots
<1>12. RoutingRight'
  BY <1>3 DEF IInv, RoutingRight, RoutedTo, LocalId, LiveTokens
<1>13. Planned'
  <2>1. IsPlan' <=> IsPlan
    BY <1>3, PlanKept
  <2> QED BY <1>2, <1>3, <2>1 DEF IInv, Planned
<1>14. ScatterRight'
  <2>1. ASSUME NEW j \in Slots, fetched'[j] # -1
        PROVE  /\ scheduled' /\ round'[Owner(j, Threads)] >= 3
               /\ j \in LiveSlots' /\ LocalId(j)' \in Experts
               /\ offsets'[LocalId(j)'] <= fetched'[j] /\ fetched'[j] < cursors'[LocalId(j)']
    <3>1. CASE j = i
      <4>1. round'[Owner(i, Threads)] >= 3
        BY <1>2, <1>3, SMT
      <4>2. offsets[e] <= cursors[e] /\ cursors[e] < cursors[e] + 1
        BY <1>5, SMT
      <4> QED BY <1>2, <1>3, <1>7, <1>8, <3>1, <4>1, <4>2
    <3>2. CASE j # i
      <4>1. /\ scheduled /\ round[Owner(j, Threads)] >= 3
            /\ j \in LiveSlots /\ LocalId(j) \in Experts
            /\ offsets[LocalId(j)] <= fetched[j] /\ fetched[j] < cursors[LocalId(j)]
            /\ fetched'[j] = fetched[j] /\ fetched[j] # -1
        BY <1>7, <2>1, <3>2 DEF IInv, ScatterRight
      <4>2. fetched[j] \in Nat
        BY <1>4, <4>1, LiveFacts
      <4>3. fetched[j] < cursors'[LocalId(j)]
        <5>1. cursors[LocalId(j)] \in Nat
          BY <1>4, <4>1
        <5>2. cursors'[LocalId(j)] = cursors[LocalId(j)]
              \/ cursors'[LocalId(j)] = cursors[LocalId(j)] + 1
          BY <1>7, <4>1
        <5> QED BY <4>1, <4>2, <5>1, <5>2, SMT
      <4> QED BY <1>3, <1>8, <4>1, <4>3
    <3> QED BY <3>1, <3>2
  <2>2. ASSUME NEW j \in Slots, j # i PROVE fetched[j] # cursors[e]
    <3> SUFFICES ASSUME fetched[j] = cursors[e] PROVE FALSE
      OBVIOUS
    <3> DEFINE f == LocalId(j)
    <3>1. /\ f \in Experts /\ offsets[f] <= fetched[j] /\ fetched[j] < cursors[f]
      BY <1>6 DEF IInv, ScatterRight
    <3>2. /\ cursors[f] <= offsets[f + 1] /\ cursors[f] \in Nat
          /\ offsets[f] \in Nat /\ offsets[f + 1] \in Nat
      BY <1>2, <3>1, CursorFacts
    <3>3. fetched[j] \in Nat /\ fetched[j] \in Region(f)
      <4>1. fetched[j] \in Nat
        BY <1>5
      <4> HIDE DEF f
      <4> QED BY <3>1, <3>2, <4>1, SMT DEF Region
    <3>4. e = f
      <4>1. IsPlan /\ counts \in [Experts -> Nat]
        BY <1>2, WhenScheduled
      <4> HIDE DEF f
      <4>2. fetched[j] \in Region(e)
        BY <1>6
      <4> QED BY <1>2, <3>1, <3>3, <4>1, <4>2, OffsetFacts
    <3>5. cursors[e] < cursors[e]
      BY <3>1, <3>4
    <3> QED BY <1>5, <3>5, SMT
  <2>3. \A j, k \in Slots : fetched'[j] # -1 /\ fetched'[j] = fetched'[k] => j = k
    <3>1. \A j, k \in Slots : fetched[j] # -1 /\ fetched[j] = fetched[k] => j = k
      BY DEF IInv, ScatterRight
    <3> QED BY <1>7, <2>2, <3>1
  <2>4. ASSUME NEW f \in Experts
        PROVE  /\ cursors'[f] = offsets'[f] + Cardinality(Taken(f)')
               /\ \A p \in offsets'[f]..(cursors'[f] - 1) :
                    \E j \in Slots : fetched'[j] = p /\ LocalId(j)' = f
    <3>1. /\ cursors[f] = offsets[f] + Cardinality(Taken(f))
          /\ \A p \in offsets[f]..(cursors[f] - 1) :
                \E j \in Slots : fetched[j] = p /\ LocalId(j) = f
      BY <1>2 DEF IInv, ScatterRight
    <3>2. Taken(f)' = {j \in Slots : fetched'[j] # -1 /\ LocalId(j) = f}
      BY <1>8 DEF Taken
    <3>3. \A p \in offsets[f]..(cursors[f] - 1) :
                \E j \in Slots : fetched'[j] = p /\ LocalId(j)' = f
      <4>1. offsets[f] \in Nat /\ cursors[f] \in Nat
        BY <1>2, CursorFacts
      <4> SUFFICES ASSUME NEW p \in offsets[f]..(cursors[f] - 1)
                   PROVE  \E j \in Slots : fetched'[j] = p /\ LocalId(j)' = f
        OBVIOUS
      <4>2. PICK j \in Slots : fetched[j] = p /\ LocalId(j) = f
        BY <3>1
      <4>3. p # -1
        BY <4>1, SMT
      <4> QED BY <1>1, <1>7, <1>8, <4>2, <4>3
    <3>4. CASE f = e
      <4>1. Taken(f)' = Taken(f) \cup {i} /\ i \notin Taken(f)
        BY <1>1, <1>6, <1>7, <1>8, <3>2, <3>4 DEF Taken
      <4>2. Taken(f) \in SUBSET Slots
        BY DEF Taken
      <4>3. IsFiniteSet(Taken(f)) /\ Cardinality(Taken(f)) \in Nat
        BY <4>2, SlotSets
      <4>4. Cardinality(Taken(f)') = Cardinality(Taken(f)) + 1
        BY <4>1, <4>3, FS_AddElement
      <4> DEFINE a == Cardinality(Taken(f))
                 c == Cardinality(Taken(f)')
      <4>5. c = a + 1 /\ a \in Nat /\ cursors[f] = offsets[f] + a
        BY <3>1, <3>4, <4>3, <4>4
      <4>6. cursors'[f] = offsets'[f] + c
        <5> HIDE DEF a, c
        <5> QED BY <1>3, <1>5, <1>7, <3>4, <4>5, SMT
      <4>7. ASSUME NEW p \in offsets'[f]..(cursors'[f] - 1)
            PROVE  \E j \in Slots : fetched'[j] = p /\ LocalId(j)' = f
        <5>1. p = cursors[f] \/ p \in offsets[f]..(cursors[f] - 1)
          BY <1>3, <1>5, <1>7, <3>4, SMT
        <5> QED BY <1>7, <1>8, <3>3, <3>4, <5>1
      <4> QED BY <3>4, <4>6, <4>7
    <3>5. CASE f # e
      <4>1. Taken(f)' = Taken(f)
        BY <1>7, <1>8, <3>2, <3>5 DEF Taken
      <4>2. cursors'[f] = cursors[f] /\ offsets'[f] = offsets[f]
        BY <1>3, <1>7, <3>5
      <4> QED BY <3>1, <3>3, <4>1, <4>2
    <3> QED BY <3>4, <3>5
  <2>5. \A j \in stored' : fetched'[j] # -1 /\ sorted'[fetched'[j]] = j
    <3>1. \A j \in stored : fetched[j] # -1 /\ sorted[fetched[j]] = j
      BY DEF IInv, ScatterRight
    <3>2. stored \subseteq Slots
      BY <1>4 DEF Types
    <3> QED BY <1>1, <1>3, <1>7, <3>1, <3>2
  <2> QED BY <2>1, <2>3, <2>4, <2>5 DEF ScatterRight
<1>15. TilesRight'
  BY <1>3 DEF IInv, TilesRight, RowsOf, Right, LocalId
<1>16. SumsRight'
  BY <1>3 DEF IInv, SumsRight, OutputExact, ToServe, LocalId, LiveTokens, LiveSlots
<1> QED BY <1>9, <1>10, <1>11, <1>12, <1>13, <1>14, <1>15, <1>16 DEF IInv

LEMMA StoreKeeps ==
  ASSUME IInv, NEW i \in Slots, Store(i)
  PROVE  IInv'
<1>1. ScatterTurn(i) /\ fetched[i] # -1
  BY DEF Store
<1>2. /\ scheduled
      /\ \A c \in Blocks : round[c] < 4 /\ ~ GB!Reached(c, 4)
  BY <1>1, TurnFacts
<1>3. /\ sorted' = [sorted EXCEPT ![fetched[i]] = i] /\ stored' = stored \cup {i}
      /\ routed' = routed /\ act' = act /\ topkIds' = topkIds /\ counts' = counts
      /\ round' = round /\ inside' = inside
      /\ launch' = launch /\ tokens' = tokens /\ logits' = logits
      /\ scheduled' = scheduled /\ offsets' = offsets /\ tiles' = tiles
      /\ cursors' = cursors /\ fetched' = fetched
      /\ nextTile' = nextTile /\ partial' = partial
      /\ summed' = summed /\ output' = output
  BY DEF Store, barrier, input, phase0, phase1, phase2, phase3
<1>4. /\ Types /\ sorted \in [Slots -> Slots] /\ stored \subseteq Slots
      /\ fetched \in [Slots -> Slots \cup {-1}] /\ counts \in [Experts -> Nat]
  BY DEF IInv, Types
<1>5. Types'
  <2>1. sorted' \in [Slots -> Slots] /\ stored' \subseteq Slots
    BY <1>3, <1>4
  <2> QED BY <1>3, <1>4, <2>1 DEF Types
<1>6. BarrierHolds'
  BY <1>3 DEF IInv, BarrierHolds, GB!Reached, Accepts
<1>7. RoundsDone'
  <2>1. ASSUME NEW c \in Blocks, ScatterDone(c) PROVE ScatterDone(c)'
    BY <1>3, <2>1 DEF ScatterDone, Owned, LiveSlots
  <2>2. ASSUME NEW c \in Blocks, Phase0Done(c) PROVE Phase0Done(c)'
    BY <1>3, <2>2 DEF Phase0Done, LiveTokens, LiveRows
  <2>3. TotalTiles' = TotalTiles
    BY <1>3 DEF TotalTiles
  <2>4. \A c \in Blocks : \A k \in 1..4 : GB!Reached(c, k)' <=> GB!Reached(c, k)
    BY <1>3 DEF GB!Reached
  <2>5. 1 \in 1..4 /\ 2 \in 1..4 /\ 3 \in 1..4 /\ 4 \in 1..4
    BY SMT
  <2> QED BY <1>3, <2>1, <2>2, <2>3, <2>4, <2>5, BlocksIn DEF IInv, RoundsDone
<1>8. RoutingRight'
  BY <1>3 DEF IInv, RoutingRight, RoutedTo, LocalId, LiveTokens
<1>9. Planned'
  <2>1. IsPlan' <=> IsPlan
    BY <1>3, PlanKept
  <2> QED BY <1>2, <1>3, <2>1 DEF IInv, Planned
<1>10. ScatterRight'
  <2>1. \A j \in stored' : fetched'[j] # -1 /\ sorted'[fetched'[j]] = j
    <3>1. \A j \in stored : fetched[j] # -1 /\ sorted[fetched[j]] = j
      BY DEF IInv, ScatterRight
    <3>2. \A j, k \in Slots : fetched[j] # -1 /\ fetched[j] = fetched[k] => j = k
      BY DEF IInv, ScatterRight
    <3>3. \A j \in Slots : fetched[j] # -1 => fetched[j] \in Slots
      BY <1>4
    <3> QED BY <1>1, <1>3, <1>4, <3>1, <3>2, <3>3
  <2>2. \A f : Taken(f)' = Taken(f)
    BY <1>3 DEF Taken, LocalId
  <2> QED BY <1>3, <2>1, <2>2 DEF IInv, ScatterRight, LocalId, LiveSlots
<1>11. TilesRight'
  <2>1. \A b \in Blocks : nextTile[b] % Grid = b /\ nextTile[b] = b
    BY <1>2 DEF IInv, TilesRight
  <2>2. DOMAIN tiles = 0..(TileBase(NumExperts) - 1) /\ TileBase(NumExperts) \in Nat
    BY <1>2, WhenScheduled, TileFacts
  <2>3. ASSUME NEW b \in Blocks, NEW j \in DOMAIN tiles, j % Grid = b, j < b PROVE FALSE
    <3>1. j \in Nat
      BY <2>2, SMT
    <3>2. Grid \in Nat \ {0} /\ b \in 0..(Grid - 1)
      BY BlocksIn DEF Blocks
    <3>3. j % Grid = j
      BY <2>3, <3>1, <3>2, SMT
    <3> QED BY <2>3, <3>1, <3>2, <3>3, SMT
  <2> QED BY <1>3, <2>1, <2>3 DEF TilesRight
<1>12. SumsRight'
  BY <1>3 DEF IInv, SumsRight, OutputExact, ToServe, LocalId, LiveTokens, LiveSlots
<1> QED BY <1>5, <1>6, <1>7, <1>8, <1>9, <1>10, <1>11, <1>12 DEF IInv

-----------------------------------------------------------------------------
(* Rounds 4 and 5 keep it.                                                   *)

\* What up and down leave is right once the rows of this launch are quantized.
LEMMA ComputedRight ==
  ASSUME IInv, NEW b \in Blocks, round[b] >= 2, NEW i \in LiveSlots
  PROVE  Computed(i, LocalId(i)) = Right(i)
<1>1. tokens \in 0..MaxTokens /\ i \in Slots
  BY LiveFacts DEF IInv, Types
<1>2. i \div TopK \in LiveTokens
  BY <1>1, LiveFacts
<1>3. \A k \in 0..(KBlocks - 1) : (i \div TopK) * KBlocks + k \in LiveRows
  BY <1>1, <1>2, LiveFacts
<1>4. \A q \in LiveRows : act[q] = launch
  BY RoutedBefore
<1> QED BY <1>3, <1>4 DEF Computed, Right

LEMMA RunTileKeeps ==
  ASSUME IInv, NEW b \in Blocks, RunTile(b)
  PROVE  IInv'
<1> DEFINE j0 == nextTile[b]
           tile == tiles[j0]
           e == tile.expert
           Hit(i) == \E p \in RowsOf(tile) \cap Slots : sorted[p] = i
<1>1. /\ round[b] = 4 /\ b \notin inside /\ j0 < TotalTiles
      /\ partial' = [i \in Slots |-> IF Hit(i) THEN Computed(i, e) ELSE partial[i]]
      /\ nextTile' = [nextTile EXCEPT ![b] = nextTile[b] + Grid]
      /\ routed' = routed /\ act' = act /\ topkIds' = topkIds /\ counts' = counts
      /\ round' = round /\ inside' = inside
      /\ launch' = launch /\ tokens' = tokens /\ logits' = logits
      /\ scheduled' = scheduled /\ offsets' = offsets /\ tiles' = tiles
      /\ cursors' = cursors /\ fetched' = fetched /\ stored' = stored /\ sorted' = sorted
      /\ summed' = summed /\ output' = output
  BY DEF RunTile, Running, Following, barrier, input, phase0, phase1, scatter, phase3
<1>2. /\ Types /\ round \in [Blocks -> 1..5] /\ nextTile \in [Blocks -> Nat]
      /\ tokens \in 0..MaxTokens /\ logits \in Routings /\ launch \in 0..MaxLaunches
      /\ partial \in [Slots -> Cells] /\ sorted \in [Slots -> Slots]
  BY DEF IInv, Types
<1>3. round[b] >= 4 /\ round[b] >= 2 /\ ~ (round[b] = 5)
  BY <1>1, SMT
<1>4. tokens # 0
  BY <1>3 DEF IInv, BarrierHolds
<1>5. /\ scheduled
      /\ \A f \in Experts : \A p \in Region(f) :
            p \in Slots /\ sorted[p] \in ToServe /\ LocalId(sorted[p]) = f
  BY <1>3, <1>4, ScatteredBefore
<1>6. IsPlan /\ counts \in [Experts -> Nat]
  BY <1>5, WhenScheduled
<1>7. /\ DOMAIN tiles = 0..(TileBase(NumExperts) - 1) /\ TileBase(NumExperts) \in Nat
      /\ TotalTiles = TileBase(NumExperts)
  BY <1>6, TileFacts
<1>8. j0 \in Nat /\ j0 \in DOMAIN tiles
  <2>1. j0 \in Nat
    BY <1>2
  <2> HIDE DEF j0
  <2> QED BY <1>1, <1>7, <2>1, SMT
<1>9. ToServe \subseteq LiveSlots /\ LiveSlots \subseteq Slots
  BY <1>2, LiveFacts DEF ToServe
\* Every row of every tile holds a slot to serve, of the tile's expert.
<1>10. ASSUME NEW j \in DOMAIN tiles, NEW p \in RowsOf(tiles[j])
       PROVE  /\ p \in Slots /\ sorted[p] \in ToServe
              /\ LocalId(sorted[p]) = tiles[j].expert
  <2>1. tiles[j].expert \in Experts /\ p \in Region(tiles[j].expert)
    BY <1>6, TilingRight
  <2> QED BY <1>5, <2>1
<1>11. ASSUME NEW i \in Slots, Hit(i) PROVE Computed(i, e) = Right(i)
  <2>1. PICK p \in RowsOf(tile) \cap Slots : sorted[p] = i
    BY <1>11
  <2>2. i \in LiveSlots /\ LocalId(i) = e
    BY <1>8, <1>9, <1>10, <2>1
  <2> QED BY <1>3, <2>2, ComputedRight
<1> HIDE DEF Hit
<1>12. \A i \in Slots : Hit(i) => partial'[i] = Right(i)
  BY <1>1, <1>11
<1>13. \A i \in Slots : ~ Hit(i) => partial'[i] = partial[i]
  BY <1>1
<1>14. \A i \in Slots : Right(i) \in Cells
  BY <1>2, LocalFacts DEF Right, Cells
<1>15. Types'
  <2>1. partial' \in [Slots -> Cells]
    <3>1. \A i \in Slots : partial'[i] \in Cells
      BY <1>2, <1>12, <1>13, <1>14
    <3> QED BY <1>1, <3>1
  <2>2. nextTile' \in [Blocks -> Nat]
    <3>1. nextTile[b] + Grid \in Nat
      BY <1>2, BlocksIn, SMT
    <3> QED BY <1>1, <1>2, <3>1
  <2> QED BY <1>1, <1>2, <2>1, <2>2 DEF Types
<1>16. BarrierHolds'
  BY <1>1 DEF IInv, BarrierHolds, GB!Reached, Accepts
<1>17. RoundsDone'
  <2>1. ASSUME NEW c \in Blocks, ScatterDone(c) PROVE ScatterDone(c)'
    BY <1>1, <2>1 DEF ScatterDone, Owned, LiveSlots
  <2>2. ASSUME NEW c \in Blocks, Phase0Done(c) PROVE Phase0Done(c)'
    BY <1>1, <2>2 DEF Phase0Done, LiveTokens, LiveRows
  <2>3. TotalTiles' = TotalTiles
    BY <1>1 DEF TotalTiles
  <2>4. \A c \in Blocks : \A k \in 1..4 : GB!Reached(c, k)' <=> GB!Reached(c, k)
    BY <1>1 DEF GB!Reached
  <2>5. 1 \in 1..4 /\ 2 \in 1..4 /\ 3 \in 1..4 /\ 4 \in 1..4
    BY SMT
  <2>6. ASSUME NEW c \in Blocks, nextTile[c] >= TotalTiles PROVE nextTile'[c] >= TotalTiles
    <3>1. nextTile'[c] = nextTile[c] \/ nextTile'[c] = nextTile[c] + Grid
      BY <1>1, <1>2
    <3>2. nextTile[c] \in Nat /\ Grid \in Nat /\ TotalTiles \in Nat
      BY <1>2, <1>7, BlocksIn
    <3> QED BY <2>6, <3>1, <3>2, SMT
  <2> QED BY <1>1, <2>1, <2>2, <2>3, <2>4, <2>5, <2>6, BlocksIn DEF IInv, RoundsDone
<1>18. RoutingRight'
  BY <1>1 DEF IInv, RoutingRight, RoutedTo, LocalId, LiveTokens
<1>19. Planned'
  <2>1. IsPlan' <=> IsPlan
    BY <1>1, PlanKept
  <2> QED BY <1>1, <1>5, <2>1 DEF IInv, Planned
<1>20. ScatterRight'
  BY <1>1 DEF IInv, ScatterRight, Taken, LocalId, LiveSlots
<1>21. TilesRight'
  <2>1. \A c \in Blocks : nextTile'[c] % Grid = c /\ (round'[c] < 4 => nextTile'[c] = c)
    <3>1. nextTile[b] % Grid = b
      BY DEF IInv, TilesRight
    <3>2. (nextTile[b] + Grid) % Grid = b
      <4> DEFINE n == nextTile[b]
                 G == Grid
      <4>1. n \in Nat /\ G \in Nat \ {0} /\ n % G = b
        BY <1>8, <3>1, BlocksIn
      <4> HIDE DEF n, G
      <4>2. PICK q \in Nat, r \in 0..(G - 1) : n = G * q + r /\ n \div G = q /\ n % G = r
        BY <4>1, DivMod
      <4>3. n + G = G * (q + 1) + r /\ q + 1 \in Nat
        BY <4>1, <4>2, SMT
      <4>4. (G * (q + 1) + r) % G = r
        BY <4>1, <4>3, DivUnique
      <4>5. (n + G) % G = b
        BY <4>1, <4>2, <4>3, <4>4
      <4> QED BY <4>5 DEF n, G
    <3>3. ~ (round[b] < 4)
      BY <1>1, SMT
    <3> QED BY <1>1, <1>2, <3>2, <3>3 DEF IInv, TilesRight
  <2>2. ASSUME NEW c \in Blocks, NEW j \in DOMAIN tiles, j % Grid = c, j < nextTile'[c],
               NEW p \in RowsOf(tiles[j])
        PROVE  partial'[sorted[p]] = Right(sorted[p])
    <3>2. p \in Slots /\ sorted[p] \in Slots /\ LocalId(sorted[p]) = tiles[j].expert
      BY <1>9, <1>10
    <3>4. CASE Hit(sorted[p])
      BY <1>12, <3>2, <3>4
    <3>5. CASE ~ Hit(sorted[p])
      <4>1. j # j0
        BY <3>2, <3>5 DEF Hit
      <4>2. j < nextTile[c]
        <5>1. CASE c # b
          BY <1>1, <1>2, <2>2, <5>1
        <5>2. CASE c = b
          <6> DEFINE n == nextTile[b]
                     G == Grid
          <6>1. /\ n \in Nat /\ G \in Nat \ {0} /\ n % G = b /\ j % G = b
                /\ j < n + G /\ j # n
            BY <1>1, <1>2, <1>8, <2>2, <4>1, <5>2, BlocksIn DEF IInv, TilesRight
          <6>2. j \in Nat
            BY <1>7, SMT
          <6> HIDE DEF n, G
          <6>3. PICK q \in Nat, r \in 0..(G - 1) : n = G * q + r /\ n \div G = q /\ n % G = r
            BY <6>1, DivMod
          <6>4. PICK k \in Nat, s \in 0..(G - 1) : j = G * k + s /\ j \div G = k /\ j % G = s
            BY <6>1, <6>2, DivMod
          <6>5. r = s
            BY <6>1, <6>3, <6>4
          <6>6. ASSUME k >= q + 1 PROVE FALSE
            <7>1. (q + 1) * G <= k * G
              BY <6>1, <6>3, <6>4, <6>6, ProductMonotone
            <7> DEFINE x == G * q
                       y == G * k
            <7>2. (q + 1) * G = x + G /\ k * G = y /\ x \in Nat /\ y \in Nat
              BY <6>1, <6>3, <6>4, SMT
            <7>3. x + G <= y /\ n = x + r /\ j = y + r
              BY <6>3, <6>4, <6>5, <7>1, <7>2
            <7> HIDE DEF x, y
            <7> QED BY <6>1, <6>2, <6>3, <7>2, <7>3, SMT
          <6>7. k # q
            BY <6>1, <6>3, <6>4, <6>5
          <6>8. k + 1 <= q
            BY <6>3, <6>4, <6>6, <6>7, SMT
          <6>9. j < n
            <7>1. (k + 1) * G <= q * G
              BY <6>1, <6>3, <6>4, <6>8, ProductMonotone
            <7> DEFINE x == G * q
                       y == G * k
            <7>2. (k + 1) * G = y + G /\ q * G = x /\ x \in Nat /\ y \in Nat
              BY <6>1, <6>3, <6>4, SMT
            <7>3. y + G <= x /\ n = x + r /\ j = y + r
              BY <6>3, <6>4, <6>5, <7>1, <7>2
            <7> HIDE DEF x, y
            <7> QED BY <6>1, <6>2, <6>3, <7>2, <7>3, SMT
          <6> QED BY <5>2, <6>9 DEF n
        <5> QED BY <5>1, <5>2
      <4>3. partial[sorted[p]] = Right(sorted[p])
        BY <2>2, <4>2 DEF IInv, TilesRight
      <4> QED BY <1>13, <3>2, <3>5, <4>3
    <3> QED BY <3>4, <3>5
  <2> QED BY <1>1, <2>1, <2>2 DEF TilesRight, Right, LocalId, RowsOf
<1>22. SumsRight'
  BY <1>1 DEF IInv, SumsRight, OutputExact, ToServe, LocalId, LiveTokens, LiveSlots
<1> QED BY <1>15, <1>16, <1>17, <1>18, <1>19, <1>20, <1>21, <1>22 DEF IInv

LEMMA SumKeeps ==
  ASSUME IInv, NEW t \in Tokens, Sum(t)
  PROVE  IInv'
<1> DEFINE b == Owner(t, Threads)
<1>1. /\ t \in LiveTokens /\ round[b] = 5 /\ b \notin inside
      /\ output' = [output EXCEPT ![t] = {<< i, partial[i] >> : i \in Summands(t)}]
      /\ summed' = summed \cup {t}
      /\ routed' = routed /\ act' = act /\ topkIds' = topkIds /\ counts' = counts
      /\ round' = round /\ inside' = inside
      /\ launch' = launch /\ tokens' = tokens /\ logits' = logits
      /\ scheduled' = scheduled /\ offsets' = offsets /\ tiles' = tiles
      /\ cursors' = cursors /\ fetched' = fetched /\ stored' = stored /\ sorted' = sorted
      /\ nextTile' = nextTile /\ partial' = partial
  BY DEF Sum, Running, barrier, input, phase0, phase1, scatter, phase2
<1>2. /\ Types /\ tokens \in 0..MaxTokens /\ logits \in Routings
      /\ partial \in [Slots -> Cells] /\ topkIds \in [Slots -> Experts \cup {-1}]
      /\ output \in [Tokens -> SUBSET (Slots \X Cells)]
      /\ \A u \in Tokens : output[u] \subseteq SlotsOf(u) \X Cells
  BY DEF IInv, Types
<1>3. b \in Blocks
  <2>1. t \in Nat /\ Threads \in Nat \ {0}
    BY <1>2, LiveFacts, KernelAssumption
  <2> QED BY <2>1, OwnerIn
<1> HIDE DEF b
<1>4. tokens # 0 /\ round[b] >= 2
  <2>1. tokens # 0
    <3>1. LiveTokens # {}
      BY <1>1
    <3> QED BY <3>1, SMT DEF LiveTokens
  <2> QED BY <1>1, <2>1, SMT
<1>5. SlotsOf(t) \subseteq LiveSlots /\ LiveSlots \subseteq Slots
  <2>1. \A i \in SlotsOf(t) : i \in Int
    BY KernelAssumption, <1>2, LiveFacts, SMT DEF SlotsOf
  <2>2. \A i \in SlotsOf(t) : i \in Slots /\ i \div TopK = t
    BY <2>1, SlotFacts
  <2> QED BY <1>1, <1>2, <2>2, LiveFacts
<1>6. Summands(t) = ToServe \cap SlotsOf(t)
  <2>1. ASSUME NEW i \in SlotsOf(t) PROVE Owned(i) <=> LocalId(i) # -1
    <3>1. topkIds[i] = LocalId(i)
      BY <1>3, <1>4, <1>5, RoutedBefore
    <3>2. LocalId(i) \in Experts \cup {-1}
      BY <1>2, <1>5, LocalFacts
    <3>3. \A x \in Experts \cup {-1} : x >= 0 <=> x # -1
      BY KernelAssumption, SMT DEF Experts
    <3> QED BY <3>1, <3>2, <3>3 DEF Owned
  <2> QED BY <1>5, <2>1 DEF Summands, ToServe
<1>7. \A i \in ToServe : partial[i] = Right(i)
  BY <1>1, <1>3, <1>4, CellsRight
<1>8. {<< i, partial[i] >> : i \in Summands(t)}
         = {<< i, Right(i) >> : i \in ToServe \cap SlotsOf(t)}
  BY <1>6, <1>7
<1>9. Types'
  <2>1. {<< i, partial[i] >> : i \in Summands(t)} \subseteq SlotsOf(t) \X Cells
    BY <1>2, <1>5 DEF Summands
  <2>2. {<< i, partial[i] >> : i \in Summands(t)} \subseteq Slots \X Cells
    BY <1>5, <2>1
  <2>3. output' \in [Tokens -> SUBSET (Slots \X Cells)]
    BY <1>1, <1>2, <2>2
  <2>4. \A u \in Tokens : output'[u] \subseteq SlotsOf(u) \X Cells
    BY <1>1, <1>2, <2>1
  <2> QED BY <1>1, <1>2, <2>3, <2>4 DEF Types
<1>10. BarrierHolds'
  BY <1>1 DEF IInv, BarrierHolds, GB!Reached, Accepts
<1>11. RoundsDone'
  BY <1>1 DEF IInv, RoundsDone, GB!Reached, Phase0Done, ScatterDone, Owned, TotalTiles,
              LiveTokens, LiveRows, LiveSlots
<1>12. RoutingRight'
  BY <1>1 DEF IInv, RoutingRight, RoutedTo, LocalId, LiveTokens
<1>13. Planned'
  <2>1. IsPlan' <=> IsPlan
    BY <1>1, PlanKept
  <2> QED BY <1>1, <2>1 DEF IInv, Planned
<1>14. ScatterRight'
  BY <1>1 DEF IInv, ScatterRight, Taken, LocalId, LiveSlots
<1>15. TilesRight'
  BY <1>1 DEF IInv, TilesRight, RowsOf, Right, LocalId
<1>16. SumsRight'
  <2>1. ToServe' = ToServe /\ \A i : Right(i)' = Right(i)
    BY <1>1 DEF ToServe, LocalId, LiveSlots, Right
  <2>2. ASSUME NEW u \in summed'
        PROVE  output'[u] = {<< i, Right(i) >> : i \in ToServe \cap SlotsOf(u)}
    <3>1. CASE u = t
      BY <1>1, <1>2, <1>8, <3>1
    <3>2. CASE u # t
      <4>1. u \in summed /\ u \in Tokens
        BY <1>1, <1>2, <2>2, <3>2 DEF Types
      <4>2. output'[u] = output[u]
        BY <1>1, <1>2, <3>2, <4>1
      <4> QED BY <4>1, <4>2 DEF IInv, SumsRight, OutputExact, Right
    <3> QED BY <3>1, <3>2
  <2>3. OutputExact'
    BY <1>1, <2>1, <2>2 DEF OutputExact, Right, LocalId
  <2>4. summed' \subseteq LiveTokens'
    BY <1>1 DEF IInv, SumsRight, LiveTokens
  <2> QED BY <2>3, <2>4 DEF SumsRight
<1> QED BY <1>9, <1>10, <1>11, <1>12, <1>13, <1>14, <1>15, <1>16 DEF IInv

-----------------------------------------------------------------------------
(* The barriers keep it.                                                     *)

\* All that a barrier leaves alone.
SameWork == UNCHANGED << input, phase0, phase1, scatter, phase2, phase3 >>

\* A step that changes nothing but the barrier keeps what does not speak of it.
LEMMA BarrierFrame ==
  ASSUME IInv, SameWork
  PROVE  /\ RoutingRight' /\ SumsRight'
         /\ IsPlan' <=> IsPlan
         /\ TotalTiles' = TotalTiles
         /\ \A b : (Phase0Done(b)' <=> Phase0Done(b)) /\ (ScatterDone(b)' <=> ScatterDone(b))
<1>1. /\ routed' = routed /\ act' = act /\ topkIds' = topkIds /\ counts' = counts
      /\ launch' = launch /\ tokens' = tokens /\ logits' = logits
      /\ scheduled' = scheduled /\ offsets' = offsets /\ tiles' = tiles
      /\ cursors' = cursors /\ fetched' = fetched /\ stored' = stored /\ sorted' = sorted
      /\ nextTile' = nextTile /\ partial' = partial
      /\ summed' = summed /\ output' = output
  BY DEF SameWork, input, phase0, phase1, scatter, phase2, phase3
<1>2. RoutingRight'
  BY <1>1 DEF IInv, RoutingRight, RoutedTo, LocalId, LiveTokens
<1>3. SumsRight'
  BY <1>1 DEF IInv, SumsRight, OutputExact, ToServe, LocalId, LiveTokens, LiveSlots
<1>4. IsPlan' <=> IsPlan
  BY <1>1, PlanKept
<1>5. TotalTiles' = TotalTiles
  BY <1>1 DEF TotalTiles
<1>6. \A b : Phase0Done(b)' <=> Phase0Done(b)
  BY <1>1 DEF Phase0Done, LiveTokens, LiveRows
<1>7. \A b : ScatterDone(b)' <=> ScatterDone(b)
  BY <1>1 DEF ScatterDone, Owned, LiveSlots
<1> QED BY <1>2, <1>3, <1>4, <1>5, <1>6, <1>7

LEMMA ArriveKeeps ==
  ASSUME IInv, NEW b \in Blocks, SyncArrive(b)
  PROVE  IInv'
<1>1. /\ WorkDone(b) /\ b \notin inside /\ round[b] \in 1..4
      /\ inside' = inside \cup {b} /\ round' = round /\ SameWork
  BY DEF SyncArrive, GB!Arrive, SameWork
<1>2. /\ routed' = routed /\ act' = act /\ topkIds' = topkIds /\ counts' = counts
      /\ launch' = launch /\ tokens' = tokens /\ logits' = logits
      /\ scheduled' = scheduled /\ offsets' = offsets /\ tiles' = tiles
      /\ cursors' = cursors /\ fetched' = fetched /\ stored' = stored /\ sorted' = sorted
      /\ nextTile' = nextTile /\ partial' = partial
      /\ summed' = summed /\ output' = output
  BY <1>1 DEF SameWork, input, phase0, phase1, scatter, phase2, phase3
<1>3. /\ RoutingRight' /\ SumsRight'
      /\ IsPlan' <=> IsPlan
      /\ TotalTiles' = TotalTiles
      /\ \A c : (Phase0Done(c)' <=> Phase0Done(c)) /\ (ScatterDone(c)' <=> ScatterDone(c))
  BY <1>1, BarrierFrame
<1>4. round \in [Blocks -> 1..5] /\ Types
  BY DEF IInv, Types
<1>5. tokens # 0
  <2>1. ~ (round[b] = 5)
    BY <1>1, SMT
  <2> QED BY <2>1 DEF IInv, BarrierHolds
<1>7. \A c \in Blocks : \A k \in 1..4 :
         GB!Reached(c, k)' => GB!Reached(c, k) \/ (c = b /\ k = round[b])
  BY <1>1 DEF GB!Reached
<1>8. Types'
  BY <1>1, <1>2, <1>4 DEF Types
<1>9. BarrierHolds'
  <2>1. \A c, d \in Blocks : GB!Reached(d, round[c] - 1)'
    <3>2. \A c, d \in Blocks : GB!Reached(d, round[c] - 1)
      BY DEF IInv, BarrierHolds
    <3>3. \A c, d \in Blocks : round[d] > round[c] - 1 \/ (round[d] = round[c] - 1 /\ d \in inside)
      BY <3>2 DEF GB!Reached
    <3> QED BY <1>1, <3>3 DEF GB!Reached
  <2>2. \A c \in inside' : round'[c] <= 4
    <3>1. round[b] <= 4
      BY <1>1, SMT
    <3> QED BY <1>1, <3>1 DEF IInv, BarrierHolds
  <2>3. Accepts(tokens')
    BY <1>2, <1>5 DEF IInv, BarrierHolds
  <2> QED BY <1>2, <1>5, <2>1, <2>2, <2>3 DEF BarrierHolds, Accepts
<1>10. RoundsDone'
  <2>1. 1 \in 1..4 /\ 2 \in 1..4 /\ 3 \in 1..4 /\ 4 \in 1..4
    BY SMT
  <2>2. /\ round[b] = 1 => Phase0Done(b)
        /\ round[b] = 2 /\ b = 0 => scheduled
        /\ round[b] = 3 => ScatterDone(b)
        /\ round[b] = 4 => nextTile[b] >= TotalTiles
    <3>1. CASE round[b] = 1
      <4>1. WorkDone(b) = Phase0Done(b)
        BY <3>1, SMT DEF WorkDone
      <4>2. ~ (round[b] = 2) /\ ~ (round[b] = 3) /\ ~ (round[b] = 4)
        BY <3>1, SMT
      <4> QED BY <1>1, <4>1, <4>2
    <3>2. CASE round[b] = 2
      <4>1. WorkDone(b) = (b = 0 => scheduled)
        BY <3>2, SMT DEF WorkDone
      <4>2. ~ (round[b] = 1) /\ ~ (round[b] = 3) /\ ~ (round[b] = 4)
        BY <3>2, SMT
      <4> QED BY <1>1, <4>1, <4>2
    <3>3. CASE round[b] = 3
      <4>1. WorkDone(b) = ScatterDone(b)
        BY <3>3, SMT DEF WorkDone
      <4>2. ~ (round[b] = 1) /\ ~ (round[b] = 2) /\ ~ (round[b] = 4)
        BY <3>3, SMT
      <4> QED BY <1>1, <4>1, <4>2
    <3>4. CASE round[b] = 4
      <4>1. WorkDone(b) = (nextTile[b] >= TotalTiles)
        BY <3>4, SMT DEF WorkDone
      <4>2. ~ (round[b] = 1) /\ ~ (round[b] = 2) /\ ~ (round[b] = 3)
        BY <3>4, SMT
      <4> QED BY <1>1, <4>1, <4>2
    <3>5. round[b] = 1 \/ round[b] = 2 \/ round[b] = 3 \/ round[b] = 4
      BY <1>1, SMT
    <3> QED BY <3>1, <3>2, <3>3, <3>4, <3>5
  <2>3. ASSUME GB!Reached(0, 2)' PROVE scheduled'
    <3>1. GB!Reached(0, 2) \/ (0 = b /\ 2 = round[b])
      BY <1>7, <2>1, <2>3, BlocksIn
    <3> QED BY <1>2, <1>5, <2>2, <3>1 DEF IInv, RoundsDone
  <2>4. ASSUME NEW c \in Blocks
        PROVE  /\ GB!Reached(c, 1)' => Phase0Done(c)
               /\ GB!Reached(c, 3)' => ScatterDone(c)
               /\ GB!Reached(c, 4)' => nextTile[c] >= TotalTiles
    BY <1>7, <2>1, <2>2 DEF IInv, RoundsDone
  <2> QED BY <1>2, <1>3, <2>3, <2>4 DEF RoundsDone
<1>11. Planned'
  BY <1>1, <1>2, <1>3 DEF IInv, Planned
<1>12. ScatterRight'
  BY <1>1, <1>2 DEF IInv, ScatterRight, Taken, LocalId, LiveSlots
<1>13. TilesRight'
  BY <1>1, <1>2 DEF IInv, TilesRight, RowsOf, Right, LocalId
<1> QED BY <1>3, <1>8, <1>9, <1>10, <1>11, <1>12, <1>13 DEF IInv

LEMMA LeaveKeeps ==
  ASSUME IInv, NEW b \in Blocks, SyncLeave(b)
  PROVE  IInv'
<1>1. /\ b \in inside /\ \A c \in Blocks : GB!Reached(c, round[b])
      /\ round' = [round EXCEPT ![b] = @ + 1] /\ inside' = inside \ {b} /\ SameWork
  BY BlocksIn DEF SyncLeave, GB!Leave, SameWork
<1>2. /\ routed' = routed /\ act' = act /\ topkIds' = topkIds /\ counts' = counts
      /\ launch' = launch /\ tokens' = tokens /\ logits' = logits
      /\ scheduled' = scheduled /\ offsets' = offsets /\ tiles' = tiles
      /\ cursors' = cursors /\ fetched' = fetched /\ stored' = stored /\ sorted' = sorted
      /\ nextTile' = nextTile /\ partial' = partial
      /\ summed' = summed /\ output' = output
  BY <1>1 DEF SameWork, input, phase0, phase1, scatter, phase2, phase3
<1>3. /\ RoutingRight' /\ SumsRight'
      /\ IsPlan' <=> IsPlan
      /\ TotalTiles' = TotalTiles
      /\ \A c : (Phase0Done(c)' <=> Phase0Done(c)) /\ (ScatterDone(c)' <=> ScatterDone(c))
  BY <1>1, BarrierFrame
<1>4. round \in [Blocks -> 1..5] /\ Types
  BY DEF IInv, Types
<1>5. round[b] \in 1..4 /\ round'[b] = round[b] + 1 /\ round'[b] \in 1..5
  <2>1. round[b] <= 4 /\ round[b] \in 1..5
    BY <1>1, <1>4 DEF IInv, BarrierHolds
  <2>2. round[b] \in 1..4 /\ round[b] + 1 \in 1..5
    BY <2>1, SMT
  <2> QED BY <1>1, <1>4, <2>2
<1>6. \A c \in Blocks : c # b => round'[c] = round[c]
  BY <1>1, <1>4
<1>7. \A c \in Blocks : round'[c] \in 1..5 /\ round[c] \in 1..5 /\ round'[c] >= round[c]
  <2>1. round[b] + 1 >= round[b] /\ \A r \in 1..5 : r >= r
    BY <1>5, SMT
  <2> QED BY <1>4, <1>5, <1>6, <2>1
<1>8. tokens # 0
  BY <1>1 DEF IInv, BarrierHolds
\* A block that leaves has entered the same barriers as before.
<1>9. ASSUME NEW c \in Blocks, NEW k \in 0..4 PROVE GB!Reached(c, k)' <=> GB!Reached(c, k)
  <2>1. CASE c = b
    <3>1. GB!Reached(b, k) <=> round[b] >= k
      BY <1>1, <1>5, SMT DEF GB!Reached
    <3>2. b \notin inside'
      BY <1>1
    <3>3. GB!Reached(b, k)' <=> round[b] + 1 > k
      BY <1>5, <3>2 DEF GB!Reached
    <3>4. round[b] >= k <=> round[b] + 1 > k
      BY <1>5, SMT
    <3> QED BY <2>1, <3>1, <3>3, <3>4
  <2>2. CASE c # b
    BY <1>1, <1>6, <2>2 DEF GB!Reached
  <2> QED BY <2>1, <2>2
<1>10. Types'
  <2>1. round' \in [Blocks -> 1..5]
    BY <1>1, <1>4, <1>7
  <2> QED BY <1>1, <1>2, <1>4, <2>1 DEF Types
<1>11. BarrierHolds'
  <2>1. ASSUME NEW c \in Blocks, NEW d \in Blocks
        PROVE  round'[d] > round'[c] - 1 \/ (round'[d] = round'[c] - 1 /\ d \in inside')
    <3>1. CASE c # b
      <4>1. GB!Reached(d, round[c] - 1)
        BY DEF IInv, BarrierHolds
      <4>2. round'[c] = round[c]
        BY <1>6, <3>1
      <4>3. CASE d # b
        BY <1>1, <1>6, <4>1, <4>2, <4>3 DEF GB!Reached
      <4>4. CASE d = b
        <5>1. round[b] > round[c] - 1 \/ round[b] = round[c] - 1
          BY <4>1, <4>4 DEF GB!Reached
        <5>2. round[b] + 1 > round[c] - 1
          BY <1>5, <1>7, <5>1, SMT
        <5> QED BY <1>5, <4>2, <4>4, <5>2
      <4> QED BY <4>3, <4>4
    <3>2. CASE c = b
      <4>1. round'[c] - 1 = round[b]
        BY <1>5, <3>2, SMT
      <4>2. CASE d # b
        <5>1. GB!Reached(d, round[b])
          BY <1>1
        <5> QED BY <1>1, <1>6, <4>1, <4>2, <5>1 DEF GB!Reached
      <4>3. CASE d = b
        <5>1. round[b] + 1 > round[b]
          BY <1>5, SMT
        <5> QED BY <1>5, <4>1, <4>3, <5>1
      <4> QED BY <4>2, <4>3
    <3> QED BY <3>1, <3>2
  <2>2. \A c \in inside' : round'[c] <= 4
    <3>1. \A c \in inside' : c # b /\ c \in inside /\ c \in Blocks
      BY <1>1, <1>4 DEF Types
    <3> QED BY <1>6, <3>1 DEF IInv, BarrierHolds
  <2>3. Accepts(tokens')
    BY <1>2, <1>8 DEF IInv, BarrierHolds
  <2>4. \A c, d \in Blocks : GB!Reached(d, round[c] - 1)'
    BY <2>1 DEF GB!Reached
  <2> QED BY <1>2, <1>8, <2>2, <2>3, <2>4 DEF BarrierHolds, Accepts
<1>12. RoundsDone'
  <2>1. 1 \in 0..4 /\ 2 \in 0..4 /\ 3 \in 0..4 /\ 4 \in 0..4
    BY SMT
  <2>2. GB!Reached(0, 2)' <=> GB!Reached(0, 2)
    BY <1>9, <2>1, BlocksIn
  <2>3. \A c \in Blocks : /\ GB!Reached(c, 1)' <=> GB!Reached(c, 1)
                          /\ GB!Reached(c, 3)' <=> GB!Reached(c, 3)
                          /\ GB!Reached(c, 4)' <=> GB!Reached(c, 4)
    BY <1>9, <2>1
  <2> QED BY <1>2, <1>3, <2>2, <2>3 DEF IInv, RoundsDone
<1>13. Planned'
  <2>1. scheduled => round'[0] >= 2
    <3>1. round'[0] >= round[0] /\ round'[0] \in 1..5 /\ round[0] \in 1..5
      BY <1>7, BlocksIn
    <3>2. round[0] >= 2 => round'[0] >= 2
      BY <3>1, SMT
    <3> QED BY <3>2 DEF IInv, Planned
  <2> QED BY <1>2, <1>3, <2>1 DEF IInv, Planned
<1>14. ScatterRight'
  <2>1. \A i \in Slots : fetched[i] # -1 => round'[Owner(i, Threads)] >= 3
    <3>1. ASSUME NEW i \in Slots, fetched[i] # -1 PROVE round'[Owner(i, Threads)] >= 3
      <4>1. Owner(i, Threads) \in Blocks
        <5>1. i \in Nat /\ Threads \in Nat \ {0}
          BY <1>4, LiveFacts, KernelAssumption DEF Types
        <5> QED BY <5>1, OwnerIn
      <4>2. round[Owner(i, Threads)] >= 3
        BY <3>1 DEF IInv, ScatterRight
      <4> DEFINE c == Owner(i, Threads)
      <4>3. /\ round'[c] \in 1..5 /\ round[c] \in 1..5 /\ round'[c] >= round[c]
            /\ round[c] >= 3
        BY <1>7, <4>1, <4>2
      <4> HIDE DEF c
      <4>4. round'[c] >= 3
        BY <4>3, SMT
      <4> QED BY <4>4 DEF c
    <3> QED BY <3>1
  <2> QED BY <1>2, <2>1 DEF IInv, ScatterRight, Taken, LocalId, LiveSlots
<1>15. TilesRight'
  <2>1. \A c \in Blocks : round'[c] < 4 => round[c] < 4
    <3>1. \A r, s \in 1..5 : r >= s /\ r < 4 => s < 4
      BY SMT
    <3> QED BY <1>7, <3>1
  <2> QED BY <1>2, <2>1 DEF IInv, TilesRight, RowsOf, Right, LocalId
<1> QED BY <1>3, <1>10, <1>11, <1>12, <1>13, <1>14, <1>15 DEF IInv

LEMMA StutterKeeps ==
  ASSUME IInv, UNCHANGED vars
  PROVE  IInv'
<1>1. /\ SameWork /\ round' = round /\ inside' = inside
  BY DEF vars, SameWork, barrier
<1>2. /\ routed' = routed /\ act' = act /\ topkIds' = topkIds /\ counts' = counts
      /\ launch' = launch /\ tokens' = tokens /\ logits' = logits
      /\ scheduled' = scheduled /\ offsets' = offsets /\ tiles' = tiles
      /\ cursors' = cursors /\ fetched' = fetched /\ stored' = stored /\ sorted' = sorted
      /\ nextTile' = nextTile /\ partial' = partial
      /\ summed' = summed /\ output' = output
  BY <1>1 DEF SameWork, input, phase0, phase1, scatter, phase2, phase3
<1>3. /\ RoutingRight' /\ SumsRight'
      /\ IsPlan' <=> IsPlan
      /\ TotalTiles' = TotalTiles
      /\ \A c : (Phase0Done(c)' <=> Phase0Done(c)) /\ (ScatterDone(c)' <=> ScatterDone(c))
  BY <1>1, BarrierFrame
<1>4. Types'
  BY <1>1, <1>2 DEF IInv, Types
<1>5. BarrierHolds'
  BY <1>1, <1>2 DEF IInv, BarrierHolds, GB!Reached, Accepts
<1>6. RoundsDone'
  BY <1>1, <1>2, <1>3 DEF IInv, RoundsDone, GB!Reached
<1>7. Planned'
  BY <1>1, <1>2, <1>3 DEF IInv, Planned
<1>8. ScatterRight'
  <2>1. (\A e : Taken(e)' = Taken(e)) /\ (\A i : LocalId(i)' = LocalId(i)) /\ LiveSlots' = LiveSlots
    BY <1>2 DEF Taken, LocalId, LiveSlots
  <2> QED BY <1>1, <1>2, <2>1 DEF IInv, ScatterRight
<1>9. TilesRight'
  BY <1>1, <1>2 DEF IInv, TilesRight, RowsOf, Right, LocalId
<1> QED BY <1>3, <1>4, <1>5, <1>6, <1>7, <1>8, <1>9 DEF IInv

-----------------------------------------------------------------------------
(* The theorems.                                                             *)

LEMMA StepKeeps ==
  ASSUME IInv, [Next]_vars
  PROVE  IInv'
<1>1. CASE Launch
  BY <1>1, LaunchKeeps
<1>2. ASSUME NEW t \in Tokens, Route(t) \/ Sum(t) PROVE IInv'
  BY <1>2, RouteKeeps, SumKeeps
<1>3. ASSUME NEW q \in Rows, Quantize(q) PROVE IInv'
  BY <1>3, QuantizeKeeps
<1>4. CASE Schedule
  BY <1>4, ScheduleKeeps
<1>5. ASSUME NEW i \in Slots, Fetch(i) \/ Store(i) PROVE IInv'
  BY <1>5, FetchKeeps, StoreKeeps
<1>6. ASSUME NEW b \in Blocks, RunTile(b) \/ SyncArrive(b) \/ SyncLeave(b) PROVE IInv'
  BY <1>6, RunTileKeeps, ArriveKeeps, LeaveKeeps
<1>7. CASE Finished
  <2>1. UNCHANGED vars
    BY <1>7 DEF Finished
  <2> QED BY <2>1, StutterKeeps
<1>8. CASE UNCHANGED vars
  BY <1>8, StutterKeeps
<1> QED BY <1>1, <1>2, <1>3, <1>4, <1>5, <1>6, <1>7, <1>8 DEF Next, Kernel

\* The invariant holds of every launch, whatever the grid, the routing and the
\* order in which blocks, warps and threads run.
THEOREM KernelInvariant == Spec => []IInv
<1>1. Init => IInv
  BY InitHolds
<1>2. IInv /\ [Next]_vars => IInv'
  BY StepKeeps
<1> QED BY <1>1, <1>2, PTL DEF Spec

\* What Phases 0 and 1 leave to the later ones is a schedule, for every grid, every
\* routing and every order of the threads' atomicAdds: every slot has a row of its
\* own in its expert's region, the tiles fit their arrays, and each routed row is in
\* exactly one tile.
THEOREM SchedulesRight == Spec => []ScheduleRight
<1>1. IInv => ScheduleRight
  BY InvariantGivesAll
<1> QED BY <1>1, KernelInvariant, PTL

\* Every token's output is the sum of exactly its owned slots, each computed in this
\* launch with the router's expert: no stale, unowned, half-scattered or unquantized
\* cell gets in, whatever earlier launches left in the scratch.
THEOREM OutputsExact == Spec => []OutputExact
<1>1. IInv => OutputExact
  BY InvariantGivesAll
<1> QED BY <1>1, KernelInvariant, PTL

=============================================================================
