----------------------------- MODULE NumberLemmas ------------------------------
(* Facts about numbers that the proofs of several modules cite: division,    *)
(* induction, and sums over finite sets.                                     *)
EXTENDS Integers, FiniteSets, FiniteSetsExt, FiniteSetTheorems, WellFoundedInduction, TLAPS

-----------------------------------------------------------------------------
(* Division.                                                                 *)

LEMMA DivBounds ==
  ASSUME NEW a \in Nat, NEW b \in Nat \ {0}
  PROVE  a \div b \in Nat /\ b * (a \div b) <= a /\ a < b * (a \div b) + b
<1>1. a \div b \in Nat
  BY SMT
<1>2. b * (a \div b) <= a
  BY SMT
<1>3. a < b * (a \div b) + b
  BY SMT
<1> QED BY <1>1, <1>2, <1>3

LEMMA DivUnique ==
  ASSUME NEW b \in Nat \ {0}, NEW q \in Nat, NEW r \in 0..(b - 1)
  PROVE  (b * q + r) \div b = q /\ (b * q + r) % b = r
BY SMT

LEMMA DivExact ==
  ASSUME NEW b \in Nat \ {0}, NEW q \in Nat
  PROVE  (b * q) \div b = q
BY SMT

LEMMA DivMonotone ==
  ASSUME NEW b \in Nat \ {0}, NEW a \in Nat, NEW c \in Nat, a <= c
  PROVE  a \div b <= c \div b
BY SMT

LEMMA DivMod ==
  ASSUME NEW a \in Nat, NEW b \in Nat \ {0}
  PROVE  \E q \in Nat, r \in 0..(b - 1) : a = b * q + r /\ a \div b = q /\ a % b = r
<1> DEFINE d == a \div b
<1>1. d \in Nat /\ a - b * d \in 0..(b - 1) /\ a = b * d + (a - b * d)
  BY DivBounds, SMT
<1> HIDE DEF d
<1>2. PICK q \in Nat, r \in 0..(b - 1) : a = b * q + r
  BY <1>1
<1>3. (b * q + r) \div b = q /\ (b * q + r) % b = r
  BY DivUnique
<1>4. a \div b = q /\ a % b = r
  BY <1>2, <1>3
<1> QED BY <1>2, <1>4

LEMMA Divides ==
  ASSUME NEW a \in Nat, NEW b \in Nat \ {0}, a % b = 0
  PROVE  \E k \in Nat : a = b * k
<1>1. PICK q \in Nat, r \in 0..(b - 1) : a = b * q + r /\ a % b = r
  BY DivMod
<1>2. r = 0
  BY <1>1
<1>3. a = b * q
  BY <1>1, <1>2, SMT
<1> QED BY <1>3

\* A product grows with either factor.
LEMMA ProductMonotone ==
  ASSUME NEW a \in Nat, NEW b \in Nat, NEW c \in Nat, NEW d \in Nat, a <= c, b <= d
  PROVE  a * b \in Nat /\ a * b <= c * d
<1>1. a * b <= c * b
  BY SMT
<1>2. c * b <= c * d
  BY SMT
<1>3. a * b \in Nat /\ c * b \in Nat /\ c * d \in Nat
  BY SMT
<1> QED BY <1>1, <1>2, <1>3, SMT

-----------------------------------------------------------------------------
(* Induction.  A set of numbers has a least one, because the sets of numbers  *)
(* below its members have a smallest; so a set that holds zero and every      *)
(* successor holds all.                                                       *)

\* A set of numbers has a least one.
LEMMA Least ==
  ASSUME NEW T, T \subseteq Nat, T # {}
  PROVE  \E x \in T : \A y \in T : x <= y
<1> DEFINE below(n) == 0..(n - 1)
           all == {below(n) : n \in T}
<1>1. \A n \in Nat : IsFiniteSet(below(n)) /\ below(n) \in SUBSET Nat
  BY FS_Interval, SMT
<1>2. all \subseteq FiniteSubsetsOf(Nat) /\ all # {}
  BY <1>1 DEF FiniteSubsetsOf
<1>3. PICK m \in all : \A k \in all : ~ (<< k, m >> \in StrictSubsetOrdering(Nat))
  <2>1. IsWellFoundedOn(StrictSubsetOrdering(Nat), FiniteSubsetsOf(Nat))
    BY FS_StrictSubsetOrderingWellFounded
  <2> HIDE DEF all
  <2> QED BY <1>2, <2>1, WFMin
<1>4. PICK x \in T : m = below(x)
  BY DEF all
<1>5. ASSUME NEW y \in T, ~ (x <= y) PROVE FALSE
  <2>1. y \in Nat /\ x \in Nat /\ y < x
    BY <1>5, SMT
  <2>2. below(y) \subseteq below(x) /\ y \in below(x) /\ y \notin below(y)
    BY <2>1, SMT
  <2>3. below(y) \in all
    OBVIOUS
  <2> HIDE DEF below, all
  <2>4. << below(y), m >> \in StrictSubsetOrdering(Nat)
    BY <1>1, <1>4, <2>1, <2>2 DEF StrictSubsetOrdering
  <2> QED BY <1>3, <2>3, <2>4
<1> QED BY <1>5

\* Induction over the numbers, for a property given as a set.
LEMMA SetInduction ==
  ASSUME NEW T, T \subseteq Nat, 0 \in T, \A n \in T : n + 1 \in T
  PROVE  T = Nat
<1>1. ASSUME T # Nat PROVE FALSE
  <2>1. PICK x \in Nat \ T : \A y \in Nat \ T : x <= y
    BY <1>1, Least
  <2>2. x # 0 /\ x - 1 \in Nat
    BY <2>1, SMT
  <2>3. x - 1 \in T
    BY <2>1, <2>2, SMT
  <2> QED BY <2>1, <2>3, SMT
<1> QED BY <1>1

\* Among subsets of a finite set there is a smallest.
LEMMA LeastSubset ==
  ASSUME NEW S, IsFiniteSet(S), NEW T, T \subseteq SUBSET S, T # {}
  PROVE  \E x \in T : \A y \in T : y \subseteq x => y = x
<1>1. T \subseteq FiniteSubsetsOf(S)
  BY FS_Subset DEF FiniteSubsetsOf
<1>2. IsWellFoundedOn(StrictSubsetOrdering(S), FiniteSubsetsOf(S))
  BY FS_StrictSubsetOrderingWellFounded
<1>3. PICK x \in T : \A y \in T : ~ (<< y, x >> \in StrictSubsetOrdering(S))
  BY <1>1, <1>2, WFMin
<1>4. ASSUME NEW y \in T, y \subseteq x PROVE y = x
  BY <1>3, <1>4 DEF StrictSubsetOrdering
<1> QED BY <1>4

-----------------------------------------------------------------------------
(* Sums over finite sets.                                                    *)

SumOver(f, S) == MapThenSumSet(LAMBDA x : f[x], S)

Pick(s) == CHOOSE x \in s : TRUE
SumsOf(f, S, g) ==
    g = [s \in SUBSET S |-> IF s = {} THEN 0 ELSE f[Pick(s)] + g[s \ {Pick(s)}]]

LEMMA SumUnfold ==
  ASSUME NEW f, NEW S
  PROVE  SumOver(f, S) = (CHOOSE g : SumsOf(f, S, g))[S]
BY DEF SumOver, MapThenSumSet, MapThenFoldSet, SumsOf, Pick

LEMMA PickIn ==
  ASSUME NEW s, s # {}
  PROVE  Pick(s) \in s
BY DEF Pick

LEMMA SumsAt ==
  ASSUME NEW f, NEW S, NEW g, SumsOf(f, S, g), NEW s \in SUBSET S
  PROVE  g[s] = IF s = {} THEN 0 ELSE f[Pick(s)] + g[s \ {Pick(s)}]
BY DEF SumsOf

LEMMA SumsAgree ==
  ASSUME NEW f, NEW S, NEW T, NEW g, NEW h, SumsOf(f, S, g), SumsOf(f, T, h),
         NEW s, IsFiniteSet(s), s \subseteq S, s \subseteq T
  PROVE  g[s] = h[s]
<1> DEFINE bad == {u \in SUBSET s : g[u] # h[u]}
<1>1. ASSUME bad # {} PROVE FALSE
  <2>1. PICK x \in bad : \A y \in bad : y \subseteq x => y = x
    <3>1. bad \subseteq SUBSET s
      OBVIOUS
    <3> HIDE DEF bad
    <3> QED BY <1>1, <3>1, LeastSubset
  <2>2. x \in SUBSET S /\ x \in SUBSET T /\ x \in SUBSET s /\ g[x] # h[x]
    OBVIOUS
  <2>3. x # {}
    BY <2>2, SumsAt
  <2>4. Pick(x) \in x
    BY <2>3, PickIn
  <2>5. g[x \ {Pick(x)}] = h[x \ {Pick(x)}]
    BY <2>1, <2>2, <2>4
  <2>6. g[x] = f[Pick(x)] + g[x \ {Pick(x)}] /\ h[x] = f[Pick(x)] + h[x \ {Pick(x)}]
    BY <2>2, <2>3, SumsAt
  <2> QED BY <2>2, <2>5, <2>6
<1> QED BY <1>1

LEMMA SumsExist ==
  ASSUME NEW f, NEW S, IsFiniteSet(S)
  PROVE  \E g : SumsOf(f, S, g)
<1> DEFINE bad == {u \in SUBSET S : ~ \E g : SumsOf(f, u, g)}
           C(u) == CHOOSE g : SumsOf(f, u, g)
<1>1. ASSUME bad # {} PROVE FALSE
  <2>1. PICK x \in bad : \A y \in bad : y \subseteq x => y = x
    <3>1. bad \subseteq SUBSET S
      OBVIOUS
    <3> HIDE DEF bad
    <3> QED BY <1>1, <3>1, LeastSubset
  <2>2. x \in SUBSET S /\ ~ \E g : SumsOf(f, x, g)
    OBVIOUS
  <2>3. \A u \in SUBSET x : u # x => SumsOf(f, u, C(u))
    BY <2>1, <2>2
  <2> DEFINE v(u) == u \ {Pick(u)}
             G == [u \in SUBSET x |-> IF u = {} THEN 0 ELSE f[Pick(u)] + C(v(u))[v(u)]]
  <2> HIDE DEF C
  <2>4. ASSUME NEW u \in SUBSET x, u # {} PROVE G[v(u)] = C(v(u))[v(u)]
    <3>1. v(u) \in SUBSET x /\ v(u) # x
      BY <2>4, PickIn
    <3>2. SumsOf(f, v(u), C(v(u)))
      BY <2>3, <3>1
    <3>3. CASE v(u) = {}
      <4>1. C(v(u))[v(u)] = 0
        BY <3>2, <3>3, SumsAt
      <4> QED BY <3>1, <3>3, <4>1
    <3>4. CASE v(u) # {}
      <4> DEFINE w == v(v(u))
      <4>1. w \in SUBSET v(u) /\ w \in SUBSET x /\ w # x
        BY <3>1
      <4>2. SumsOf(f, w, C(w))
        BY <2>3, <4>1
      <4>3. IsFiniteSet(w)
        BY <2>2, <4>1, FS_Subset
      <4>4. C(w)[w] = C(v(u))[w]
        <5> HIDE DEF w, v
        <5> QED BY <3>2, <4>1, <4>2, <4>3, SumsAgree
      <4>5. C(v(u))[v(u)] = f[Pick(v(u))] + C(v(u))[v(u) \ {Pick(v(u))}]
        <5> HIDE DEF v
        <5> QED BY <3>2, <3>4, SumsAt
      <4>6. G[v(u)] = f[Pick(v(u))] + C(w)[w]
        BY <3>1, <3>4
      <4> QED BY <4>4, <4>5, <4>6
    <3> QED BY <3>3, <3>4
  <2>5. SumsOf(f, x, G)
    <3>1. ASSUME NEW u \in SUBSET x
          PROVE  G[u] = IF u = {} THEN 0 ELSE f[Pick(u)] + G[u \ {Pick(u)}]
      BY <2>4
    <3>2. G = [u \in SUBSET x |-> G[u]]
      OBVIOUS
    <3> HIDE DEF G
    <3> QED BY <3>1, <3>2 DEF SumsOf
  <2> QED BY <2>2, <2>5
<1>2. S \in SUBSET S
  OBVIOUS
<1> QED BY <1>1, <1>2

LEMMA SumEmpty ==
  ASSUME NEW f
  PROVE  SumOver(f, {}) = 0
<1>1. IsFiniteSet({})
  BY FS_EmptySet
<1>2. \E g : SumsOf(f, {}, g)
  BY <1>1, SumsExist
<1>3. SumsOf(f, {}, CHOOSE g : SumsOf(f, {}, g))
  BY <1>2
<1> QED BY <1>3, SumUnfold, SumsAt

LEMMA SumStep ==
  ASSUME NEW f, NEW S, IsFiniteSet(S), S # {}
  PROVE  SumOver(f, S) = f[Pick(S)] + SumOver(f, S \ {Pick(S)})
<1> DEFINE T == S \ {Pick(S)}
           g == CHOOSE k : SumsOf(f, S, k)
           h == CHOOSE k : SumsOf(f, T, k)
<1>1. IsFiniteSet(T) /\ T \subseteq S
  BY FS_Subset
<1>2. SumsOf(f, S, g)
  BY SumsExist
<1>3. SumsOf(f, T, h)
  <2> HIDE DEF T
  <2> QED BY <1>1, SumsExist
<1>4. SumOver(f, S) = g[S] /\ SumOver(f, T) = h[T]
  BY SumUnfold
<1> HIDE DEF g, h
<1>5. g[S] = f[Pick(S)] + g[T]
  BY <1>2, SumsAt
<1>6. g[T] = h[T]
  <2> HIDE DEF T
  <2> QED BY <1>1, <1>2, <1>3, SumsAgree
<1> QED BY <1>4, <1>5, <1>6

LEMMA SumNat ==
  ASSUME NEW f, NEW S, IsFiniteSet(S), \A x \in S : f[x] \in Nat
  PROVE  SumOver(f, S) \in Nat
<1> DEFINE bad == {u \in SUBSET S : SumOver(f, u) \notin Nat}
<1>1. ASSUME bad # {} PROVE FALSE
  <2>1. PICK x \in bad : \A y \in bad : y \subseteq x => y = x
    <3>1. bad \subseteq SUBSET S
      OBVIOUS
    <3> HIDE DEF bad
    <3> QED BY <1>1, <3>1, LeastSubset
  <2>2. IsFiniteSet(x) /\ SumOver(f, x) \notin Nat /\ x \subseteq S
    BY FS_Subset
  <2>3. x # {}
    BY <2>2, SumEmpty
  <2>4. Pick(x) \in x
    BY <2>3, PickIn
  <2>5. SumOver(f, x \ {Pick(x)}) \in Nat
    BY <2>1, <2>2, <2>4
  <2>6. SumOver(f, x) = f[Pick(x)] + SumOver(f, x \ {Pick(x)})
    BY <2>2, <2>3, SumStep
  <2>7. f[Pick(x)] \in Nat
    BY <2>2, <2>4
  <2> HIDE DEF bad
  <2> QED BY <2>2, <2>5, <2>6, <2>7, SMT
<1> QED BY <1>1

\* The elements may be added in any order.
LEMMA SumRemove ==
  ASSUME NEW f, NEW S, IsFiniteSet(S), \A x \in S : f[x] \in Nat, NEW e \in S
  PROVE  SumOver(f, S) = f[e] + SumOver(f, S \ {e})
<1> DEFINE bad == {u \in SUBSET S : \E y \in u : SumOver(f, u) # f[y] + SumOver(f, u \ {y})}
<1>1. ASSUME bad # {} PROVE FALSE
  <2>1. PICK x \in bad : \A y \in bad : y \subseteq x => y = x
    <3>1. bad \subseteq SUBSET S
      OBVIOUS
    <3> HIDE DEF bad
    <3> QED BY <1>1, <3>1, LeastSubset
  <2>2. IsFiniteSet(x) /\ x \subseteq S
    BY FS_Subset
  <2>3. PICK y \in x : SumOver(f, x) # f[y] + SumOver(f, x \ {y})
    OBVIOUS
  <2> DEFINE p == Pick(x)
  <2>4. p \in x
    BY <2>3, PickIn
  <2>5. SumOver(f, x) = f[p] + SumOver(f, x \ {p})
    BY <2>2, <2>3, SumStep
  <2> HIDE DEF p
  <2>6. p # y
    BY <2>3, <2>5
  <2>7. \A z \in x : x \ {z} \notin bad /\ x \ {z} \in SUBSET S
    BY <2>1, <2>2
  <2>8. SumOver(f, x \ {p}) = f[y] + SumOver(f, (x \ {p}) \ {y})
    BY <2>3, <2>4, <2>6, <2>7
  <2>9. SumOver(f, x \ {y}) = f[p] + SumOver(f, (x \ {y}) \ {p})
    BY <2>3, <2>4, <2>6, <2>7
  <2>10. (x \ {p}) \ {y} = (x \ {y}) \ {p}
    OBVIOUS
  <2>11. SumOver(f, (x \ {y}) \ {p}) \in Nat
    <3>1. IsFiniteSet((x \ {y}) \ {p}) /\ \A z \in (x \ {y}) \ {p} : f[z] \in Nat
      BY <2>2, FS_Subset
    <3> QED BY <3>1, SumNat
  <2>12. f[p] \in Nat /\ f[y] \in Nat
    BY <2>2, <2>3, <2>4
  <2> DEFINE r == SumOver(f, (x \ {y}) \ {p})
  <2>13. SumOver(f, x) = f[p] + (f[y] + r) /\ SumOver(f, x \ {y}) = f[p] + r
    BY <2>5, <2>8, <2>9, <2>10
  <2>14. f[p] + (f[y] + r) = f[y] + (f[p] + r)
    <3> HIDE DEF r, bad
    <3> QED BY <2>11, <2>12, SMT DEF r
  <2> QED BY <2>3, <2>13, <2>14
<1>2. S \notin bad
  BY <1>1
<1> QED BY <1>2

LEMMA SumAdd ==
  ASSUME NEW f, NEW S, IsFiniteSet(S), NEW e, e \notin S, \A x \in S \cup {e} : f[x] \in Nat
  PROVE  SumOver(f, S \cup {e}) = f[e] + SumOver(f, S)
<1>1. IsFiniteSet(S \cup {e}) /\ (S \cup {e}) \ {e} = S
  BY FS_AddElement
<1> QED BY <1>1, SumRemove

\* A sum depends on the values at the elements only.
LEMMA SumSame ==
  ASSUME NEW f, NEW g, NEW S, IsFiniteSet(S), \A x \in S : f[x] = g[x]
  PROVE  SumOver(f, S) = SumOver(g, S)
<1> DEFINE bad == {u \in SUBSET S : SumOver(f, u) # SumOver(g, u)}
<1>1. ASSUME bad # {} PROVE FALSE
  <2>1. PICK x \in bad : \A y \in bad : y \subseteq x => y = x
    <3>1. bad \subseteq SUBSET S
      OBVIOUS
    <3> HIDE DEF bad
    <3> QED BY <1>1, <3>1, LeastSubset
  <2>2. IsFiniteSet(x) /\ x \subseteq S /\ SumOver(f, x) # SumOver(g, x)
    BY FS_Subset
  <2>3. x # {}
    BY <2>2, SumEmpty
  <2>4. Pick(x) \in x
    BY <2>3, PickIn
  <2>5. SumOver(f, x \ {Pick(x)}) = SumOver(g, x \ {Pick(x)})
    BY <2>1, <2>2, <2>4
  <2>6. SumOver(f, x) = f[Pick(x)] + SumOver(f, x \ {Pick(x)})
    BY <2>2, <2>3, SumStep
  <2>7. SumOver(g, x) = g[Pick(x)] + SumOver(g, x \ {Pick(x)})
    BY <2>2, <2>3, SumStep
  <2> QED BY <2>2, <2>4, <2>5, <2>6, <2>7
<1>2. S \notin bad
  BY <1>1
<1> QED BY <1>2

-----------------------------------------------------------------------------
(* Sums of the first n values of a sequence of numbers that starts at 0.     *)

LEMMA FirstNone ==
  ASSUME NEW f
  PROVE  SumOver(f, 0..(0 - 1)) = 0
<1>1. 0..(0 - 1) = {}
  BY SMT
<1> QED BY <1>1, SumEmpty

LEMMA FirstNext ==
  ASSUME NEW f, NEW n \in Nat, \A x \in 0..n : f[x] \in Nat
  PROVE  /\ SumOver(f, 0..(n - 1)) \in Nat
         /\ SumOver(f, 0..n) = SumOver(f, 0..(n - 1)) + f[n]
<1>1. IsFiniteSet(0..(n - 1)) /\ n \notin 0..(n - 1) /\ 0..n = 0..(n - 1) \cup {n}
  <2>1. n - 1 \in Int /\ n \notin 0..(n - 1)
    BY SMT
  <2>2. IsFiniteSet(0..(n - 1))
    BY <2>1, FS_Interval
  <2>3. 0..n = 0..(n - 1) \cup {n}
    BY SMT
  <2> QED BY <2>1, <2>2, <2>3
<1>2. SumOver(f, 0..(n - 1) \cup {n}) = f[n] + SumOver(f, 0..(n - 1))
  BY <1>1, SumAdd
<1>3. SumOver(f, 0..(n - 1)) \in Nat /\ f[n] \in Nat
  BY <1>1, SumNat
<1> DEFINE s == SumOver(f, 0..(n - 1))
<1>4. f[n] + s = s + f[n]
  <2> HIDE DEF s
  <2> QED BY <1>3, SMT DEF s
<1> QED BY <1>1, <1>2, <1>3, <1>4

\* What the first values add up to, step by step.
FirstSums(f, N, s) ==
    /\ s \in [0..N -> Nat] /\ s[0] = 0
    /\ \A n \in 0..(N - 1) : s[n + 1] = s[n] + f[n]

LEMMA FirstSumsOf ==
  ASSUME NEW N \in Nat, NEW f \in [0..(N - 1) -> Nat]
  PROVE  FirstSums(f, N, [n \in 0..N |-> SumOver(f, 0..(n - 1))])
<1> DEFINE s == [n \in 0..N |-> SumOver(f, 0..(n - 1))]
<1>1. ASSUME NEW n \in 0..N PROVE SumOver(f, 0..(n - 1)) \in Nat
  <2>1. n - 1 \in Int /\ \A x \in 0..(n - 1) : x \in 0..(N - 1)
    BY SMT
  <2>2. IsFiniteSet(0..(n - 1))
    BY <2>1, FS_Interval
  <2>3. \A x \in 0..(n - 1) : f[x] \in Nat
    BY <2>1
  <2> QED BY <2>2, <2>3, SumNat
<1>2. s[0] = 0
  BY FirstNone, SMT
<1>3. ASSUME NEW n \in 0..(N - 1) PROVE s[n + 1] = s[n] + f[n]
  <2>1. n \in Nat /\ n + 1 \in 0..N /\ n \in 0..N /\ (n + 1) - 1 = n
    BY SMT
  <2>2. \A x \in 0..n : f[x] \in Nat
    BY SMT
  <2>3. SumOver(f, 0..n) = SumOver(f, 0..(n - 1)) + f[n]
    BY <2>1, <2>2, FirstNext
  <2> QED BY <2>1, <2>3
<1> QED BY <1>1, <1>2, <1>3 DEF FirstSums

\* The sums grow.
LEMMA SumsGrow ==
  ASSUME NEW N \in Nat, NEW f \in [0..(N - 1) -> Nat], NEW s, FirstSums(f, N, s),
         NEW m \in 0..N, NEW n \in 0..N, m <= n
  PROVE  s[m] <= s[n]
<1> DEFINE T == {k \in Nat : m + k <= N => s[m] <= s[m + k]}
<1>1. 0 \in T
  BY SMT DEF FirstSums
<1>2. ASSUME NEW k \in T PROVE k + 1 \in T
  <2>1. ASSUME m + (k + 1) <= N PROVE s[m] <= s[m + (k + 1)]
    <3>1. m + k \in 0..(N - 1) /\ m + (k + 1) = (m + k) + 1 /\ m + k \in 0..N
      BY <2>1, SMT
    <3>2. s[m + k] \in Nat /\ s[m] \in Nat /\ f[m + k] \in Nat
      BY <3>1 DEF FirstSums
    <3>3. s[(m + k) + 1] = s[m + k] + f[m + k]
      BY <3>1 DEF FirstSums
    <3>4. s[m] <= s[m + k]
      BY <3>1, SMT
    <3> HIDE DEF T
    <3> QED BY <3>1, <3>2, <3>3, <3>4, SMT
  <2> QED BY <2>1
<1>3. T = Nat
  <2>1. T \subseteq Nat
    OBVIOUS
  <2> HIDE DEF T
  <2> QED BY <1>1, <1>2, <2>1, SetInduction
<1>4. n - m \in Nat /\ m + (n - m) = n
  BY SMT
<1>5. n - m \in T
  BY <1>3, <1>4
<1> QED BY <1>4, <1>5

\* Every number below the whole sum falls within the range of one value.
LEMMA SumsCover ==
  ASSUME NEW N \in Nat, NEW f \in [0..(N - 1) -> Nat], NEW s, FirstSums(f, N, s),
         NEW i \in Nat, i < s[N]
  PROVE  \E n \in 0..(N - 1) : s[n] <= i /\ i < s[n] + f[n] /\ s[n + 1] = s[n] + f[n]
<1> DEFINE T == {n \in 0..N : i < s[n]}
<1>1. T \subseteq Nat /\ T # {}
  BY SMT
<1>2. PICK m \in T : \A k \in T : m <= k
  <2> HIDE DEF T
  <2> QED BY <1>1, Least
<1>3. m \in 0..N /\ i < s[m] /\ m # 0
  BY SMT DEF FirstSums
<1>4. m - 1 \in 0..(N - 1) /\ m - 1 \in 0..N /\ (m - 1) + 1 = m
  BY <1>3, SMT
<1>5. ~ (i < s[m - 1])
  BY <1>2, <1>4, SMT
<1>6. s[m - 1] \in Nat /\ s[m] = s[m - 1] + f[m - 1]
  BY <1>4 DEF FirstSums
<1> HIDE DEF T
<1>7. s[m - 1] <= i /\ i < s[m - 1] + f[m - 1]
  BY <1>3, <1>5, <1>6, SMT
<1> QED BY <1>4, <1>6, <1>7

\* The ranges of two values do not meet.
LEMMA SumsApart ==
  ASSUME NEW N \in Nat, NEW f \in [0..(N - 1) -> Nat], NEW s, FirstSums(f, N, s),
         NEW m \in 0..(N - 1), NEW n \in 0..(N - 1), NEW i \in Nat,
         s[m] <= i, i < s[m] + f[m], s[n] <= i, i < s[n] + f[n]
  PROVE  m = n
<1>1. ASSUME NEW a \in 0..(N - 1), NEW b \in 0..(N - 1), a < b,
             i < s[a] + f[a], s[b] <= i
      PROVE  FALSE
  <2>1. a + 1 \in 0..N /\ b \in 0..N /\ a + 1 <= b
    BY <1>1, SMT
  <2>2. s[a + 1] <= s[b]
    BY <2>1, SumsGrow
  <2>3. s[a + 1] = s[a] + f[a] /\ s[b] \in Nat /\ f[a] \in Nat
    BY <2>1 DEF FirstSums
  <2>4. a \in 0..N
    BY SMT
  <2>5. s[a] \in Nat
    BY <2>4 DEF FirstSums
  <2> QED BY <1>1, <2>2, <2>3, <2>5, SMT
<1>2. ~ (m < n) /\ ~ (n < m)
  BY <1>1
<1> QED BY <1>2, SMT

\* The sum of numbers divided by B and rounded up one by one exceeds their sum, divided
\* by B, by one a number at most.
LEMMA RoundedSums ==
  ASSUME NEW N \in Nat, NEW B \in Nat \ {0},
         NEW c \in [0..(N - 1) -> Nat], NEW t \in [0..(N - 1) -> Nat],
         \A m \in 0..(N - 1) : B * t[m] + 1 <= c[m] + B,
         NEW s, FirstSums(c, N, s), NEW b, FirstSums(t, N, b),
         NEW n \in Nat, s[N] <= n
  PROVE  b[N] <= n \div B + N
<1> DEFINE T == {m \in Nat : m <= N => B * b[m] + m <= s[m] + m * B}
<1>1. 0 \in T
  BY SMT DEF FirstSums
<1>2. ASSUME NEW m \in T PROVE m + 1 \in T
  <2>1. ASSUME m + 1 <= N PROVE B * b[m + 1] + (m + 1) <= s[m + 1] + (m + 1) * B
    <3>1. m \in 0..(N - 1) /\ m \in 0..N /\ m \in Nat /\ m <= N
      BY <2>1, SMT
    <3> DEFINE bm == b[m]
               tm == t[m]
               sm == s[m]
               cm == c[m]
    <3>2. /\ b[m + 1] = bm + tm /\ s[m + 1] = sm + cm
          /\ bm \in Nat /\ sm \in Nat /\ tm \in Nat /\ cm \in Nat
      BY <3>1 DEF FirstSums
    <3>3. B * tm + 1 <= cm + B /\ B * bm + m <= sm + m * B
      BY <3>1
    <3>0. N \in Nat /\ B \in Nat /\ m + 1 \in Nat
      BY <3>1, SMT
    <3> HIDE DEF T, bm, tm, sm, cm
    <3>4. B * (bm + tm) = B * bm + B * tm /\ (m + 1) * B = m * B + B
      BY <3>1, <3>2, SMT
    <3> DEFINE x == B * bm
               y == B * tm
               z == m * B
    <3>5. x \in Nat /\ y \in Nat /\ z \in Nat
      BY <3>1, <3>2, SMT
    <3>6. x + m <= sm + z /\ y + 1 <= cm + B
      BY <3>3
    <3>7. B * (bm + tm) = x + y /\ (m + 1) * B = z + B
      BY <3>4
    <3> HIDE DEF x, y, z
    <3>8. (x + y) + (m + 1) <= (sm + cm) + (z + B)
      BY <3>1, <3>2, <3>5, <3>6, SMT
    <3>9. B * (bm + tm) + (m + 1) <= (sm + cm) + (m + 1) * B
      BY <3>7, <3>8
    <3> QED BY <3>2, <3>9
  <2>2. m \in Nat /\ m + 1 \in Nat
    BY SMT
  <2> QED BY <2>1, <2>2
<1>3. T = Nat
  <2>1. T \subseteq Nat
    OBVIOUS
  <2> HIDE DEF T
  <2> QED BY <1>1, <1>2, <2>1, SetInduction
<1>4. B * b[N] + N <= s[N] + N * B
  <2>1. N \in T
    BY <1>3
  <2> QED BY <2>1
<1>5. b[N] \in Nat /\ s[N] \in Nat
  BY SMT DEF FirstSums
<1> DEFINE d == n \div B
<1>6. d \in Nat /\ B * d <= n /\ n < B * d + B
  BY DivBounds
<1> DEFINE bN == b[N]
           sN == s[N]
<1>7. ASSUME ~ (bN <= d + N) PROVE FALSE
  <2>0. bN \in Nat /\ sN \in Nat /\ B * bN + N <= sN + N * B /\ sN <= n
    BY <1>4, <1>5
  <2> HIDE DEF T, d, bN, sN
  <2>1. d + N + 1 <= bN
    BY <1>6, <1>7, <2>0, SMT
  <2>2. B * (d + N + 1) <= B * bN
    BY <1>6, <2>0, <2>1, ProductMonotone
  <2>3. B * (d + N + 1) = B * d + N * B + B
    BY <1>6, SMT
  <2>4. B * d \in Nat /\ N * B \in Nat /\ B * bN \in Nat
    BY <1>6, <2>0, SMT
  <2> DEFINE x == B * d
             y == N * B
             z == B * bN
  <2>5. /\ x \in Nat /\ y \in Nat /\ z \in Nat /\ x + y + B <= z
        /\ z + N <= sN + y /\ n < x + B
    BY <1>6, <2>0, <2>2, <2>3, <2>4
  <2> HIDE DEF x, y, z
  <2> QED BY <2>0, <2>5, SMT
<1> QED BY <1>7

=============================================================================
