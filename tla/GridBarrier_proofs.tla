-------------------------- MODULE GridBarrier_proofs --------------------------
(* TLAPS proofs about GridBarrier, for any blocks, ids, seeds, number of     *)
(* calls and of launches.  What the proofs need of the call sites is that no *)
(* two of a launch share a counter word (FreshSlots), which is how the       *)
(* prefill kernels use the barrier.  And about BlockScan, whose threads meet *)
(* in the abstract barrier, for any number of experts.                       *)
EXTENDS GridBarrier, BlockScan, NumberLemmas

-----------------------------------------------------------------------------
(* Arrival sets and words.                                                   *)

LEMMA MembersFacts ==
    ASSUME NEW i \in Ids
    PROVE  /\ IsFiniteSet(Members(i))
           /\ ArrivalCount(i) \in Nat
           /\ ArrivalCount(i) <= HighBit
           /\ SeedOf[i] \in Members(i)
           /\ ArrivalCount(i) >= 1
           /\ HighBit \in Nat
<1>1. Members(i) \in SUBSET Blocks
  BY DEF Members
<1>2. /\ IsFiniteSet(Members(i))
      /\ Cardinality(Members(i)) <= Cardinality(Blocks)
  BY <1>1, FS_Subset, BarrierAssumption
<1>3. Cardinality(Blocks) \in Nat /\ Cardinality(Members(i)) \in Nat
  BY <1>2, FS_CardinalityType, BarrierAssumption
<1>4. SeedOf[i] \in Members(i)
  BY BarrierAssumption DEF Members
<1>5. Cardinality(Members(i)) # 0
  BY <1>2, <1>4, FS_EmptySet
<1>6. QED
  BY <1>2, <1>3, <1>4, <1>5, BarrierAssumption DEF ArrivalCount

LEMMA ArrivedFacts ==
    ASSUME NEW i \in Ids, NEW k
    PROVE  /\ IsFiniteSet(ArrivedSet(i, k))
           /\ Cardinality(ArrivedSet(i, k)) \in Nat
           /\ Cardinality(ArrivedSet(i, k)) <= ArrivalCount(i)
           /\ Cardinality(ArrivedSet(i, k)) = ArrivalCount(i)
                => ArrivedSet(i, k) = Members(i)
<1>1. ArrivedSet(i, k) \in SUBSET Members(i)
  BY DEF ArrivedSet
<1>2. QED
  BY <1>1, MembersFacts, FS_Subset, FS_CardinalityType DEF ArrivalCount

LEMMA WordFacts ==
    ASSUME NEW v \in Word, NEW d \in Word
    PROVE  /\ WrapAdd(v, d) \in Word
           /\ Low31(v) \in 0..(HighBit - 1)
           /\ Fold(v) \in 0..(HighBit - 1)
           /\ HighBit >= 1
<1>1. HighBit \in Nat
  BY BarrierAssumption
<1>2. QED
  BY <1>1 DEF Word, WrapAdd, Low31, Fold

LEMMA SeedWord ==
    ASSUME NEW i \in Ids
    PROVE  /\ SeedValue(i) \in Nat
           /\ SeedValue(i) \in Word
           /\ SeedValue(i) <= HighBit
           /\ SeedValue(i) + (ArrivalCount(i) - 1) = HighBit
           /\ 0 \in Word /\ 1 \in Word
BY MembersFacts DEF SeedValue, Word

-----------------------------------------------------------------------------
(* Type correctness.                                                         *)

LEMMA InitType == Init => TypeOK
<1> SUFFICES ASSUME Init PROVE TypeOK
  OBVIOUS
<1>1. PICK g \in Garbage : counter = [i \in Ids |-> [s \in Slots |-> g]]
  BY DEF Init
<1>2. g \in Word
  BY BarrierAssumption DEF Word
<1>3. counter \in [Ids -> [Slots -> Word]]
  BY <1>1, <1>2
<1>4. toFold \in [Blocks -> 0..(HighBit - 1)]
  <2>1. CASE Blocks = {}
    BY <2>1 DEF Init
  <2>2. CASE Blocks # {}
    <3>1. Cardinality(Blocks) # 0 /\ Cardinality(Blocks) \in Nat
      BY <2>2, FS_EmptySet, FS_CardinalityType, BarrierAssumption
    <3>2. HighBit >= 1 /\ HighBit \in Nat
      BY <3>1, BarrierAssumption
    <3>3. QED BY <3>2 DEF Init
  <2>3. QED BY <2>1, <2>2
<1>5. QED
  BY <1>3, <1>4, BarrierAssumption DEF Init, TypeOK

\* b's own word, before and after it is written.
LEMMA MyWordFacts ==
    ASSUME TypeOK, NEW b \in Blocks, call[b] \in 1..Calls,
           NEW v \in Word
    PROVE  /\ IdOf[b] \in Ids
           /\ SlotOf[call[b]] \in Slots
           /\ MyWord(b) \in Word
           /\ SetMyWord(b, v) \in [Ids -> [Slots -> Word]]
           /\ SetMyWord(b, v)[IdOf[b]][SlotOf[call[b]]] = v
           /\ \A i \in Ids, s \in Slots :
                (i # IdOf[b] \/ s # SlotOf[call[b]])
                    => SetMyWord(b, v)[i][s] = counter[i][s]
BY BarrierAssumption DEF TypeOK, MyWord, SetMyWord

\* A block inside a barrier call is inside one of the launch's calls, and a
\* retired block has made them all.
InCall ==
    \A b \in Blocks :
        /\ pc[b] \in {"fold", "spin"} => call[b] \in 1..Calls
        /\ pc[b] \in {"fold", "spin"} => ArrivalCount(IdOf[b]) # 1
        /\ pc[b] = "fold" => b = SeedOf[IdOf[b]]
        /\ pc[b] = "retired" => call[b] = Calls + 1

TypeInv == TypeOK /\ InCall

LEMMA StepType ==
    ASSUME TypeInv, [Next]_vars
    PROVE  TypeInv'
<1> USE DEF TypeInv
<1>a. Calls \in Nat /\ HighBit \in Nat
  BY BarrierAssumption
<1>b. ASSUME NEW b \in Blocks, AtCall(b)
      PROVE call[b] \in 1..Calls
  BY <1>a, <1>b DEF AtCall, TypeOK
<1>1. CASE Launch
  <2>1. ClearedCounters \in [Ids -> [Slots -> Word]] \/ Blocks = {}
    <3>1. CASE Blocks # {}
      <4>1. Cardinality(Blocks) # 0 /\ Cardinality(Blocks) \in Nat
        BY <3>1, FS_EmptySet, FS_CardinalityType, BarrierAssumption
      <4>2. 0 \in Word
        BY <4>1, BarrierAssumption DEF Word
      <4>3. QED BY <4>2 DEF ClearedCounters
    <3>2. QED BY <3>1
  <2>2. Ids = {} \/ Blocks # {}
    BY BarrierAssumption
  <2>3. ClearedCounters \in [Ids -> [Slots -> Word]]
    BY <2>1, <2>2 DEF ClearedCounters
  <2>4. QED
    BY <1>1, <2>3, <1>a, BarrierAssumption DEF Launch, TypeOK, InCall
<1>2. ASSUME NEW b \in Blocks, Place(b) PROVE TypeInv'
  BY <1>2 DEF Place, TypeOK, InCall
<1>3. ASSUME NEW b \in Blocks, PassAlone(b) PROVE TypeInv'
  BY <1>3, <1>a, <1>b DEF PassAlone, AtCall, NextCall, TypeOK, InCall
<1>4. ASSUME NEW b \in Blocks, Arrive(b) PROVE TypeInv'
  <2>1. call[b] \in 1..Calls /\ IdOf[b] \in Ids
    BY <1>4, <1>b, BarrierAssumption DEF Arrive
  <2>2. MyWord(b) \in Word /\ 1 \in Word
    BY <2>1, MyWordFacts, SeedWord
  <2>3. WrapAdd(MyWord(b), 1) \in Word
    BY <2>2, WordFacts
  <2>4. counter' \in [Ids -> [Slots -> Word]]
    BY <1>4, <2>1, <2>3, MyWordFacts DEF Arrive
  <2>5. QED
    BY <1>4, <2>1, <2>4 DEF Arrive, TypeOK, InCall
<1>5. ASSUME NEW b \in Blocks, Seed(b) PROVE TypeInv'
  <2>1. call[b] \in 1..Calls /\ IdOf[b] \in Ids
    BY <1>5, <1>b, BarrierAssumption DEF Seed
  <2>2. MyWord(b) \in Word /\ SeedValue(IdOf[b]) \in Word
    BY <2>1, MyWordFacts, SeedWord
  <2>3. Fold(MyWord(b)) \in 0..(HighBit - 1)
    BY <2>2, WordFacts
  <2>4. counter' \in [Ids -> [Slots -> Word]]
    BY <1>5, <2>1, <2>2, MyWordFacts DEF Seed
  <2>5. QED
    BY <1>5, <2>1, <2>3, <2>4 DEF Seed, TypeOK, InCall
<1>6. ASSUME NEW b \in Blocks, FoldBack(b) PROVE TypeInv'
  <2>1. call[b] \in 1..Calls /\ IdOf[b] \in Ids
    BY <1>6, BarrierAssumption DEF FoldBack, InCall
  <2>2. MyWord(b) \in Word /\ toFold[b] \in Word
    BY <2>1, MyWordFacts, SeedWord, <1>a DEF TypeOK, Word
  <2>3. WrapAdd(MyWord(b), toFold[b]) \in Word /\ HighBit >= 1
    BY <2>2, WordFacts
  <2>4. counter' \in [Ids -> [Slots -> Word]]
    BY <1>6, <2>1, <2>3, MyWordFacts DEF FoldBack
  <2>5. QED
    BY <1>6, <1>a, <2>1, <2>3, <2>4 DEF FoldBack, TypeOK, InCall
<1>7. ASSUME NEW b \in Blocks, Exit(b) PROVE TypeInv'
  <2>1. call[b] \in 1..Calls
    BY <1>7 DEF Exit, InCall
  <2>2. QED
    BY <1>7, <1>a, <2>1 DEF Exit, NextCall, TypeOK, InCall
<1>8. ASSUME NEW b \in Blocks, Retire(b) PROVE TypeInv'
  BY <1>8 DEF Retire, TypeOK, InCall
<1>9. CASE UNCHANGED vars
  BY <1>9 DEF vars, TypeOK, InCall
<1>10. QED
  BY <1>1, <1>2, <1>3, <1>4, <1>5, <1>6, <1>7, <1>8, <1>9
     DEF Next, Step, Finished

\* The counter words, the control points and the call numbers stay in their
\* ranges; in particular no block makes a call the launch does not have.
THEOREM TypeCorrect == Spec => []TypeOK
<1>1. Init => TypeInv
  BY InitType DEF TypeInv, InCall, Init
<1>2. TypeInv /\ [Next]_vars => TypeInv'
  BY StepType
<1>3. TypeInv => TypeOK
  BY DEF TypeInv
<1>4. QED
  BY <1>1, <1>2, <1>3, PTL DEF Spec

-----------------------------------------------------------------------------
(* The inductive invariant: the exact value of every word of a launch.       *)

\* CounterExact without its exception for the time between two launches is
\* not an invariant (the words are then whatever the caller left in them).
IInv == TypeInv /\ BarrierSafe /\ CounterExact

\* Bit 31 of a call's word is set only when the whole arrival set has arrived.
LEMMA HighBitMeansAll ==
    ASSUME TypeInv, NEW i \in Ids, NEW k \in 1..Calls, ArrivalCount(i) > 1,
           WordExact(i, k), Bit31(counter[i][SlotOf[k]])
    PROVE  \A c \in Members(i) : Arrived(c, k)
<1> DEFINE n == Cardinality(ArrivedSet(i, k))
           N == ArrivalCount(i)
           w == counter[i][SlotOf[k]]
           s == SeedOf[i]
<1>1. n \in Nat /\ N \in Nat /\ n <= N /\ N <= HighBit /\ HighBit \in Nat
  BY MembersFacts, ArrivedFacts
<1>2. w >= HighBit
  BY DEF Bit31
<1>3. n = N
  <2>1. CASE ~ Arrived(s, k)
    <3>1. w = n
      BY <2>1 DEF WordExact
    <3>2. QED
      BY <3>1, <1>1, <1>2
  <2>2. CASE Arrived(s, k) /\ call[s] = k /\ pc[s] = "fold"
    <3>1. toFold[s] \in 1..(n - 1) /\ w = SeedValue(i) + (n - 1) - toFold[s]
      BY <2>2 DEF WordExact
    <3>2. QED
      BY <3>1, <1>1, <1>2 DEF SeedValue
  <2>3. CASE Arrived(s, k) /\ ~ (call[s] = k /\ pc[s] = "fold")
    <3>1. w = SeedValue(i) + (n - 1)
      BY <2>3 DEF WordExact
    <3>2. QED
      BY <3>1, <1>1, <1>2 DEF SeedValue
  <2>4. QED BY <2>1, <2>2, <2>3
<1>4. ArrivedSet(i, k) = Members(i)
  BY <1>3, ArrivedFacts
<1>5. QED
  BY <1>4 DEF ArrivedSet

\* A block that enters a call joins exactly one arrival set.
LEMMA EnterSets ==
    ASSUME TypeInv, NEW b \in Blocks, AtCall(b), call' = call,
           NEW x \in {"fold", "spin"}, pc' = [pc EXCEPT ![b] = x]
    PROVE  /\ \A c \in Blocks, k \in 1..Calls :
                Arrived(c, k)' <=> (Arrived(c, k) \/ (c = b /\ k = call[b]))
           /\ ~ Arrived(b, call[b])
           /\ \A i \in Ids, k \in 1..Calls :
                (i # IdOf[b] \/ k # call[b]) => ArrivedSet(i, k)' = ArrivedSet(i, k)
           /\ \A i \in Ids, k \in 1..Calls :
                (i = IdOf[b] /\ k = call[b])
                    => Cardinality(ArrivedSet(i, k)')
                         = Cardinality(ArrivedSet(i, k)) + 1
<1>0. call[b] \in 1..Calls /\ IdOf[b] \in Ids
  <2>1. IdOf[b] \in Ids /\ Calls \in Nat
    BY BarrierAssumption
  <2>2. call[b] \in 1..(Calls + 1) /\ call[b] <= Calls
    BY DEF TypeInv, TypeOK, AtCall
  <2>3. QED BY <2>1, <2>2
<1>1. \A c \in Blocks, k \in 1..Calls :
          Arrived(c, k)' <=> (Arrived(c, k) \/ (c = b /\ k = call[b]))
  <2> SUFFICES ASSUME NEW c \in Blocks, NEW k \in 1..Calls
               PROVE  Arrived(c, k)' <=> (Arrived(c, k) \/ (c = b /\ k = call[b]))
    OBVIOUS
  <2>1. CASE c = b
    BY <2>1 DEF Arrived, AtCall, TypeInv, TypeOK
  <2>2. CASE c # b
    BY <2>2 DEF Arrived, TypeInv, TypeOK
  <2>3. QED BY <2>1, <2>2
<1>2. ~ Arrived(b, call[b])
  BY <1>0 DEF Arrived, AtCall
<1>3. ASSUME NEW i \in Ids, NEW k \in 1..Calls, i # IdOf[b] \/ k # call[b]
      PROVE  ArrivedSet(i, k)' = ArrivedSet(i, k)
  BY <1>1, <1>3 DEF ArrivedSet, Members
<1>4. ASSUME NEW i \in Ids, NEW k \in 1..Calls, i = IdOf[b], k = call[b]
      PROVE  Cardinality(ArrivedSet(i, k)') = Cardinality(ArrivedSet(i, k)) + 1
  <2>1. ArrivedSet(i, k)' = ArrivedSet(i, k) \cup {b}
    <3>1. ArrivedSet(i, k)' = {c \in Members(i) : Arrived(c, k)'}
      BY DEF ArrivedSet, Members
    <3>2. \A c \in Members(i) : c \in Blocks
      BY DEF Members
    <3>3. b \in Members(i)
      BY <1>4 DEF Members
    <3>4. QED
      BY <1>1, <1>4, <3>1, <3>2, <3>3 DEF ArrivedSet
  <2>2. b \notin ArrivedSet(i, k)
    BY <1>2, <1>4 DEF ArrivedSet
  <2>3. QED
    BY <2>1, <2>2, ArrivedFacts, FS_AddElement
<1>5. QED
  BY <1>1, <1>2, <1>3, <1>4

\* Actions that change nobody's arrivals keep the arrival sets.
LEMMA SameSets ==
    ASSUME NEW i \in Ids, NEW k \in 1..Calls,
           \A c \in Blocks : Arrived(c, k)' <=> Arrived(c, k)
    PROVE  ArrivedSet(i, k)' = ArrivedSet(i, k)
BY DEF ArrivedSet, Members

\* Writing one's own word leaves the word of every other id and call alone.
LEMMA OtherWords ==
    ASSUME FreshSlots, TypeInv, NEW b \in Blocks, call[b] \in 1..Calls,
           NEW v \in Word, counter' = SetMyWord(b, v)
    PROVE  /\ counter'[IdOf[b]][SlotOf[call[b]]] = v
           /\ \A i \in Ids, k \in 1..Calls :
                (i # IdOf[b] \/ k # call[b])
                    => counter'[i][SlotOf[k]] = counter[i][SlotOf[k]]
<1>1. TypeOK
  BY DEF TypeInv
<1>2. ASSUME NEW i \in Ids, NEW k \in 1..Calls, i # IdOf[b] \/ k # call[b]
      PROVE  counter'[i][SlotOf[k]] = counter[i][SlotOf[k]]
  <2>1. SlotOf[k] \in Slots
    BY BarrierAssumption
  <2>2. i # IdOf[b] \/ SlotOf[k] # SlotOf[call[b]]
    BY <1>2 DEF FreshSlots
  <2>3. QED
    BY <1>1, <2>1, <2>2, MyWordFacts
<1>3. QED
  BY <1>1, <1>2, MyWordFacts

LEMMA ArriveStep ==
    ASSUME FreshSlots, IInv, TypeInv', NEW b \in Blocks, Arrive(b)
    PROVE  IInv'
<1> DEFINE i0 == IdOf[b]
           k0 == call[b]
<1>0. /\ TypeInv /\ AtCall(b) /\ call' = call /\ toFold' = toFold
      /\ pc' = [pc EXCEPT ![b] = "spin"]
      /\ \A c \in Blocks : c # b => pc'[c] = pc[c]
      /\ k0 \in 1..Calls /\ i0 \in Ids /\ b # SeedOf[i0] /\ ~ Idle
      /\ MyWord(b) \in Word /\ 1 \in Word
  <2>1. TypeInv /\ AtCall(b) /\ b # SeedOf[i0] /\ TypeOK
    BY DEF IInv, Arrive, TypeInv
  <2>2. k0 \in 1..(Calls + 1) /\ k0 <= Calls /\ Calls \in Nat
    BY <2>1, BarrierAssumption DEF AtCall, TypeOK
  <2>3. k0 \in 1..Calls /\ i0 \in Ids
    BY <2>2, BarrierAssumption
  <2>4. MyWord(b) \in Word /\ 1 \in Word
    BY <2>1, <2>3, MyWordFacts, SeedWord
  <2>5. ~ Idle
    BY <2>1 DEF AtCall, Idle
  <2>6. \A c \in Blocks : c # b => pc'[c] = pc[c]
    BY <2>1 DEF TypeOK, Arrive
  <2>7. QED
    BY <2>1, <2>3, <2>4, <2>5, <2>6 DEF Arrive
<1>1. /\ \A c \in Blocks, k \in 1..Calls :
            Arrived(c, k)' <=> (Arrived(c, k) \/ (c = b /\ k = k0))
      /\ \A i \in Ids, k \in 1..Calls :
            (i # i0 \/ k # k0) => ArrivedSet(i, k)' = ArrivedSet(i, k)
      /\ \A i \in Ids, k \in 1..Calls :
            (i = i0 /\ k = k0)
                => Cardinality(ArrivedSet(i, k)') = Cardinality(ArrivedSet(i, k)) + 1
      /\ ~ Arrived(b, k0)
  BY <1>0, EnterSets
<1>2. BarrierSafe'
  BY <1>0, <1>1 DEF IInv, BarrierSafe
<1>3. /\ WrapAdd(MyWord(b), 1) \in Word
      /\ counter' = SetMyWord(b, WrapAdd(MyWord(b), 1))
  BY <1>0, WordFacts DEF Arrive
<1>4. /\ counter'[i0][SlotOf[k0]] = WrapAdd(MyWord(b), 1)
      /\ \A i \in Ids, k \in 1..Calls :
            (i # i0 \/ k # k0) => counter'[i][SlotOf[k]] = counter[i][SlotOf[k]]
  BY <1>0, <1>3, OtherWords
<1>5. ASSUME NEW i \in Ids, NEW k \in 1..Calls, ArrivalCount(i) > 1
      PROVE  WordExact(i, k)'
  <2>0. WordExact(i, k) /\ SeedOf[i] \in Blocks /\ IdOf[SeedOf[i]] = i
    BY <1>0, <1>5, BarrierAssumption DEF IInv, CounterExact
  <2>1. SeedOf[i] # b
    BY <1>0, <2>0
  <2>2. /\ Arrived(SeedOf[i], k)' <=> Arrived(SeedOf[i], k)
        /\ pc'[SeedOf[i]] = pc[SeedOf[i]] /\ call'[SeedOf[i]] = call[SeedOf[i]]
        /\ toFold'[SeedOf[i]] = toFold[SeedOf[i]]
    BY <1>0, <1>1, <2>0, <2>1
  <2>3. CASE i # i0 \/ k # k0
    <3>1. /\ Cardinality(ArrivedSet(i, k)') = Cardinality(ArrivedSet(i, k))
          /\ counter'[i][SlotOf[k]] = counter[i][SlotOf[k]]
      BY <1>1, <1>4, <2>3
    <3>2. QED
      BY <2>0, <2>2, <3>1 DEF WordExact, SeedValue, ArrivalCount, Members
  <2>4. CASE i = i0 /\ k = k0
    <3> DEFINE n == Cardinality(ArrivedSet(i, k))
               w == counter[i][SlotOf[k]]
               n1 == Cardinality(ArrivedSet(i, k)')
    <3>1. /\ n1 = n + 1 /\ n \in Nat /\ w = MyWord(b)
          /\ ArrivalCount(i) \in Nat /\ HighBit \in Nat
          /\ ArrivalCount(i) <= HighBit
      <4>1. n1 = n + 1
        BY <1>1, <2>4
      <4>2. w = MyWord(b)
        BY <2>4 DEF MyWord
      <4>3. QED
        BY <4>1, <4>2, ArrivedFacts, MembersFacts
    <3>2. n + 1 <= ArrivalCount(i)
      <4>1. IsFiniteSet(ArrivedSet(i, k)) /\ n <= ArrivalCount(i)
        BY ArrivedFacts
      <4>2. b \in Members(i) /\ b \notin ArrivedSet(i, k)
        BY <1>1, <2>4 DEF Members, ArrivedSet
      <4>3. n # ArrivalCount(i)
        BY <4>2, ArrivedFacts
      <4>4. QED BY <4>1, <4>3, <3>1
    <3>3. CASE ~ Arrived(SeedOf[i], k)
      <4>1. w = n
        BY <2>0, <3>3 DEF WordExact
      <4>2. counter'[i][SlotOf[k]] = n1
        BY <1>4, <2>4, <3>1, <3>2, <4>1 DEF WrapAdd
      <4>3. QED
        BY <2>2, <3>3, <4>2 DEF WordExact
    <3>4. CASE Arrived(SeedOf[i], k) /\ call[SeedOf[i]] = k /\ pc[SeedOf[i]] = "fold"
      <4>1. /\ toFold[SeedOf[i]] \in 1..(n - 1)
            /\ w = SeedValue(i) + (n - 1) - toFold[SeedOf[i]]
        BY <2>0, <3>4 DEF WordExact
      <4>2. /\ toFold[SeedOf[i]] \in 1..(n1 - 1)
            /\ counter'[i][SlotOf[k]] = SeedValue(i) + (n1 - 1) - toFold[SeedOf[i]]
        BY <1>4, <2>4, <3>1, <3>2, <4>1 DEF WrapAdd, SeedValue
      <4>3. QED
        BY <2>2, <3>4, <4>2 DEF WordExact, SeedValue, ArrivalCount, Members
    <3>5. CASE Arrived(SeedOf[i], k) /\ ~ (call[SeedOf[i]] = k /\ pc[SeedOf[i]] = "fold")
      <4>1. w = SeedValue(i) + (n - 1)
        BY <2>0, <3>5 DEF WordExact
      <4>2. counter'[i][SlotOf[k]] = SeedValue(i) + (n1 - 1)
        BY <1>4, <2>4, <3>1, <3>2, <4>1 DEF WrapAdd, SeedValue
      <4>3. QED
        BY <2>2, <3>5, <4>2 DEF WordExact, SeedValue, ArrivalCount, Members
    <3>6. QED BY <3>3, <3>4, <3>5
  <2>5. QED BY <2>3, <2>4
<1>6. CounterExact'
  BY <1>5 DEF CounterExact, ArrivalCount, Members
<1>7. QED
  BY <1>2, <1>6 DEF IInv

\* What a word's exactness depends on.
LEMMA KeepsExact ==
    ASSUME NEW i \in Ids, NEW k \in 1..Calls, WordExact(i, k),
           Cardinality(ArrivedSet(i, k)') = Cardinality(ArrivedSet(i, k)),
           counter'[i][SlotOf[k]] = counter[i][SlotOf[k]],
           Arrived(SeedOf[i], k)' <=> Arrived(SeedOf[i], k),
           (call'[SeedOf[i]] = k /\ pc'[SeedOf[i]] = "fold")
                <=> (call[SeedOf[i]] = k /\ pc[SeedOf[i]] = "fold"),
           (call[SeedOf[i]] = k /\ pc[SeedOf[i]] = "fold")
                => toFold'[SeedOf[i]] = toFold[SeedOf[i]]
    PROVE  WordExact(i, k)'
BY DEF WordExact, SeedValue, ArrivalCount, Members

LEMMA SeedStep ==
    ASSUME FreshSlots, IInv, TypeInv', NEW b \in Blocks, Seed(b)
    PROVE  IInv'
<1> DEFINE i0 == IdOf[b]
           k0 == call[b]
           x == IF Fold(MyWord(b)) # 0 THEN "fold" ELSE "spin"
<1>0. /\ TypeInv /\ AtCall(b) /\ call' = call
      /\ pc' = [pc EXCEPT ![b] = x] /\ x \in {"fold", "spin"} /\ pc'[b] = x
      /\ \A c \in Blocks : c # b => pc'[c] = pc[c]
      /\ toFold'[b] = Fold(MyWord(b))
      /\ \A c \in Blocks : c # b => toFold'[c] = toFold[c]
      /\ k0 \in 1..Calls /\ i0 \in Ids /\ b = SeedOf[i0] /\ ~ Idle
      /\ counter' = SetMyWord(b, SeedValue(i0)) /\ SeedValue(i0) \in Word
  <2>1. TypeInv /\ AtCall(b) /\ TypeOK
    BY DEF IInv, Seed, TypeInv
  <2>2. k0 \in 1..(Calls + 1) /\ k0 <= Calls /\ Calls \in Nat
    BY <2>1, BarrierAssumption DEF AtCall, TypeOK
  <2>3. k0 \in 1..Calls /\ i0 \in Ids
    BY <2>2, BarrierAssumption
  <2>4. ~ Idle
    BY <2>1 DEF AtCall, Idle
  <2>5. /\ \A c \in Blocks : c # b => pc'[c] = pc[c]
        /\ pc'[b] = x
        /\ toFold'[b] = Fold(MyWord(b))
        /\ \A c \in Blocks : c # b => toFold'[c] = toFold[c]
    BY <2>1 DEF TypeOK, Seed
  <2>6. QED
    BY <2>1, <2>3, <2>4, <2>5, SeedWord DEF Seed
<1>1. /\ \A c \in Blocks, k \in 1..Calls :
            Arrived(c, k)' <=> (Arrived(c, k) \/ (c = b /\ k = k0))
      /\ \A i \in Ids, k \in 1..Calls :
            (i # i0 \/ k # k0) => ArrivedSet(i, k)' = ArrivedSet(i, k)
      /\ \A i \in Ids, k \in 1..Calls :
            (i = i0 /\ k = k0)
                => Cardinality(ArrivedSet(i, k)') = Cardinality(ArrivedSet(i, k)) + 1
      /\ ~ Arrived(b, k0)
  BY <1>0, EnterSets
<1>2. BarrierSafe'
  BY <1>0, <1>1 DEF IInv, BarrierSafe
<1>3. /\ counter'[i0][SlotOf[k0]] = SeedValue(i0)
      /\ \A i \in Ids, k \in 1..Calls :
            (i # i0 \/ k # k0) => counter'[i][SlotOf[k]] = counter[i][SlotOf[k]]
  BY <1>0, OtherWords
<1>4. ASSUME NEW i \in Ids, NEW k \in 1..Calls, ArrivalCount(i) > 1
      PROVE  WordExact(i, k)'
  <2>0. WordExact(i, k) /\ SeedOf[i] \in Blocks /\ IdOf[SeedOf[i]] = i
    BY <1>0, <1>4, BarrierAssumption DEF IInv, CounterExact
  <2>1. CASE i # i0 \/ k # k0
    <3>1. /\ Cardinality(ArrivedSet(i, k)') = Cardinality(ArrivedSet(i, k))
          /\ counter'[i][SlotOf[k]] = counter[i][SlotOf[k]]
      BY <1>1, <1>3, <2>1
    <3>2. SeedOf[i] = b => k # k0
      BY <2>0, <2>1
    <3>3. Arrived(SeedOf[i], k)' <=> Arrived(SeedOf[i], k)
      BY <1>1, <2>0, <3>2
    <3>4. /\ (call'[SeedOf[i]] = k /\ pc'[SeedOf[i]] = "fold")
                <=> (call[SeedOf[i]] = k /\ pc[SeedOf[i]] = "fold")
          /\ (call[SeedOf[i]] = k /\ pc[SeedOf[i]] = "fold")
                => toFold'[SeedOf[i]] = toFold[SeedOf[i]]
      BY <1>0, <2>0, <3>2
    <3>5. QED
      BY <2>0, <3>1, <3>3, <3>4, KeepsExact
  <2>2. CASE i = i0 /\ k = k0
    <3> DEFINE n == Cardinality(ArrivedSet(i, k))
               n1 == Cardinality(ArrivedSet(i, k)')
    <3>1. n1 = n + 1
      BY <1>1, <2>2
    <3>2. n \in Nat /\ ArrivalCount(i) \in Nat /\ HighBit \in Nat
          /\ n <= ArrivalCount(i) /\ ArrivalCount(i) <= HighBit
      BY ArrivedFacts, MembersFacts
    <3>3. n # ArrivalCount(i)
      <4>1. b \in Members(i) /\ b \notin ArrivedSet(i, k)
        BY <1>1, <2>2 DEF Members, ArrivedSet
      <4>2. QED
        BY <4>1, ArrivedFacts
    <3>4. MyWord(b) = n
      BY <1>0, <1>1, <2>0, <2>2 DEF WordExact, MyWord
    <3>5. Fold(MyWord(b)) = n
      BY <3>2, <3>3, <3>4 DEF Fold, Low31
    <3>6. Arrived(SeedOf[i], k)' /\ SeedOf[i] = b /\ call'[b] = k
      BY <1>0, <1>1, <2>2
    <3>7. counter'[i][SlotOf[k]] = SeedValue(i)
      BY <1>3, <2>2
    <3>8. SeedValue(i) \in Nat
      BY SeedWord
    <3>9. CASE n # 0
      <4>1. pc'[b] = "fold" /\ toFold'[b] = n /\ n \in 1..(n1 - 1)
        BY <1>0, <3>1, <3>2, <3>5, <3>9
      <4>2. SeedValue(i) = SeedValue(i) + (n1 - 1) - n
        BY <3>1, <3>2, <3>8
      <4>3. QED
        BY <3>6, <3>7, <4>1, <4>2 DEF WordExact, SeedValue, ArrivalCount, Members
    <3>10. CASE n = 0
      <4>1. pc'[b] = "spin"
        BY <1>0, <3>5, <3>10
      <4>2. SeedValue(i) = SeedValue(i) + (n1 - 1)
        BY <3>1, <3>8, <3>10
      <4>3. QED
        BY <3>6, <3>7, <4>1, <4>2 DEF WordExact, SeedValue, ArrivalCount, Members
    <3>11. QED BY <3>9, <3>10
  <2>3. QED BY <2>1, <2>2
<1>5. CounterExact'
  BY <1>4 DEF CounterExact, ArrivalCount, Members
<1>6. QED
  BY <1>2, <1>5 DEF IInv

LEMMA FoldBackStep ==
    ASSUME FreshSlots, IInv, TypeInv', NEW b \in Blocks, FoldBack(b)
    PROVE  IInv'
<1> DEFINE i0 == IdOf[b]
           k0 == call[b]
<1>0. /\ TypeInv /\ call' = call /\ pc[b] = "fold" /\ pc'[b] = "spin"
      /\ \A c \in Blocks : c # b => pc'[c] = pc[c]
      /\ \A c \in Blocks : c # b => toFold'[c] = toFold[c]
      /\ k0 \in 1..Calls /\ i0 \in Ids /\ b = SeedOf[i0] /\ ~ Idle
      /\ MyWord(b) \in Word /\ WrapAdd(MyWord(b), toFold[b]) \in Word
      /\ counter' = SetMyWord(b, WrapAdd(MyWord(b), toFold[b]))
  <2>1. TypeInv /\ TypeOK /\ InCall /\ pc[b] = "fold"
    BY DEF IInv, FoldBack, TypeInv
  <2>2. k0 \in 1..Calls /\ i0 \in Ids /\ b = SeedOf[i0] /\ HighBit \in Nat
    BY <2>1, BarrierAssumption DEF InCall
  <2>3. ~ Idle
    BY <2>1 DEF Idle
  <2>4. /\ \A c \in Blocks : c # b => pc'[c] = pc[c]
        /\ pc'[b] = "spin"
        /\ \A c \in Blocks : c # b => toFold'[c] = toFold[c]
    BY <2>1 DEF TypeOK, FoldBack
  <2>5. MyWord(b) \in Word /\ toFold[b] \in Word
    BY <2>1, <2>2, MyWordFacts DEF TypeOK, Word
  <2>6. QED
    BY <2>1, <2>2, <2>3, <2>4, <2>5, WordFacts DEF FoldBack
<1>1. \A c \in Blocks, k \in 1..Calls : Arrived(c, k)' <=> Arrived(c, k)
  BY <1>0 DEF Arrived
<1>2. BarrierSafe'
  BY <1>0, <1>1 DEF IInv, BarrierSafe
<1>3. /\ counter'[i0][SlotOf[k0]] = WrapAdd(MyWord(b), toFold[b])
      /\ \A i \in Ids, k \in 1..Calls :
            (i # i0 \/ k # k0) => counter'[i][SlotOf[k]] = counter[i][SlotOf[k]]
  BY <1>0, OtherWords
<1>4. ASSUME NEW i \in Ids, NEW k \in 1..Calls, ArrivalCount(i) > 1
      PROVE  WordExact(i, k)'
  <2>0. WordExact(i, k) /\ SeedOf[i] \in Blocks /\ IdOf[SeedOf[i]] = i
    BY <1>0, <1>4, BarrierAssumption DEF IInv, CounterExact
  <2>1. ArrivedSet(i, k)' = ArrivedSet(i, k)
    BY <1>1, SameSets
  <2>2. CASE i # i0 \/ k # k0
    <3>1. counter'[i][SlotOf[k]] = counter[i][SlotOf[k]]
      BY <1>3, <2>2
    <3>2. SeedOf[i] = b => k # k0
      BY <2>0, <2>2
    <3>3. Arrived(SeedOf[i], k)' <=> Arrived(SeedOf[i], k)
      BY <1>1, <2>0
    <3>4. /\ (call'[SeedOf[i]] = k /\ pc'[SeedOf[i]] = "fold")
                <=> (call[SeedOf[i]] = k /\ pc[SeedOf[i]] = "fold")
          /\ (call[SeedOf[i]] = k /\ pc[SeedOf[i]] = "fold")
                => toFold'[SeedOf[i]] = toFold[SeedOf[i]]
      BY <1>0, <2>0, <3>2
    <3>5. QED
      BY <2>0, <2>1, <3>1, <3>3, <3>4, KeepsExact
  <2>3. CASE i = i0 /\ k = k0
    <3> DEFINE n == Cardinality(ArrivedSet(i, k))
    <3>1. n \in Nat /\ ArrivalCount(i) \in Nat /\ HighBit \in Nat
          /\ n <= ArrivalCount(i) /\ ArrivalCount(i) <= HighBit
      BY ArrivedFacts, MembersFacts
    <3>2. SeedOf[i] = b /\ call'[b] = k /\ call[b] = k /\ Arrived(b, k) /\ Arrived(b, k)'
      BY <1>0, <1>1, <2>3 DEF Arrived
    <3>3. toFold[b] \in 1..(n - 1) /\ MyWord(b) = SeedValue(i) + (n - 1) - toFold[b]
      BY <1>0, <2>0, <2>3, <3>2 DEF WordExact, MyWord
    <3>4. counter'[i][SlotOf[k]] = SeedValue(i) + (n - 1)
      BY <1>3, <2>3, <3>1, <3>3 DEF WrapAdd, SeedValue
    <3>5. pc'[b] = "spin"
      BY <1>0
    <3>6. QED
      BY <2>1, <3>2, <3>4, <3>5 DEF WordExact, SeedValue, ArrivalCount, Members
  <2>4. QED BY <2>2, <2>3
<1>5. CounterExact'
  BY <1>4 DEF CounterExact, ArrivalCount, Members
<1>6. QED
  BY <1>2, <1>5 DEF IInv

LEMMA ExitStep ==
    ASSUME FreshSlots, IInv, TypeInv', NEW b \in Blocks, Exit(b)
    PROVE  IInv'
<1> DEFINE i0 == IdOf[b]
           k0 == call[b]
<1>0. /\ TypeInv /\ pc[b] = "spin" /\ pc'[b] = "work" /\ call'[b] = k0 + 1
      /\ \A c \in Blocks : c # b => pc'[c] = pc[c] /\ call'[c] = call[c]
      /\ k0 \in 1..Calls /\ i0 \in Ids /\ ArrivalCount(i0) > 1 /\ ~ Idle
      /\ Bit31(counter[i0][SlotOf[k0]])
      /\ counter' = counter /\ toFold' = toFold
  <2>1. TypeInv /\ TypeOK /\ InCall /\ pc[b] = "spin"
    BY DEF IInv, Exit, TypeInv
  <2>2. k0 \in 1..Calls /\ i0 \in Ids /\ ArrivalCount(i0) # 1
    BY <2>1, BarrierAssumption DEF InCall
  <2>3. ArrivalCount(i0) > 1
    BY <2>2, MembersFacts
  <2>4. ~ Idle
    BY <2>1 DEF Idle
  <2>5. /\ pc'[b] = "work" /\ call'[b] = k0 + 1
        /\ \A c \in Blocks : c # b => pc'[c] = pc[c] /\ call'[c] = call[c]
    BY <2>1 DEF TypeOK, Exit, NextCall
  <2>6. QED
    BY <2>1, <2>2, <2>3, <2>4, <2>5 DEF Exit, MyWord
<1>1. \A c \in Blocks, k \in 1..Calls : Arrived(c, k)' <=> Arrived(c, k)
  <2> SUFFICES ASSUME NEW c \in Blocks, NEW k \in 1..Calls
               PROVE  Arrived(c, k)' <=> Arrived(c, k)
    OBVIOUS
  <2>1. CASE c = b
    BY <1>0, <2>1 DEF Arrived
  <2>2. CASE c # b
    BY <1>0, <2>2 DEF Arrived
  <2>3. QED BY <2>1, <2>2
<1>2. \A c \in Members(i0) : Arrived(c, k0)
  <2>1. WordExact(i0, k0)
    BY <1>0 DEF IInv, CounterExact
  <2>2. QED
    BY <1>0, <2>1, HighBitMeansAll
<1>3. BarrierSafe'
  <2> SUFFICES ASSUME NEW d \in Blocks, NEW c \in Blocks, NEW k \in 1..Calls,
                      IdOf[d] = IdOf[c], call'[d] > k
               PROVE  Arrived(c, k)
    BY <1>1 DEF BarrierSafe
  <2>1. CASE call[d] > k
    BY <2>1 DEF IInv, BarrierSafe
  <2>2. CASE ~ (call[d] > k)
    <3>1. d = b
      BY <1>0, <2>2
    <3>2. k = k0
      BY <1>0, <2>2, <3>1
    <3>3. QED
      BY <1>2, <3>1, <3>2 DEF Members
  <2>3. QED BY <2>1, <2>2
<1>4. ASSUME NEW i \in Ids, NEW k \in 1..Calls, ArrivalCount(i) > 1
      PROVE  WordExact(i, k)'
  <2>0. WordExact(i, k) /\ SeedOf[i] \in Blocks
    BY <1>0, <1>4, BarrierAssumption DEF IInv, CounterExact
  <2>1. ArrivedSet(i, k)' = ArrivedSet(i, k)
    BY <1>1, SameSets
  <2>2. Arrived(SeedOf[i], k)' <=> Arrived(SeedOf[i], k)
    BY <1>1, <2>0
  <2>3. (call'[SeedOf[i]] = k /\ pc'[SeedOf[i]] = "fold")
            <=> (call[SeedOf[i]] = k /\ pc[SeedOf[i]] = "fold")
    BY <1>0, <2>0
  <2>4. QED
    BY <1>0, <2>0, <2>1, <2>2, <2>3, KeepsExact
<1>5. CounterExact'
  BY <1>4 DEF CounterExact, ArrivalCount, Members
<1>6. QED
  BY <1>3, <1>5 DEF IInv

LEMMA PassAloneStep ==
    ASSUME FreshSlots, IInv, TypeInv', NEW b \in Blocks, PassAlone(b)
    PROVE  IInv'
<1> DEFINE i0 == IdOf[b]
           k0 == call[b]
<1>0. /\ TypeInv /\ pc[b] = "work" /\ call'[b] = k0 + 1
      /\ \A c \in Blocks : c # b => call'[c] = call[c]
      /\ k0 \in Nat /\ i0 \in Ids /\ ArrivalCount(i0) = 1 /\ ~ Idle
      /\ counter' = counter /\ pc' = pc /\ toFold' = toFold
      /\ \A c \in Blocks : call[c] \in Nat
  <2>1. TypeInv /\ TypeOK /\ pc[b] = "work" /\ ~ Idle
    BY DEF IInv, PassAlone, AtCall, TypeInv, Idle
  <2>2. /\ call'[b] = k0 + 1
        /\ \A c \in Blocks : c # b => call'[c] = call[c]
        /\ \A c \in Blocks : call[c] \in Nat
    BY <2>1, BarrierAssumption DEF TypeOK, PassAlone, NextCall
  <2>3. QED
    BY <2>1, <2>2, BarrierAssumption DEF PassAlone
<1>1. Members(i0) = {b}
  <2>1. b \in Members(i0)
    BY DEF Members
  <2>2. QED
    BY <1>0, <2>1, MembersFacts, FS_Singleton DEF ArrivalCount
<1>2. \A c \in Blocks, k \in 1..Calls : Arrived(c, k) => Arrived(c, k)'
  <2> SUFFICES ASSUME NEW c \in Blocks, NEW k \in 1..Calls, Arrived(c, k)
               PROVE  Arrived(c, k)'
    OBVIOUS
  <2>1. call'[c] = call[c] \/ (c = b /\ call'[c] = call[c] + 1 /\ pc[c] = "work")
    BY <1>0
  <2>2. QED
    BY <1>0, <2>1 DEF Arrived
<1>3. BarrierSafe'
  <2> SUFFICES ASSUME NEW d \in Blocks, NEW c \in Blocks, NEW k \in 1..Calls,
                      IdOf[d] = IdOf[c], call'[d] > k
               PROVE  Arrived(c, k)'
    BY DEF BarrierSafe
  <2>1. CASE call[d] > k
    BY <1>2, <2>1 DEF IInv, BarrierSafe
  <2>2. CASE ~ (call[d] > k)
    <3>1. d = b
      BY <1>0, <2>2
    <3>2. c = b
      BY <1>1, <3>1 DEF Members
    <3>3. QED
      BY <3>1, <3>2 DEF Arrived
  <2>3. QED BY <2>1, <2>2
<1>4. ASSUME NEW i \in Ids, NEW k \in 1..Calls, ArrivalCount(i) > 1
      PROVE  WordExact(i, k)'
  <2>0. WordExact(i, k) /\ SeedOf[i] \in Blocks /\ IdOf[SeedOf[i]] = i
    BY <1>0, <1>4, BarrierAssumption DEF IInv, CounterExact
  <2>1. i # i0
    BY <1>0, <1>4
  <2>2. \A c \in Members(i) : Arrived(c, k)' <=> Arrived(c, k)
    BY <1>0, <2>1 DEF Members, Arrived
  <2>3. ArrivedSet(i, k)' = ArrivedSet(i, k)
    BY <2>2 DEF ArrivedSet, Members
  <2>4. SeedOf[i] \in Members(i) /\ SeedOf[i] # b
    BY <2>0, <2>1 DEF Members
  <2>5. QED
    BY <1>0, <2>0, <2>2, <2>3, <2>4, KeepsExact
<1>5. CounterExact'
  BY <1>4 DEF CounterExact, ArrivalCount, Members
<1>6. QED
  BY <1>3, <1>5 DEF IInv

\* A block that is placed on an SM or retires has arrived nowhere new.
LEMMA PlaceRetireStep ==
    ASSUME FreshSlots, IInv, TypeInv', NEW b \in Blocks, Place(b) \/ Retire(b)
    PROVE  IInv'
<1>0. /\ TypeInv /\ pc[b] \notin {"fold", "spin"} /\ pc'[b] \notin {"fold", "spin"}
      /\ \A c \in Blocks : c # b => pc'[c] = pc[c]
      /\ counter' = counter /\ call' = call /\ toFold' = toFold /\ ~ Idle
  <2>1. TypeInv /\ TypeOK
    BY DEF IInv, TypeInv
  <2>2. QED
    BY <2>1 DEF TypeOK, Place, Retire, Idle
<1>1. \A c \in Blocks, k \in 1..Calls : Arrived(c, k)' <=> Arrived(c, k)
  <2> SUFFICES ASSUME NEW c \in Blocks, NEW k \in 1..Calls
               PROVE  Arrived(c, k)' <=> Arrived(c, k)
    OBVIOUS
  <2>1. CASE c = b
    BY <1>0, <2>1 DEF Arrived
  <2>2. CASE c # b
    BY <1>0, <2>2 DEF Arrived
  <2>3. QED BY <2>1, <2>2
<1>2. BarrierSafe'
  BY <1>0, <1>1 DEF IInv, BarrierSafe
<1>3. ASSUME NEW i \in Ids, NEW k \in 1..Calls, ArrivalCount(i) > 1
      PROVE  WordExact(i, k)'
  <2>0. WordExact(i, k) /\ SeedOf[i] \in Blocks
    BY <1>0, <1>3, BarrierAssumption DEF IInv, CounterExact
  <2>1. ArrivedSet(i, k)' = ArrivedSet(i, k)
    BY <1>1, SameSets
  <2>2. /\ Arrived(SeedOf[i], k)' <=> Arrived(SeedOf[i], k)
        /\ pc'[SeedOf[i]] = "fold" <=> pc[SeedOf[i]] = "fold"
    BY <1>0, <1>1, <2>0
  <2>3. QED
    BY <1>0, <2>0, <2>1, <2>2, KeepsExact
<1>4. CounterExact'
  BY <1>3 DEF CounterExact, ArrivalCount, Members
<1>5. QED
  BY <1>2, <1>4 DEF IInv

\* After the launcher's memset no block has arrived and every word is zero.
LEMMA LaunchStep ==
    ASSUME IInv, TypeInv', Launch
    PROVE  IInv'
<1>0. /\ \A b \in Blocks : call'[b] = 1 /\ pc'[b] = "pending"
      /\ \A i \in Ids, s \in Slots : counter'[i][s] = 0
  BY DEF Launch, ClearedCounters
<1>1. \A b \in Blocks, k \in 1..Calls : ~ Arrived(b, k)'
  BY <1>0 DEF Arrived
<1>2. BarrierSafe'
  BY <1>0 DEF BarrierSafe
<1>3. ASSUME NEW i \in Ids, NEW k \in 1..Calls
      PROVE  WordExact(i, k)'
  <2>1. ArrivedSet(i, k)' = {}
    BY <1>1 DEF ArrivedSet, Members
  <2>2. Cardinality(ArrivedSet(i, k)') = 0
    BY <2>1, FS_EmptySet
  <2>3. counter'[i][SlotOf[k]] = 0
    BY <1>0, BarrierAssumption
  <2>4. ~ Arrived(SeedOf[i], k)'
    BY <1>1, BarrierAssumption
  <2>5. QED
    BY <2>2, <2>3, <2>4 DEF WordExact
<1>4. CounterExact'
  BY <1>3 DEF CounterExact
<1>5. QED
  BY <1>2, <1>4 DEF IInv

LEMMA InitIInv == Init => IInv
<1> SUFFICES ASSUME Init PROVE IInv
  OBVIOUS
<1>1. TypeInv
  BY InitType DEF TypeInv, InCall, Init
<1>2. BarrierSafe
  BY BarrierAssumption DEF Init, BarrierSafe, Arrived
<1>3. CounterExact
  BY DEF Init, CounterExact, Idle
<1>4. QED
  BY <1>1, <1>2, <1>3 DEF IInv

LEMMA StepIInv ==
    ASSUME FreshSlots, IInv, [Next]_vars
    PROVE  IInv'
<1>0. TypeInv /\ TypeInv'
  BY StepType DEF IInv
<1>1. CASE Launch
  BY <1>0, <1>1, LaunchStep
<1>2. ASSUME NEW b \in Blocks, Step(b) PROVE IInv'
  <2>1. CASE Place(b) \/ Retire(b)
    BY <1>0, <2>1, PlaceRetireStep
  <2>2. CASE PassAlone(b)
    BY <1>0, <2>2, PassAloneStep
  <2>3. CASE Arrive(b)
    BY <1>0, <2>3, ArriveStep
  <2>4. CASE Seed(b)
    BY <1>0, <2>4, SeedStep
  <2>5. CASE FoldBack(b)
    BY <1>0, <2>5, FoldBackStep
  <2>6. CASE Exit(b)
    BY <1>0, <2>6, ExitStep
  <2>7. QED
    BY <1>2, <2>1, <2>2, <2>3, <2>4, <2>5, <2>6 DEF Step
<1>3. CASE UNCHANGED vars
  <2>1. BarrierSafe'
    BY <1>3 DEF vars, IInv, BarrierSafe, Arrived
  <2>2. ASSUME NEW i \in Ids, NEW k \in 1..Calls, ArrivalCount(i) > 1, ~ Idle'
        PROVE  WordExact(i, k)'
    <3>1. WordExact(i, k)
      BY <1>3, <2>2 DEF vars, IInv, CounterExact, Idle
    <3>2. /\ \A c \in Blocks : Arrived(c, k)' <=> Arrived(c, k)
          /\ Arrived(SeedOf[i], k)' <=> Arrived(SeedOf[i], k)
      BY <1>3 DEF vars, Arrived
    <3>3. ArrivedSet(i, k)' = ArrivedSet(i, k)
      BY <3>2, SameSets
    <3>4. QED
      BY <1>3, <3>1, <3>2, <3>3, KeepsExact DEF vars
  <2>3. CounterExact'
    BY <2>2 DEF CounterExact, ArrivalCount, Members
  <2>4. QED
    BY <1>0, <2>1, <2>3 DEF IInv
<1>4. QED
  BY <1>1, <1>2, <1>3 DEF Next, Finished

-----------------------------------------------------------------------------
(* The theorems.                                                             *)

LEMMA InvariantHolds ==
    ASSUME FreshSlots
    PROVE  Spec => []IInv
<1>1. Init => IInv
  BY InitIInv
<1>2. IInv /\ [Next]_vars => IInv'
  BY StepIInv
<1>3. QED
  BY <1>1, <1>2, PTL DEF Spec

\* grid_barrier and partial_barrier, for any number of blocks, ids, calls and
\* launches: with a fresh word per call no block gets past a call before every
\* block of its arrival set has entered it.
THEOREM Barrier ==
    ASSUME FreshSlots
    PROVE  Spec => []BarrierSafe
<1>1. IInv => BarrierSafe
  BY DEF IInv
<1>2. QED
  BY <1>1, InvariantHolds, PTL

\* The fold-back neither loses nor repeats an arrival, in every interleaving of
\* the seeder's exchange with the other blocks' additions.
THEOREM Exact ==
    ASSUME FreshSlots
    PROVE  Spec => []CounterExact
<1>1. IInv => CounterExact
  BY DEF IInv
<1>2. QED
  BY <1>1, InvariantHolds, PTL

\* What the header claims of its waiters holds once no word is used twice: bit
\* 31 is clear for a spinning block while a member of its set is missing.
THEOREM NobodyExitsEarly ==
    ASSUME FreshSlots
    PROVE  Spec => []NoEarlyHighBit
<1>1. IInv => NoEarlyHighBit
  <2> SUFFICES ASSUME IInv, NEW b \in Blocks, NEW c \in Blocks, NEW k \in 1..Calls,
                      IdOf[b] = IdOf[c], call[b] = k, pc[b] = "spin",
                      ~ Arrived(c, k), Bit31(counter[IdOf[b]][SlotOf[k]])
               PROVE  FALSE
    BY DEF NoEarlyHighBit
  <2>1. IdOf[b] \in Ids /\ ArrivalCount(IdOf[b]) > 1
    <3>1. IdOf[b] \in Ids
      BY BarrierAssumption
    <3>2. ArrivalCount(IdOf[b]) # 1
      BY DEF IInv, TypeInv, InCall
    <3>3. QED BY <3>1, <3>2, MembersFacts
  <2>2. ~ Idle
    BY DEF Idle
  <2>3. WordExact(IdOf[b], k)
    BY <2>1, <2>2 DEF IInv, CounterExact
  <2>4. \A d \in Members(IdOf[b]) : Arrived(d, k)
    BY <2>1, <2>3, HighBitMeansAll DEF IInv
  <2>5. QED
    BY <2>4 DEF Members
<1>2. QED
  BY <1>1, InvariantHolds, PTL

-----------------------------------------------------------------------------
(* Refinement.                                                               *)

\* The mapping's view of the control points.
Inside == {b \in Blocks : pc[b] \in {"fold", "spin"}}

LEMMA InsideUpdate ==
    ASSUME NEW b \in Blocks, \A c \in Blocks : c # b => pc'[c] = pc[c]
    PROVE  /\ pc'[b] \in {"fold", "spin"} => Inside' = Inside \cup {b}
           /\ pc'[b] \notin {"fold", "spin"} => Inside' = Inside \ {b}
           /\ (pc'[b] \in {"fold", "spin"} <=> pc[b] \in {"fold", "spin"})
                => Inside' = Inside
BY DEF Inside

LEMMA InitRefines == Init => Contract!Init
BY DEF Init, Contract!Init

LEMMA StepRefines ==
    ASSUME FreshSlots, IInv, [Next]_vars
    PROVE  [Contract!Next]_(Contract!vars)
<1>0. TypeInv /\ TypeOK /\ InCall /\ Calls \in Nat
  BY BarrierAssumption DEF IInv, TypeInv
<1>1. CASE Launch
  <2>1. \A b \in Blocks : call[b] = Calls + 1 /\ b \notin Inside
    BY <1>0, <1>1 DEF Launch, Idle, InCall, Inside
  <2>2. Contract!Retired
    BY <2>1 DEF Contract!Retired, Inside
  <2>3. Inside' = Inside
    BY <1>1 DEF Launch, Idle, Inside
  <2>4. Contract!Restart
    BY <1>1, <2>2, <2>3 DEF Launch, Contract!Restart, Inside
  <2>5. QED
    BY <2>4 DEF Contract!Next
<1>2. ASSUME NEW b \in Blocks, Place(b) \/ Retire(b) \/ FoldBack(b)
      PROVE  UNCHANGED Contract!vars
  <2>1. /\ call' = call
        /\ \A c \in Blocks : c # b => pc'[c] = pc[c]
        /\ pc'[b] \in {"fold", "spin"} <=> pc[b] \in {"fold", "spin"}
    BY <1>0, <1>2 DEF Place, Retire, FoldBack, TypeOK
  <2>2. Inside' = Inside
    BY <2>1, InsideUpdate
  <2>3. QED
    BY <2>1, <2>2 DEF Contract!vars, Inside
<1>3. ASSUME NEW b \in Blocks, Arrive(b) \/ Seed(b)
      PROVE  Contract!Arrive(b)
  <2>1. /\ call' = call /\ b \notin Inside
        /\ \A c \in Blocks : c # b => pc'[c] = pc[c]
        /\ pc'[b] \in {"fold", "spin"}
    BY <1>0, <1>3 DEF Arrive, Seed, AtCall, TypeOK, Inside
  <2>2. call[b] \in 1..Calls
    BY <1>0, <1>3 DEF Arrive, Seed, AtCall, TypeOK
  <2>3. Inside' = Inside \cup {b}
    BY <2>1, InsideUpdate
  <2>4. QED
    BY <2>1, <2>2, <2>3 DEF Contract!Arrive, Inside
<1>4. ASSUME NEW b \in Blocks, PassAlone(b)
      PROVE  Contract!PassAlone(b)
  <2>1. IdOf[b] \in Ids /\ b \in Members(IdOf[b])
    BY BarrierAssumption DEF Members
  <2>2. Members(IdOf[b]) = {b}
    BY <1>4, <2>1, MembersFacts, FS_Singleton DEF PassAlone, ArrivalCount
  <2>3. Contract!Group(b) = {b}
    BY <2>2 DEF Contract!Group, Members
  <2>4. /\ b \notin Inside
        /\ Inside' = Inside
        /\ call[b] \in 1..Calls
    <3>1. pc[b] = "work" /\ call[b] <= Calls /\ pc' = pc
      BY <1>4 DEF PassAlone, AtCall
    <3>2. b \notin Inside /\ Inside' = Inside
      BY <3>1 DEF Inside
    <3>3. call[b] \in 1..Calls
      BY <1>0, <3>1 DEF TypeOK
    <3>4. QED BY <3>2, <3>3
  <2>5. QED
    BY <1>4, <2>3, <2>4 DEF PassAlone, NextCall, Contract!PassAlone, Inside
<1>5. ASSUME NEW b \in Blocks, Exit(b)
      PROVE  Contract!Leave(b)
  <2>1. IdOf[b] \in Ids /\ call[b] \in 1..Calls /\ ArrivalCount(IdOf[b]) > 1 /\ ~ Idle
    <3>1. IdOf[b] \in Ids
      BY BarrierAssumption
    <3>2. call[b] \in 1..Calls /\ ArrivalCount(IdOf[b]) # 1 /\ ~ Idle
      BY <1>0, <1>5 DEF Exit, InCall, Idle
    <3>3. QED BY <3>1, <3>2, MembersFacts
  <2>2. \A c \in Members(IdOf[b]) : Arrived(c, call[b])
    BY <1>0, <1>5, <2>1, HighBitMeansAll DEF IInv, CounterExact, Exit, MyWord
  <2>3. \A c \in Contract!Group(b) : Contract!Reached(c, call[b])
    BY <2>2 DEF Members, Contract!Group, Contract!Reached, Arrived, Inside
  <2>4. /\ b \in Inside
        /\ \A c \in Blocks : c # b => pc'[c] = pc[c]
        /\ pc'[b] \notin {"fold", "spin"}
    BY <1>0, <1>5 DEF Exit, TypeOK, Inside
  <2>5. Inside' = Inside \ {b}
    BY <2>4, InsideUpdate
  <2>6. QED
    BY <1>5, <2>3, <2>4, <2>5 DEF Exit, NextCall, Contract!Leave, Inside
<1>6. CASE UNCHANGED vars
  BY <1>6 DEF vars, Contract!vars
<1>7. QED
  BY <1>1, <1>2, <1>3, <1>4, <1>5, <1>6 DEF Next, Step, Finished, Contract!Next

\* The counter protocol implements the abstract barrier: every step of a block
\* or of the host is a step of AbstractBarrier or leaves it unchanged.
THEOREM Implementation ==
    ASSUME FreshSlots
    PROVE  Spec => ImplementsBarrier
<1>1. Init => Contract!Init
  BY InitRefines
<1>2. IInv /\ [Next]_vars => [Contract!Next]_(Contract!vars)
  BY StepRefines
<1>3. QED
  BY <1>1, <1>2, InvariantHolds, PTL DEF Spec, ImplementsBarrier, Contract!Spec

-----------------------------------------------------------------------------
(* The scan of block 0.                                                      *)

\* How many __syncthreads a thread has arrived at.
Arrivals == [e \in Experts |-> IF e \in inside THEN round[e] ELSE round[e] - 1]

\* Threads that have arrived equally often run the same code with the same d; one that is
\* ahead of another runs what the other will run next.
Past == {"publish", "done"}
IsAt(st, d) == st = GoOn(d) \/ (GoOn(d) = "publish" /\ st = "done")
SamePlace(e, f) == dist[e] = dist[f] /\ (stage[e] = stage[f] \/ {stage[e], stage[f]} \subseteq Past)
NextPlace(e, f) ==
    \/ stage[e] = "start" /\ dist[f] = dist[e] /\ IsAt(stage[f], dist[e])
    \/ stage[e] = "load" /\ dist[f] = dist[e] /\ stage[f] = "add"
    \/ stage[e] = "add" /\ dist[f] = NextDist(dist[e]) /\ IsAt(stage[f], NextDist(dist[e]))
InStep ==
    \A e, f \in Experts :
        /\ round[e] - 1 <= Arrivals[f]
        /\ Arrivals[e] = Arrivals[f] => SamePlace(e, f)
        /\ Arrivals[f] = Arrivals[e] + 1 => NextPlace(e, f)

\* Where a thread is, and how far it can have come: d has been doubled at every second
\* __syncthreads, and is therefore soon beyond the number of experts.
Paced ==
    \A e \in Experts :
        /\ stage[e] = "start" => Arrivals[e] = 0 /\ dist[e] = 1
        /\ stage[e] = "load" => dist[e] < NumExperts /\ Arrivals[e] + 1 <= 2 * dist[e]
        /\ stage[e] = "add" => dist[e] < NumExperts /\ Arrivals[e] <= 2 * dist[e]
        /\ stage[e] \in Past => NumExperts <= dist[e] /\ Arrivals[e] + 1 <= 2 * NumExperts

\* What phases 0 leaves, and the host has checked.
Accepted ==
    /\ tokens \in 1..MaxTokens /\ blockM \in BlockMs
    /\ counts \in [Experts -> Nat]
    /\ SumOver(counts, Experts) <= tokens * TopK
    /\ Accepts(tokens, blockM)

ThreadTypes ==
    /\ round \in [Experts -> Nat \ {0}]
    /\ inside \subseteq Experts
    /\ stage \in [Experts -> {"start", "load", "add", "publish", "done"}]
    /\ dist \in [Experts -> Nat \ {0}]
    /\ sums \in [Experts -> SUBSET (Experts \cup {-1})]
    /\ loaded \in [Experts -> SUBSET (Experts \cup {-1})]

\* The serial loop's prefix sums, and the entries it would write for an expert.
SerialOffsets == [n \in 0..NumExperts |-> SumOver(counts, 0..(n - 1))]
SerialBases == [n \in 0..NumExperts |-> SumOver(TilesOf, 0..(n - 1))]
SerialEntry(e, i) ==
    [at |-> SerialBases[e] + i, expert |-> e, row0 |-> SerialOffsets[e] + i * blockM]

\* What has been written so far is what the serial loop writes for the threads that are done.
ResultRight ==
    /\ offsets \in [0..NumExperts -> Nat] /\ total \in Nat
    /\ \A e \in Experts : stage[e] = "done" => offsets[e] = SerialOffsets[e]
    /\ stage[NumExperts - 1] = "done" =>
            offsets[NumExperts] = SerialOffsets[NumExperts] /\ total = SerialBases[NumExperts]
    /\ \A t \in tiles : \E e \in Experts : \E i \in Nat :
            stage[e] = "done" /\ i < TilesOf[e] /\ t = SerialEntry(e, i)
    /\ \A e \in Experts : \A i \in Nat :
            stage[e] = "done" /\ i < TilesOf[e] => SerialEntry(e, i) \in tiles

ScanIInv == Accepted /\ ThreadTypes /\ InStep /\ Paced /\ NoDoubleCount /\ ResultRight

LEMMA ScanStart == ScanInit => ScanIInv
<1> SUFFICES ASSUME ScanInit PROVE ScanIInv
  OBVIOUS
<1>0. NumExperts \in Nat \ {0} /\ TopK \in Nat \ {0} /\ MaxTokens \in Nat
  BY ScanAssumption
<1>1. Accepted
  <2>1. counts \in [Experts -> 0..tokens] /\ TotalOf(counts, Experts) <= tokens * TopK
    BY DEF ScanInit, Histograms
  <2>2. tokens \in 1..MaxTokens /\ blockM \in BlockMs /\ Accepts(tokens, blockM)
    BY DEF ScanInit
  <2>3. 0..tokens \subseteq Nat
    BY <2>2, SMT
  <2>4. SumOver(counts, Experts) <= tokens * TopK
    BY <2>1 DEF TotalOf, SumOver
  <2> QED BY <2>1, <2>2, <2>3, <2>4 DEF Accepted
<1>2. ThreadTypes
  BY DEF ScanInit, ThreadTypes
<1>3. \A e \in Experts : Arrivals[e] = 0 /\ round[e] = 1 /\ stage[e] = "start" /\ dist[e] = 1
  BY SMT DEF ScanInit, Arrivals
<1>4. InStep
  <2>1. \A e, f \in Experts : SamePlace(e, f)
    BY <1>3 DEF SamePlace
  <2> QED BY <1>3, <2>1, SMT DEF InStep
<1>5. Paced
  BY <1>3 DEF Paced, Past
<1>6. NoDoubleCount
  BY <1>3 DEF NoDoubleCount
<1>7. ResultRight
  <2>1. NumExperts - 1 \in Experts
    BY <1>0, SMT DEF Experts
  <2>2. offsets \in [0..NumExperts -> Nat] /\ total \in Nat /\ tiles = {}
    BY DEF ScanInit
  <2> QED BY <1>3, <2>1, <2>2 DEF ResultRight
<1> QED BY <1>1, <1>2, <1>4, <1>5, <1>6, <1>7 DEF ScanIInv

\* A thread that arrives and goes on to what is next.
Goes(e, st, d) ==
    \/ stage[e] = "start" /\ d = dist[e] /\ st = GoOn(d)
    \/ stage[e] = "load" /\ d = dist[e] /\ st = "add"
    \/ stage[e] = "add" /\ d = NextDist(dist[e]) /\ st = GoOn(d)

LEMMA ArriveKeeps ==
  ASSUME ScanIInv, NEW e \in Experts, NEW st, NEW d, Goes(e, st, d), Sync!Arrive(e),
         stage' = [stage EXCEPT ![e] = st], dist' = [dist EXCEPT ![e] = d]
  PROVE  /\ e \notin inside
         /\ InStep' /\ Paced'
         /\ round' \in [Experts -> Nat \ {0}] /\ inside' \subseteq Experts
         /\ stage' \in [Experts -> {"start", "load", "add", "publish", "done"}]
         /\ dist' \in [Experts -> Nat \ {0}]
<1>1. /\ e \notin inside /\ inside' = inside \cup {e} /\ round' = round
      /\ round \in [Experts -> Nat \ {0}] /\ dist \in [Experts -> Nat \ {0}]
      /\ stage \in [Experts -> {"start", "load", "add", "publish", "done"}]
      /\ inside \subseteq Experts
  BY DEF Sync!Arrive, ScanIInv, ThreadTypes
<1>2. d \in Nat \ {0} /\ dist[e] \in Nat \ {0}
  BY <1>1, SMT DEF Goes, NextDist
<1>3. st \in {"start", "load", "add", "publish", "done"} /\ st # "start"
  BY DEF Goes, GoOn
<1>4. /\ stage' \in [Experts -> {"start", "load", "add", "publish", "done"}]
      /\ dist' \in [Experts -> Nat \ {0}]
  BY <1>1, <1>2, <1>3
<1> DEFINE A == Arrivals
           B == Arrivals'
<1>5. /\ A \in [Experts -> Nat] /\ B \in [Experts -> Nat]
      /\ B[e] = A[e] + 1 /\ A[e] = round[e] - 1
      /\ \A f \in Experts : f # e => B[f] = A[f]
  BY <1>1, SMT DEF Arrivals
<1>6. \A f \in Experts : /\ A[e] <= A[f] /\ A[f] <= A[e] + 1
                         /\ A[f] = A[e] \/ A[f] = A[e] + 1
  <2> SUFFICES ASSUME NEW f \in Experts
               PROVE  A[e] <= A[f] /\ A[f] <= A[e] + 1
    BY <1>5, SMT
  <2>1. round[e] - 1 <= A[f] /\ round[f] - 1 <= A[e]
    BY DEF ScanIInv, InStep
  <2>2. A[f] <= round[f] /\ round[f] \in Nat
    BY <1>1, SMT DEF Arrivals
  <2> HIDE DEF A, B
  <2> QED BY <1>5, <2>1, <2>2, SMT
<1>7. \A f \in Experts : f # e => stage'[f] = stage[f] /\ dist'[f] = dist[f]
  BY <1>1
<1>8. stage'[e] = st /\ dist'[e] = d
  BY <1>1
<1>9. InStep'
  <2> SUFFICES ASSUME NEW f \in Experts, NEW g \in Experts
               PROVE  /\ round'[f] - 1 <= B[g]
                      /\ B[f] = B[g] => SamePlace(f, g)'
                      /\ B[g] = B[f] + 1 => NextPlace(f, g)'
    BY DEF InStep
  <2>1. /\ round[f] - 1 <= A[g] /\ A[f] \in Nat /\ A[g] \in Nat /\ A[e] \in Nat
        /\ A[f] = A[g] => SamePlace(f, g)
        /\ A[g] = A[f] + 1 => NextPlace(f, g)
        /\ A[e] = A[g] => SamePlace(e, g)
        /\ A[e] = A[f] => SamePlace(f, e)
        /\ A[g] = A[e] + 1 => NextPlace(e, g)
        /\ A[f] = A[e] + 1 => NextPlace(e, f)
    BY <1>5 DEF ScanIInv, InStep
  <2>2. round'[f] - 1 <= B[g]
    <3>1. A[g] <= B[g] /\ round[f] \in Nat
      BY <1>1, <1>5, SMT
    <3> HIDE DEF A, B
    <3> QED BY <1>1, <1>5, <2>1, <3>1, SMT
  <2>3. CASE f = e /\ g = e
    <3> HIDE DEF A, B
    <3>1. ~ (B[e] = B[e] + 1)
      BY <1>5, SMT
    <3> QED BY <2>2, <2>3, <3>1 DEF SamePlace
  <2>4. CASE f = e /\ g # e
    <3>1. ASSUME B[f] = B[g] PROVE SamePlace(f, g)'
      <4>1. NextPlace(e, g)
        <5> HIDE DEF A, B
        <5> QED BY <1>5, <2>1, <2>4, <3>1, SMT
      <4>2. (IsAt(stage[g], dist[g]) /\ st = GoOn(d)) \/ st = stage[g]
        BY <4>1 DEF NextPlace, Goes
      <4>3. dist[g] = d
        BY <4>1 DEF NextPlace, Goes
      <4>4. st = stage[g] \/ {st, stage[g]} \subseteq Past
        BY <4>2, <4>3 DEF IsAt, GoOn, Past
      <4> QED BY <1>7, <1>8, <2>4, <4>3, <4>4 DEF SamePlace
    <3>2. ~ (B[g] = B[f] + 1)
      <4> HIDE DEF A, B
      <4> QED BY <1>5, <1>6, <2>1, <2>4, SMT
    <3> QED BY <2>2, <3>1, <3>2
  <2>5. CASE f # e /\ g = e
    <3>1. ASSUME B[f] = B[g] PROVE SamePlace(f, g)'
      <4>1. NextPlace(e, f)
        <5> HIDE DEF A, B
        <5> QED BY <1>5, <2>1, <2>5, <3>1, SMT
      <4>2. (IsAt(stage[f], dist[f]) /\ st = GoOn(d)) \/ st = stage[f]
        BY <4>1 DEF NextPlace, Goes
      <4>3. dist[f] = d
        BY <4>1 DEF NextPlace, Goes
      <4>4. st = stage[f] \/ {st, stage[f]} \subseteq Past
        BY <4>2, <4>3 DEF IsAt, GoOn, Past
      <4> QED BY <1>7, <1>8, <2>5, <4>3, <4>4 DEF SamePlace
    <3>2. ASSUME B[g] = B[f] + 1 PROVE NextPlace(f, g)'
      <4>1. SamePlace(f, e)
        <5> HIDE DEF A, B
        <5> QED BY <1>5, <2>1, <2>5, <3>2, SMT
      <4>2. stage[f] = stage[e] /\ dist[f] = dist[e]
        BY <4>1 DEF SamePlace, Goes, Past
      <4> QED BY <1>7, <1>8, <2>5, <4>2 DEF NextPlace, Goes, IsAt
    <3> QED BY <2>2, <3>1, <3>2
  <2>6. CASE f # e /\ g # e
    <3>1. SamePlace(f, g) => SamePlace(f, g)'
      BY <1>7, <2>6 DEF SamePlace
    <3>2. NextPlace(f, g) => NextPlace(f, g)'
      BY <1>7, <2>6 DEF NextPlace
    <3> QED BY <1>5, <2>1, <2>2, <2>6, <3>1, <3>2
  <2> QED BY <2>3, <2>4, <2>5, <2>6
<1>10. Paced'
  <2> SUFFICES ASSUME NEW f \in Experts
        PROVE  /\ stage'[f] = "start" => B[f] = 0 /\ dist'[f] = 1
               /\ stage'[f] = "load" => dist'[f] < NumExperts /\ B[f] + 1 <= 2 * dist'[f]
               /\ stage'[f] = "add" => dist'[f] < NumExperts /\ B[f] <= 2 * dist'[f]
               /\ stage'[f] \in Past => NumExperts <= dist'[f] /\ B[f] + 1 <= 2 * NumExperts
    BY DEF Paced
  <2>1. /\ stage[f] = "start" => A[f] = 0 /\ dist[f] = 1
        /\ stage[f] = "load" => dist[f] < NumExperts /\ A[f] + 1 <= 2 * dist[f]
        /\ stage[f] = "add" => dist[f] < NumExperts /\ A[f] <= 2 * dist[f]
        /\ stage[f] \in Past => NumExperts <= dist[f] /\ A[f] + 1 <= 2 * NumExperts
    BY DEF ScanIInv, Paced
  <2>2. CASE f # e
    BY <1>5, <1>7, <2>1, <2>2
  <2>3. CASE f = e
    <3>0. NumExperts \in Nat \ {0}
      BY ScanAssumption
    <3>1. A[e] \in Nat /\ B[e] = A[e] + 1
      BY <1>5
    <3> HIDE DEF A, B
    <3>2. CASE stage[e] = "start" /\ d = dist[e] /\ st = GoOn(d)
      <4>1. A[e] = 0 /\ d = 1
        BY <2>1, <2>3, <3>2
      <4>2. st = IF 1 < NumExperts THEN "load" ELSE "publish"
        BY <3>2, <4>1 DEF GoOn
      <4>3. B[e] = 1
        BY <3>1, <4>1
      <4> QED BY <1>8, <2>3, <3>0, <4>1, <4>2, <4>3, SMT DEF Past
    <3>3. CASE stage[e] = "load" /\ d = dist[e] /\ st = "add"
      BY <1>2, <1>8, <2>1, <2>3, <3>0, <3>1, <3>3, SMT DEF Past
    <3>4. CASE stage[e] = "add" /\ d = NextDist(dist[e]) /\ st = GoOn(d)
      <4>1. st = IF d < NumExperts THEN "load" ELSE "publish"
        BY <3>4 DEF GoOn
      <4>2. d = 2 * dist[e] /\ dist[e] < NumExperts /\ A[e] <= 2 * dist[e]
        BY <2>1, <2>3, <3>4 DEF NextDist
      <4> QED BY <1>2, <1>8, <2>3, <3>0, <3>1, <4>1, <4>2, SMT DEF Past
    <3> QED BY <3>2, <3>3, <3>4 DEF Goes
  <2> QED BY <2>2, <2>3
<1>11. round' \in [Experts -> Nat \ {0}] /\ inside' \subseteq Experts
  BY <1>1
<1> QED BY <1>1, <1>4, <1>9, <1>10, <1>11

\* A thread that only moves on among the stages before its result leaves the result right.
LEMMA ResultRests ==
  ASSUME ScanIInv, UNCHANGED << launch, result >>,
         \A e \in Experts : stage'[e] = "done" <=> stage[e] = "done"
  PROVE  Accepted' /\ ResultRight'
<1>1. NumExperts - 1 \in Experts
  BY ScanAssumption, SMT DEF Experts
<1>2. UNCHANGED << tokens, blockM, counts, offsets, total, tiles >>
  BY DEF launch, result
<1>3. TilesOf' = TilesOf
  BY <1>2 DEF TilesOf
<1>4. SerialOffsets' = SerialOffsets
  BY <1>2 DEF SerialOffsets, SumOver, MapThenSumSet, MapThenFoldSet
<1>5. SerialBases' = SerialBases
  BY <1>3 DEF SerialBases, SumOver, MapThenSumSet, MapThenFoldSet
<1>6. \A e, i : SerialEntry(e, i)' = SerialEntry(e, i)
  BY <1>2, <1>4, <1>5 DEF SerialEntry
<1>7. Accepted'
  <2>1. SumOver(counts, Experts)' = SumOver(counts, Experts)
    BY <1>2 DEF SumOver, MapThenSumSet, MapThenFoldSet
  <2> QED BY <1>2, <2>1 DEF ScanIInv, Accepted, Accepts
<1>8. ResultRight'
  BY <1>1, <1>2, <1>3, <1>4, <1>5, <1>6 DEF ScanIInv, ResultRight
<1> QED BY <1>7, <1>8

LEMMA StartKeeps ==
  ASSUME ScanIInv, NEW e \in Experts, Start(e)
  PROVE  ScanIInv'
<1>1. /\ stage[e] = "start" /\ Sync!Arrive(e) /\ sums' = [sums EXCEPT ![e] = {e}]
      /\ stage' = [stage EXCEPT ![e] = GoOn(dist[e])] /\ dist' = dist /\ loaded' = loaded
      /\ UNCHANGED << launch, result >>
  BY DEF Start, At
<1>2. dist' = [dist EXCEPT ![e] = dist[e]] /\ Goes(e, GoOn(dist[e]), dist[e])
  BY <1>1 DEF Goes, ScanIInv, ThreadTypes
<1>3. /\ InStep' /\ Paced' /\ ThreadTypes'
  <2>1. sums' \in [Experts -> SUBSET (Experts \cup {-1})]
    BY <1>1 DEF ScanIInv, ThreadTypes
  <2> QED BY <1>1, <1>2, <2>1, ArriveKeeps DEF ScanIInv, ThreadTypes
<1>4. \A f \in Experts : f # e => stage'[f] = stage[f] /\ sums'[f] = sums[f]
  BY <1>1 DEF ScanIInv, ThreadTypes
<1>5. stage'[e] \in {"load", "publish"} /\ sums'[e] = {e}
  BY <1>1 DEF ScanIInv, ThreadTypes, GoOn
<1>6. Accepted' /\ ResultRight'
  BY <1>1, <1>4, <1>5, ResultRests
<1>7. NoDoubleCount'
  <2> SUFFICES ASSUME NEW f \in Experts
               PROVE  /\ stage'[f] # "start" => sums'[f] = Window(f, dist'[f])
                      /\ stage'[f] = "add" => loaded'[f] =
                            {x \in Experts : f - 2 * dist'[f] < x /\ x <= f - dist'[f]}
    BY DEF NoDoubleCount, Window
  <2>1. CASE f # e
    BY <1>1, <1>4, <2>1 DEF ScanIInv, NoDoubleCount
  <2>2. CASE f = e
    <3>1. dist[e] = 1
      BY <1>1 DEF ScanIInv, Paced
    <3>2. Window(e, 1) = {e}
      BY SMT DEF Window, Experts
    <3> QED BY <1>1, <1>5, <2>2, <3>1, <3>2
  <2> QED BY <2>1, <2>2
<1> QED BY <1>3, <1>6, <1>7 DEF ScanIInv

\* What a thread reads below its own has not been added to since the last __syncthreads,
\* or has been loaded already by its owner and not yet added to.
LEMMA LowerRight ==
  ASSUME ScanIInv, NEW e \in Experts, At(e, "load")
  PROVE  Lower(e) = {x \in Experts : e - 2 * dist[e] < x /\ x <= e - dist[e]}
<1>1. stage[e] = "load" /\ e \notin inside /\ dist[e] \in Nat \ {0} /\ e \in Nat
  BY DEF At, ScanIInv, ThreadTypes, Experts
<1> DEFINE d == dist[e]
<1>2. CASE d <= e
  <2> DEFINE f == e - d
  <2>1. f \in Experts
    BY <1>1, <1>2, ScanAssumption, SMT DEF Experts
  <2>2. /\ round[e] - 1 <= Arrivals[f] /\ round[f] - 1 <= Arrivals[e]
        /\ Arrivals[e] = Arrivals[f] => SamePlace(e, f)
        /\ Arrivals[f] = Arrivals[e] + 1 => NextPlace(e, f)
    BY <2>1 DEF ScanIInv, InStep
  <2>3. /\ Arrivals[e] = round[e] - 1 /\ round[e] \in Nat /\ round[f] \in Nat
        /\ Arrivals[f] = round[f] \/ Arrivals[f] = round[f] - 1
    BY <1>1, <2>1 DEF Arrivals, ScanIInv, ThreadTypes
  <2>4. Arrivals[f] = Arrivals[e] \/ Arrivals[f] = Arrivals[e] + 1
    <3> HIDE DEF f
    <3> QED BY <2>2, <2>3, SMT
  <2>5. SamePlace(e, f) \/ NextPlace(e, f)
    BY <2>2, <2>4
  <2>6. stage[f] \in {"load", "add"} /\ dist[f] = d
    BY <1>1, <2>5 DEF SamePlace, NextPlace, Past
  <2>7. sums[f] = Window(f, d)
    BY <2>1, <2>6 DEF ScanIInv, NoDoubleCount
  <2>8. Window(f, d) = {x \in Experts : e - 2 * d < x /\ x <= e - d}
    <3>1. \A x \in Experts : f - d < x <=> e - 2 * d < x
      BY <1>1, SMT DEF Experts
    <3> QED BY <3>1 DEF Window
  <2> QED BY <1>1, <1>2, <2>7, <2>8 DEF Lower
<1>3. CASE ~ (d <= e)
  <2>1. \A x \in Experts : ~ (x <= e - d)
    BY <1>1, <1>3, SMT DEF Experts
  <2>2. Lower(e) = {}
    BY <1>1, <1>3, SMT DEF Lower
  <2> QED BY <2>1, <2>2
<1> QED BY <1>2, <1>3

LEMMA LoadKeeps ==
  ASSUME ScanIInv, NEW e \in Experts, Load(e)
  PROVE  ScanIInv'
<1>1. /\ stage[e] = "load" /\ Sync!Arrive(e) /\ sums' = sums /\ At(e, "load")
      /\ stage' = [stage EXCEPT ![e] = "add"] /\ dist' = dist
      /\ loaded' = [loaded EXCEPT ![e] = Lower(e)]
      /\ UNCHANGED << launch, result >>
  BY DEF Load, At
<1>2. dist' = [dist EXCEPT ![e] = dist[e]] /\ Goes(e, "add", dist[e])
  BY <1>1 DEF Goes, ScanIInv, ThreadTypes
<1>3. Lower(e) = {x \in Experts : e - 2 * dist[e] < x /\ x <= e - dist[e]}
  BY <1>1, LowerRight
<1>4. InStep' /\ Paced' /\ ThreadTypes'
  <2>1. loaded' \in [Experts -> SUBSET (Experts \cup {-1})]
    BY <1>1, <1>3 DEF ScanIInv, ThreadTypes
  <2> QED BY <1>1, <1>2, <2>1, ArriveKeeps DEF ScanIInv, ThreadTypes
<1>5. /\ \A f \in Experts : f # e => stage'[f] = stage[f] /\ loaded'[f] = loaded[f]
      /\ stage'[e] = "add" /\ loaded'[e] = Lower(e)
  BY <1>1 DEF ScanIInv, ThreadTypes
<1>6. Accepted' /\ ResultRight'
  BY <1>1, <1>5, ResultRests
<1>7. NoDoubleCount'
  <2> SUFFICES ASSUME NEW f \in Experts
               PROVE  /\ stage'[f] # "start" => sums'[f] = Window(f, dist'[f])
                      /\ stage'[f] = "add" => loaded'[f] =
                            {x \in Experts : f - 2 * dist'[f] < x /\ x <= f - dist'[f]}
    BY DEF NoDoubleCount, Window
  <2>1. stage[f] # "start" => sums[f] = Window(f, dist[f])
    BY DEF ScanIInv, NoDoubleCount
  <2>2. CASE f # e
    BY <1>1, <1>5, <2>2 DEF ScanIInv, NoDoubleCount
  <2>3. CASE f = e
    BY <1>1, <1>3, <1>5, <2>1, <2>3
  <2> QED BY <2>2, <2>3
<1> QED BY <1>4, <1>6, <1>7 DEF ScanIInv

LEMMA AddKeeps ==
  ASSUME ScanIInv, NEW e \in Experts, Add(e)
  PROVE  ScanIInv'
<1>1. /\ stage[e] = "add" /\ Sync!Arrive(e) /\ loaded' = loaded
      /\ sums' = [sums EXCEPT ![e] = sums[e] \cup loaded[e]]
      /\ stage' = [stage EXCEPT ![e] = GoOn(NextDist(dist[e]))]
      /\ dist' = [dist EXCEPT ![e] = NextDist(dist[e])]
      /\ UNCHANGED << launch, result >>
  BY DEF Add, At
<1>2. Goes(e, GoOn(NextDist(dist[e])), NextDist(dist[e]))
  BY <1>1 DEF Goes
<1>3. InStep' /\ Paced' /\ ThreadTypes'
  <2>1. sums' \in [Experts -> SUBSET (Experts \cup {-1})]
    <3>1. sums[e] \cup loaded[e] \in SUBSET (Experts \cup {-1})
      BY DEF ScanIInv, ThreadTypes
    <3> QED BY <1>1, <3>1 DEF ScanIInv, ThreadTypes
  <2> QED BY <1>1, <1>2, <2>1, ArriveKeeps DEF ScanIInv, ThreadTypes
<1>4. /\ \A f \in Experts : f # e =>
            stage'[f] = stage[f] /\ sums'[f] = sums[f] /\ dist'[f] = dist[f]
      /\ stage'[e] = GoOn(NextDist(dist[e])) /\ sums'[e] = sums[e] \cup loaded[e]
      /\ dist'[e] = 2 * dist[e]
  BY <1>1 DEF ScanIInv, ThreadTypes, NextDist
<1>5. stage'[e] \in {"load", "publish"}
  BY <1>4 DEF GoOn
<1>6. Accepted' /\ ResultRight'
  BY <1>1, <1>4, <1>5, ResultRests
<1>7. NoDoubleCount'
  <2> SUFFICES ASSUME NEW f \in Experts
               PROVE  /\ stage'[f] # "start" => sums'[f] = Window(f, dist'[f])
                      /\ stage'[f] = "add" => loaded'[f] =
                            {x \in Experts : f - 2 * dist'[f] < x /\ x <= f - dist'[f]}
    BY DEF NoDoubleCount, Window
  <2>1. CASE f # e
    BY <1>1, <1>4, <2>1 DEF ScanIInv, NoDoubleCount
  <2>2. CASE f = e
    <3>1. /\ sums[e] = Window(e, dist[e])
          /\ loaded[e] = {x \in Experts : e - 2 * dist[e] < x /\ x <= e - dist[e]}
      BY <1>1 DEF ScanIInv, NoDoubleCount
    <3>2. dist[e] \in Nat \ {0} /\ e \in Nat
      BY DEF ScanIInv, ThreadTypes, Experts
    <3> DEFINE d == dist[e]
    <3>3. \A x \in Experts : (e - 2 * d < x /\ x <= e) <=>
                             ((e - d < x /\ x <= e) \/ (e - 2 * d < x /\ x <= e - d))
      <4> HIDE DEF d
      <4> QED BY <3>2, SMT DEF Experts, d
    <3>4. Window(e, 2 * d) = sums[e] \cup loaded[e]
      BY <3>1, <3>3 DEF Window
    <3> QED BY <1>4, <1>5, <2>2, <3>4
  <2> QED BY <2>1, <2>2
<1> QED BY <1>3, <1>6, <1>7 DEF ScanIInv

\* A thread leaves a __syncthreads when all have arrived; nobody's count of arrivals changes.
LEMMA LeaveKeeps ==
  ASSUME ScanIInv, NEW e \in Experts, Leave(e)
  PROVE  ScanIInv'
<1>1. /\ e \in inside /\ \A f \in Sync!Group(e) : Sync!Reached(f, round[e])
      /\ round' = [round EXCEPT ![e] = round[e] + 1] /\ inside' = inside \ {e}
      /\ UNCHANGED << stage, dist, sums, loaded, launch, result >>
  BY DEF Leave, Sync!Leave
<1>2. round \in [Experts -> Nat \ {0}] /\ inside \subseteq Experts
  BY DEF ScanIInv, ThreadTypes
<1>3. \A f \in Experts : round[f] > round[e] \/ (round[f] = round[e] /\ f \in inside)
  BY <1>1 DEF Sync!Group, Sync!Reached
<1>4. \A f \in Experts : Arrivals[f] \in Int /\ round[e] <= Arrivals[f]
  BY <1>2, <1>3, SMT DEF Arrivals
<1>5. round'[e] = round[e] + 1 /\ \A f \in Experts : f # e => round'[f] = round[f]
  BY <1>1, <1>2
<1>6. Arrivals' = Arrivals
  <2>1. \A f \in Experts : (IF f \in inside' THEN round'[f] ELSE round'[f] - 1)
                                = (IF f \in inside THEN round[f] ELSE round[f] - 1)
    <3> SUFFICES ASSUME NEW f \in Experts
                 PROVE  (IF f \in inside' THEN round'[f] ELSE round'[f] - 1)
                                = (IF f \in inside THEN round[f] ELSE round[f] - 1)
      OBVIOUS
    <3>1. CASE f = e
      BY <1>1, <1>2, <1>5, <3>1, SMT
    <3>2. CASE f # e
      BY <1>1, <1>5, <3>2
    <3> QED BY <3>1, <3>2
  <2> QED BY <2>1 DEF Arrivals
<1>7. ThreadTypes'
  BY <1>1, <1>2, SMT DEF ScanIInv, ThreadTypes
<1>8. InStep'
  <2> SUFFICES ASSUME NEW f \in Experts, NEW g \in Experts
               PROVE  /\ round'[f] - 1 <= Arrivals[g]
                      /\ Arrivals[f] = Arrivals[g] => SamePlace(f, g)'
                      /\ Arrivals[g] = Arrivals[f] + 1 => NextPlace(f, g)'
    BY <1>6 DEF InStep
  <2>1. /\ round[f] - 1 <= Arrivals[g]
        /\ Arrivals[f] = Arrivals[g] => SamePlace(f, g)
        /\ Arrivals[g] = Arrivals[f] + 1 => NextPlace(f, g)
    BY DEF ScanIInv, InStep
  <2>2. round'[f] - 1 <= Arrivals[g]
    <3>1. CASE f = e
      BY <1>2, <1>4, <1>5, <3>1, SMT
    <3>2. CASE f # e
      BY <1>5, <2>1, <3>2
    <3> QED BY <3>1, <3>2
  <2>3. (SamePlace(f, g)' <=> SamePlace(f, g)) /\ (NextPlace(f, g)' <=> NextPlace(f, g))
    BY <1>1 DEF SamePlace, NextPlace
  <2> QED BY <2>1, <2>2, <2>3
<1>9. Paced'
  BY <1>1, <1>6 DEF ScanIInv, Paced
<1>10. NoDoubleCount'
  BY <1>1 DEF ScanIInv, NoDoubleCount, Window
<1>11. Accepted' /\ ResultRight'
  BY <1>1, ResultRests
<1> QED BY <1>7, <1>8, <1>9, <1>10, <1>11 DEF ScanIInv

\* The serial sums as prefix sums.
LEMMA SerialSums ==
  ASSUME Accepted
  PROVE  /\ NumExperts \in Nat \ {0} /\ Experts = 0..(NumExperts - 1)
         /\ blockM \in Nat \ {0} /\ TilesOf \in [Experts -> Nat]
         /\ \A e \in Experts : blockM * TilesOf[e] + 1 <= counts[e] + blockM
         /\ FirstSums(counts, NumExperts, SerialOffsets)
         /\ FirstSums(TilesOf, NumExperts, SerialBases)
<1>1. NumExperts \in Nat \ {0} /\ Experts = 0..(NumExperts - 1) /\ blockM \in Nat \ {0}
  BY ScanAssumption DEF Experts, Accepted
<1>2. counts \in [Experts -> Nat]
  BY DEF Accepted
<1>3. \A e \in Experts : TilesOf[e] \in Nat /\ blockM * TilesOf[e] + 1 <= counts[e] + blockM
  <2> SUFFICES ASSUME NEW e \in Experts
               PROVE  TilesOf[e] \in Nat /\ blockM * TilesOf[e] + 1 <= counts[e] + blockM
    OBVIOUS
  <2> DEFINE B == blockM
             c == counts[e]
             t == TilesOf[e]
  <2>1. B \in Nat \ {0} /\ c \in Nat /\ t = (c + B - 1) \div B
    BY <1>1, <1>2 DEF TilesOf
  <2> HIDE DEF B, c, t
  <2>2. c + B - 1 \in Nat
    BY <2>1, SMT
  <2>3. t \in Nat /\ B * t <= c + B - 1
    BY <2>1, <2>2, DivBounds
  <2>4. B * t + 1 <= c + B
    <3> DEFINE x == B * t
    <3>1. x \in Nat /\ x <= c + B - 1
      BY <2>1, <2>3, SMT
    <3> HIDE DEF x
    <3>2. x + 1 <= c + B
      BY <2>1, <3>1, SMT
    <3> QED BY <3>2 DEF x
  <2> QED BY <2>3, <2>4 DEF B, c, t
<1>4. TilesOf \in [Experts -> Nat]
  BY <1>3 DEF TilesOf
<1>5. FirstSums(counts, NumExperts, SerialOffsets)
  BY <1>1, <1>2, FirstSumsOf DEF SerialOffsets
<1>6. FirstSums(TilesOf, NumExperts, SerialBases)
  BY <1>1, <1>4, FirstSumsOf DEF SerialBases
<1> QED BY <1>1, <1>3, <1>4, <1>5, <1>6

\* After the last doubling a thread's window reaches down to the first expert.
LEMMA ExclusiveRight ==
  ASSUME ScanIInv, NEW e \in Experts, stage[e] \in Past
  PROVE  /\ Exclusive(counts, e) = SerialOffsets[e] /\ Exclusive(TilesOf, e) = SerialBases[e]
         /\ SerialOffsets[e] \in Nat /\ SerialBases[e] \in Nat
         /\ SerialOffsets[e + 1] = SerialOffsets[e] + counts[e]
         /\ SerialBases[e + 1] = SerialBases[e] + TilesOf[e]
<1>1. /\ NumExperts \in Nat \ {0} /\ Experts = 0..(NumExperts - 1)
      /\ TilesOf \in [Experts -> Nat] /\ counts \in [Experts -> Nat]
      /\ FirstSums(counts, NumExperts, SerialOffsets)
      /\ FirstSums(TilesOf, NumExperts, SerialBases)
  BY SerialSums DEF ScanIInv, Accepted
<1>2. sums[e] = Window(e, dist[e]) /\ NumExperts <= dist[e] /\ dist[e] \in Nat
  BY DEF ScanIInv, NoDoubleCount, Paced, Past, ThreadTypes
<1>3. Window(e, dist[e]) = 0..e
  <2>1. \A x \in Experts : e - dist[e] < x
    BY <1>1, <1>2, SMT
  <2>2. \A x : x \in 0..e <=> x \in Experts /\ x <= e
    BY <1>1, SMT
  <2> QED BY <2>1, <2>2 DEF Window
<1>4. /\ e \in 0..(NumExperts - 1) /\ e \in 0..NumExperts /\ e + 1 \in 0..NumExperts
      /\ (e + 1) - 1 = e
  BY <1>1, SMT
<1>5. /\ SerialOffsets[e] \in Nat /\ SerialBases[e] \in Nat
      /\ SerialOffsets[e + 1] = SerialOffsets[e] + counts[e]
      /\ SerialBases[e + 1] = SerialBases[e] + TilesOf[e]
  BY <1>1, <1>4 DEF FirstSums
<1>6. SerialOffsets[e + 1] = SumOver(counts, 0..e) /\ SerialBases[e + 1] = SumOver(TilesOf, 0..e)
  BY <1>4 DEF SerialOffsets, SerialBases
<1>7. TotalOf(counts, sums[e]) = SumOver(counts, 0..e)
  BY <1>2, <1>3 DEF TotalOf, SumOver
<1>8. TotalOf(TilesOf, sums[e]) = SumOver(TilesOf, 0..e)
  BY <1>2, <1>3 DEF TotalOf, SumOver
<1>9. counts[e] \in Nat /\ TilesOf[e] \in Nat
  BY <1>1
<1> DEFINE o == SerialOffsets[e]
           b == SerialBases[e]
           c == counts[e]
           t == TilesOf[e]
<1> DEFINE x == TotalOf(counts, sums[e])
           y == TotalOf(TilesOf, sums[e])
<1>10. Exclusive(counts, e) = x - c /\ Exclusive(TilesOf, e) = y - t
  BY DEF Exclusive
<1>11. x - c = o /\ y - t = b
  <2>1. x = o + c /\ y = b + t
    BY <1>5, <1>6, <1>7, <1>8
  <2>2. o \in Nat /\ b \in Nat /\ c \in Nat /\ t \in Nat
    BY <1>5, <1>9
  <2> HIDE DEF o, b, c, t, x, y
  <2> QED BY <2>1, <2>2, SMT
<1>12. Exclusive(counts, e) = o /\ Exclusive(TilesOf, e) = b
  <2> HIDE DEF x, y, o, b, c, t
  <2> QED BY <1>10, <1>11
<1> QED BY <1>5, <1>12

LEMMA PublishKeeps ==
  ASSUME ScanIInv, NEW e \in Experts, Publish(e)
  PROVE  ScanIInv'
<1>1. /\ stage[e] = "publish" /\ stage' = [stage EXCEPT ![e] = "done"]
      /\ UNCHANGED << dist, sums, loaded, tokens, blockM, counts, round, inside >>
      /\ offsets' = [x \in 0..NumExperts |->
            CASE x = e -> Exclusive(counts, e)
              [] x = NumExperts /\ e = NumExperts - 1 -> Exclusive(counts, e) + counts[e]
              [] OTHER -> offsets[x]]
      /\ total' = IF e = NumExperts - 1 THEN Exclusive(TilesOf, e) + TilesOf[e] ELSE total
      /\ tiles' = tiles \cup Entries(e)
  BY DEF Publish, At, launch, sync
<1>2. stage \in [Experts -> {"start", "load", "add", "publish", "done"}]
  BY DEF ScanIInv, ThreadTypes
<1>3. stage'[e] = "done" /\ \A f \in Experts : f # e => stage'[f] = stage[f]
  BY <1>1, <1>2
<1>4. ThreadTypes'
  BY <1>1, <1>2 DEF ScanIInv, ThreadTypes
<1>5. Arrivals' = Arrivals
  BY <1>1 DEF Arrivals
<1>6. InStep'
  <2> SUFFICES ASSUME NEW f \in Experts, NEW g \in Experts
               PROVE  /\ round[f] - 1 <= Arrivals[g]
                      /\ Arrivals[f] = Arrivals[g] => SamePlace(f, g)'
                      /\ Arrivals[g] = Arrivals[f] + 1 => NextPlace(f, g)'
    BY <1>1, <1>5 DEF InStep
  <2>1. /\ round[f] - 1 <= Arrivals[g]
        /\ Arrivals[f] = Arrivals[g] => SamePlace(f, g)
        /\ Arrivals[g] = Arrivals[f] + 1 => NextPlace(f, g)
    BY DEF ScanIInv, InStep
  <2>2. SamePlace(f, g) => SamePlace(f, g)'
    BY <1>1, <1>3 DEF SamePlace, Past
  <2>3. NextPlace(f, g) => NextPlace(f, g)'
    <3>1. f # e \/ ~ NextPlace(f, g)
      BY <1>1 DEF NextPlace
    <3>2. \A d : IsAt(stage[g], d) => IsAt(stage'[g], d)
      BY <1>1, <1>3 DEF IsAt, GoOn
    <3>3. stage[g] = "add" => stage'[g] = "add"
      BY <1>1, <1>3
    <3> QED BY <1>1, <1>3, <3>1, <3>2, <3>3 DEF NextPlace
  <2> QED BY <2>1, <2>2, <2>3
<1>7. Paced'
  BY <1>1, <1>3, <1>5 DEF ScanIInv, Paced, Past
<1>8. NoDoubleCount'
  BY <1>1, <1>3 DEF ScanIInv, NoDoubleCount, Window
<1>9. TilesOf' = TilesOf
  BY <1>1 DEF TilesOf
<1>10. SerialOffsets' = SerialOffsets
  BY <1>1 DEF SerialOffsets, SumOver, MapThenSumSet, MapThenFoldSet
<1>11. SerialBases' = SerialBases
  BY <1>9 DEF SerialBases, SumOver, MapThenSumSet, MapThenFoldSet
<1>12. \A f, i : SerialEntry(f, i)' = SerialEntry(f, i)
  BY <1>1, <1>10, <1>11 DEF SerialEntry
<1>13. Accepted'
  <2>1. SumOver(counts, Experts)' = SumOver(counts, Experts)
    BY <1>1 DEF SumOver, MapThenSumSet, MapThenFoldSet
  <2> QED BY <1>1, <2>1 DEF ScanIInv, Accepted, Accepts
<1>14. /\ Exclusive(counts, e) = SerialOffsets[e] /\ Exclusive(TilesOf, e) = SerialBases[e]
       /\ SerialOffsets[e] \in Nat /\ SerialBases[e] \in Nat
       /\ SerialOffsets[e + 1] = SerialOffsets[e] + counts[e]
       /\ SerialBases[e + 1] = SerialBases[e] + TilesOf[e]
  BY <1>1, ExclusiveRight DEF Past
<1>15. /\ counts[e] \in Nat /\ TilesOf[e] \in Nat /\ NumExperts \in Nat \ {0}
       /\ Experts = 0..(NumExperts - 1)
  BY SerialSums DEF ScanIInv, Accepted
<1>16. \A t : t \in Entries(e) <=> \E i \in Nat : i < TilesOf[e] /\ t = SerialEntry(e, i)
  <2>1. \A i : i \in 0..(TilesOf[e] - 1) <=> i \in Nat /\ i < TilesOf[e]
    BY <1>15, SMT
  <2> QED BY <1>14, <2>1 DEF Entries, SerialEntry
<1>17. /\ offsets' \in [0..NumExperts -> Nat] /\ total' \in Nat
       /\ offsets'[e] = SerialOffsets[e]
       /\ \A f \in Experts : f # e => offsets'[f] = offsets[f]
       /\ e = NumExperts - 1 => /\ offsets'[NumExperts] = SerialOffsets[NumExperts]
                                /\ total' = SerialBases[NumExperts]
       /\ e # NumExperts - 1 => offsets'[NumExperts] = offsets[NumExperts] /\ total' = total
  <2>1. /\ offsets \in [0..NumExperts -> Nat] /\ total \in Nat
    BY DEF ScanIInv, ResultRight
  <2>2. /\ e \in 0..NumExperts /\ NumExperts \in 0..NumExperts /\ e # NumExperts
        /\ \A f \in Experts : f \in 0..NumExperts /\ f # NumExperts
        /\ e = NumExperts - 1 => e + 1 = NumExperts
    BY <1>15, SMT
  <2> DEFINE o == SerialOffsets[e]
             c == counts[e]
             b == SerialBases[e]
             t == TilesOf[e]
  <2>3. o + c \in Nat /\ b + t \in Nat
    <3>1. o \in Nat /\ b \in Nat /\ c \in Nat /\ t \in Nat
      BY <1>14, <1>15
    <3> HIDE DEF o, b, c, t
    <3> QED BY <3>1, SMT
  <2>4. /\ offsets' = [x \in 0..NumExperts |->
                CASE x = e -> o
                  [] x = NumExperts /\ e = NumExperts - 1 -> o + c
                  [] OTHER -> offsets[x]]
        /\ total' = IF e = NumExperts - 1 THEN b + t ELSE total
        /\ o \in Nat /\ SerialOffsets[e + 1] = o + c /\ SerialBases[e + 1] = b + t
    BY <1>1, <1>14
  <2> HIDE DEF o, c, b, t
  <2>5. \A x \in 0..NumExperts : offsets'[x] =
            IF x = e THEN o ELSE IF x = NumExperts /\ e = NumExperts - 1 THEN o + c
            ELSE offsets[x]
    BY <2>4
  <2>6. offsets' \in [0..NumExperts -> Nat]
    <3>1. \A x \in 0..NumExperts : offsets'[x] \in Nat
      BY <2>1, <2>3, <2>4, <2>5
    <3> QED BY <2>4, <3>1
  <2>7. offsets'[e] = o
    BY <2>2, <2>5
  <2>8. total' \in Nat
    BY <2>1, <2>3, <2>4
  <2>9. \A f \in Experts : f # e => offsets'[f] = offsets[f]
    BY <2>2, <2>5
  <2>10. e = NumExperts - 1 => offsets'[NumExperts] = SerialOffsets[NumExperts]
                               /\ total' = SerialBases[NumExperts]
    BY <2>2, <2>4, <2>5
  <2>11. e # NumExperts - 1 => offsets'[NumExperts] = offsets[NumExperts] /\ total' = total
    BY <2>2, <2>4, <2>5
  <2> QED BY <2>6, <2>7, <2>8, <2>9, <2>10, <2>11 DEF o
<1>18. ResultRight'
  <2>1. \A f \in Experts : stage'[f] = "done" => offsets'[f] = SerialOffsets[f]
    BY <1>3, <1>17 DEF ScanIInv, ResultRight
  <2>2. stage'[NumExperts - 1] = "done" =>
            offsets'[NumExperts] = SerialOffsets[NumExperts] /\ total' = SerialBases[NumExperts]
    <3>1. NumExperts - 1 \in Experts
      BY <1>15, SMT
    <3> QED BY <1>3, <1>17, <3>1 DEF ScanIInv, ResultRight
  <2>3. ASSUME NEW t \in tiles'
        PROVE  \E f \in Experts : \E i \in Nat :
                    stage'[f] = "done" /\ i < TilesOf[f] /\ t = SerialEntry(f, i)
    <3>1. CASE t \in tiles
      <4>1. PICK f \in Experts, i \in Nat :
                stage[f] = "done" /\ i < TilesOf[f] /\ t = SerialEntry(f, i)
        BY <3>1 DEF ScanIInv, ResultRight
      <4>2. stage'[f] = "done"
        BY <1>3, <4>1
      <4> QED BY <4>1, <4>2
    <3>2. CASE t \in Entries(e)
      BY <1>3, <1>16, <3>2
    <3> QED BY <1>1, <3>1, <3>2
  <2>4. ASSUME NEW f \in Experts, NEW i \in Nat, stage'[f] = "done", i < TilesOf[f]
        PROVE  SerialEntry(f, i) \in tiles'
    <3>1. CASE f = e
      BY <1>1, <1>16, <2>4, <3>1
    <3>2. CASE f # e
      BY <1>1, <1>3, <2>4, <3>2 DEF ScanIInv, ResultRight
    <3> QED BY <3>1, <3>2
  <2> QED BY <1>9, <1>10, <1>11, <1>12, <1>17, <2>1, <2>2, <2>3, <2>4 DEF ResultRight
<1> QED BY <1>4, <1>6, <1>7, <1>8, <1>13, <1>18 DEF ScanIInv

LEMMA ScanStep == ScanIInv /\ [ScanNext]_scanVars => ScanIInv'
<1> SUFFICES ASSUME ScanIInv, [ScanNext]_scanVars PROVE ScanIInv'
  OBVIOUS
<1>1. CASE UNCHANGED scanVars
  <2>1. UNCHANGED << launch, sync, stage, dist, sums, loaded, result >>
    BY <1>1 DEF scanVars
  <2>2. UNCHANGED << round, inside >>
    BY <2>1 DEF sync
  <2>3. Accepted' /\ ResultRight'
    BY <2>1, ResultRests
  <2>4. Arrivals' = Arrivals
    BY <2>2 DEF Arrivals
  <2>5. ThreadTypes' /\ Paced' /\ NoDoubleCount'
    BY <2>1, <2>2, <2>4 DEF ScanIInv, ThreadTypes, Paced, NoDoubleCount, Window
  <2>6. InStep'
    BY <2>1, <2>2, <2>4 DEF ScanIInv, InStep, SamePlace, NextPlace
  <2> QED BY <2>3, <2>5, <2>6 DEF ScanIInv
<1>2. ASSUME NEW e \in Experts, Thread(e) PROVE ScanIInv'
  BY <1>2, StartKeeps, LoadKeeps, AddKeeps, LeaveKeeps, PublishKeeps DEF Thread
<1> QED BY <1>1, <1>2 DEF ScanNext

\* The entries of different threads do not meet, fit the table, and leave no gap.
LEMMA EntriesFit ==
  ASSUME ScanIInv
  PROVE  TilesFit /\ \A t \in tiles : t.expert \in Experts /\ {t.at, t.row0} \subseteq Nat
<1>1. /\ NumExperts \in Nat \ {0} /\ Experts = 0..(NumExperts - 1)
      /\ blockM \in Nat \ {0} /\ TilesOf \in [Experts -> Nat] /\ counts \in [Experts -> Nat]
      /\ \A e \in Experts : blockM * TilesOf[e] + 1 <= counts[e] + blockM
      /\ FirstSums(counts, NumExperts, SerialOffsets)
      /\ FirstSums(TilesOf, NumExperts, SerialBases)
  BY SerialSums DEF ScanIInv, Accepted
<1> DEFINE b == SerialBases
           N == NumExperts
<1>2. /\ b \in [0..N -> Nat] /\ SerialOffsets \in [0..N -> Nat]
      /\ \A e \in Experts : b[e + 1] = b[e] + TilesOf[e]
  BY <1>1 DEF FirstSums
<1>3. \A e \in Experts : e \in 0..N /\ e + 1 \in 0..N /\ e + 1 <= N /\ N \in 0..N
                         /\ e \in 0..(N - 1)
  BY <1>1, SMT
<1>4. b[N] <= MaxTiles
  <2> DEFINE n == tokens * TopK
             s == SerialOffsets
  <2>1. N \in Nat /\ N \in 0..N /\ 0..(N - 1) = Experts
    BY <1>1, SMT
  <2>2. tokens \in Nat /\ TopK \in Nat
    <3>1. tokens \in 1..MaxTokens /\ MaxTokens \in Nat /\ TopK \in Nat \ {0}
      BY ScanAssumption DEF ScanIInv, Accepted
    <3> QED BY <3>1, SMT
  <2>3. n \in Nat
    BY <2>2, SMT
  <2>4. s[N] <= n
    <3>1. s[N] = SumOver(counts, Experts)
      BY <2>1 DEF SerialOffsets
    <3> QED BY <3>1 DEF ScanIInv, Accepted
  <2>5. b[N] <= n \div blockM + N
    <3>1. counts \in [0..(N - 1) -> Nat] /\ TilesOf \in [0..(N - 1) -> Nat]
      BY <1>1
    <3>2. \A m \in 0..(N - 1) : blockM * TilesOf[m] + 1 <= counts[m] + blockM
      BY <1>1
    <3>3. FirstSums(counts, N, s) /\ FirstSums(TilesOf, N, b)
      BY <1>1
    <3> HIDE DEF n, s, b, N
    <3> QED BY <1>1, <2>1, <2>3, <2>4, <3>1, <3>2, <3>3, RoundedSums
  <2>6. n \div blockM + N <= MaxTiles
    BY DEF ScanIInv, Accepted, Accepts
  <2>7. b[N] \in Nat /\ n \div blockM \in Nat /\ MaxTiles \in Nat
    <3>1. n \div blockM \in Nat
      <4> HIDE DEF n
      <4> QED BY <1>1, <2>3, DivBounds
    <3> QED BY <1>2, <2>1, <3>1, ScanAssumption
  <2> DEFINE q == n \div blockM
             m == b[N]
  <2>8. m <= q + N /\ q + N <= MaxTiles /\ m \in Nat /\ q \in Nat /\ MaxTiles \in Nat
    BY <2>5, <2>6, <2>7
  <2>9. m <= MaxTiles
    <3> HIDE DEF q, m, N
    <3> QED BY <2>1, <2>8, SMT
  <2> QED BY <2>9
<1>5. ASSUME NEW e \in Experts PROVE b[e + 1] <= b[N] /\ b[N] \in Nat /\ b[e] \in Nat
                                     /\ b[e + 1] \in Nat /\ TilesOf[e] \in Nat
  <2>1. N \in Nat /\ TilesOf \in [0..(N - 1) -> Nat]
    BY <1>1
  <2>2. e + 1 \in 0..N /\ N \in 0..N /\ e + 1 <= N
    BY <1>3
  <2>3. FirstSums(TilesOf, N, b)
    BY <1>1
  <2>4. b[e + 1] <= b[N]
    <3> HIDE DEF N, b
    <3> QED BY <2>1, <2>2, <2>3, SumsGrow
  <2> QED BY <1>1, <1>2, <1>3, <2>4
<1>6. ASSUME NEW t \in tiles
      PROVE  \E e \in Experts : \E i \in Nat :
                /\ i < TilesOf[e] /\ t = SerialEntry(e, i)
                /\ t.at = b[e] + i /\ t.expert = e /\ t.row0 = SerialOffsets[e] + i * blockM
                /\ t.at \in Nat /\ t.row0 \in Nat /\ b[e] <= t.at /\ t.at < b[e] + TilesOf[e]
                /\ t.at < MaxTiles
  <2>1. PICK e \in Experts, i \in Nat : i < TilesOf[e] /\ t = SerialEntry(e, i)
    BY DEF ScanIInv, ResultRight
  <2>2. t.at = b[e] + i /\ t.expert = e /\ t.row0 = SerialOffsets[e] + i * blockM
    BY <2>1 DEF SerialEntry
  <2>3. SerialOffsets[e] \in Nat
    BY <1>2, <1>3
  <2>4. i * blockM \in Nat
    BY <1>1, SMT
  <2>5. t.row0 \in Nat
    <3> DEFINE o == SerialOffsets[e]
               p == i * blockM
    <3>1. o \in Nat /\ p \in Nat /\ t.row0 = o + p
      BY <2>2, <2>3, <2>4
    <3> HIDE DEF o, p
    <3> QED BY <3>1, SMT
  <2>6. t.at \in Nat /\ b[e] <= t.at /\ t.at < b[e] + TilesOf[e] /\ t.at < MaxTiles
    <3> DEFINE be == b[e]
               te == TilesOf[e]
               m == b[N]
    <3>1. /\ be \in Nat /\ te \in Nat /\ m \in Nat /\ be + te <= m /\ m <= MaxTiles
          /\ t.at = be + i /\ i < te
      BY <1>2, <1>4, <1>5, <2>1, <2>2
    <3>2. MaxTiles \in Nat
      BY ScanAssumption
    <3>3. t.at \in Nat /\ be <= t.at /\ t.at < be + te /\ t.at < MaxTiles
      <4> HIDE DEF be, te, m
      <4> QED BY <3>1, <3>2, SMT
    <3> QED BY <3>3
  <2> QED BY <2>1, <2>2, <2>5, <2>6
<1>7. \A t \in tiles : t.expert \in Experts /\ {t.at, t.row0} \subseteq Nat /\ t.at < MaxTiles
  BY <1>6
<1>8. ASSUME NEW t \in tiles, NEW u \in tiles, t.at = u.at PROVE t = u
  <2>1. PICK e \in Experts, i \in Nat :
            /\ t = SerialEntry(e, i) /\ t.at = b[e] + i
            /\ t.at \in Nat /\ b[e] <= t.at /\ t.at < b[e] + TilesOf[e]
    BY <1>6
  <2>2. PICK f \in Experts, j \in Nat :
            /\ u = SerialEntry(f, j) /\ u.at = b[f] + j
            /\ b[f] <= u.at /\ u.at < b[f] + TilesOf[f]
    BY <1>6
  <2>3. e = f
    <3>1. /\ N \in Nat /\ TilesOf \in [0..(N - 1) -> Nat] /\ FirstSums(TilesOf, N, b)
          /\ e \in 0..(N - 1) /\ f \in 0..(N - 1) /\ t.at \in Nat
          /\ b[f] <= t.at /\ t.at < b[f] + TilesOf[f]
      BY <1>1, <1>3, <1>8, <2>1, <2>2
    <3> HIDE DEF N, b
    <3> QED BY <2>1, <3>1, SumsApart
  <2>4. i = j
    <3> DEFINE be == b[e]
    <3>1. be \in Nat /\ be + i = be + j
      BY <1>5, <1>8, <2>1, <2>2, <2>3
    <3> HIDE DEF be
    <3> QED BY <3>1, SMT
  <2> QED BY <2>1, <2>2, <2>3, <2>4
<1>9. ASSUME ScanDone PROVE {t.at : t \in tiles} = 0..(total - 1)
  <2>1. total = b[N]
    <3>1. N - 1 \in Experts
      BY <1>1, SMT
    <3> QED BY <1>9, <3>1 DEF ScanDone, ScanIInv, ResultRight
  <2>2. b[N] \in Nat
    BY <1>1, <1>2, SMT
  <2>3. ASSUME NEW t \in tiles PROVE t.at \in 0..(total - 1)
    <3>1. PICK e \in Experts, i \in Nat :
              t.at \in Nat /\ t.at < b[e] + TilesOf[e]
      BY <1>6
    <3> DEFINE be == b[e]
               te == TilesOf[e]
               m == b[N]
    <3>2. be \in Nat /\ te \in Nat /\ be + te <= m /\ m \in Nat /\ t.at < be + te /\ total = m
      BY <1>2, <1>5, <2>1, <3>1
    <3> HIDE DEF be, te, m
    <3> QED BY <3>1, <3>2, SMT
  <2>4. ASSUME NEW a \in 0..(total - 1) PROVE \E t \in tiles : t.at = a
    <3>1. a \in Nat /\ a < b[N]
      BY <2>1, <2>2, SMT
    <3>2. N \in Nat /\ TilesOf \in [0..(N - 1) -> Nat] /\ FirstSums(TilesOf, N, b)
      BY <1>1
    <3>3. PICK e \in 0..(N - 1) : b[e] <= a /\ a < b[e] + TilesOf[e]
      <4> HIDE DEF N, b
      <4> QED BY <3>1, <3>2, SumsCover
    <3>4. e \in Experts
      BY <1>1
    <3> DEFINE be == b[e]
               te == TilesOf[e]
               i == a - be
    <3>5. be \in Nat /\ te \in Nat
      BY <1>5, <3>4
    <3>6. i \in Nat /\ i < te /\ be + i = a
      <4>1. be <= a /\ a < be + te
        BY <3>3
      <4> HIDE DEF be, te
      <4> QED BY <3>1, <3>5, <4>1, SMT
    <3>7. SerialEntry(e, i) \in tiles
      <4>1. stage[e] = "done"
        BY <1>9, <3>4 DEF ScanDone
      <4> HIDE DEF i
      <4> QED BY <3>4, <3>6, <4>1 DEF ScanIInv, ResultRight
    <3>8. SerialEntry(e, i).at = a
      <4> HIDE DEF i
      <4> QED BY <3>6 DEF SerialEntry
    <3> QED BY <3>7, <3>8
  <2> QED BY <2>3, <2>4
<1> QED BY <1>7, <1>8, <1>9 DEF TilesFit

LEMMA ScanSuffices == ScanIInv => ScanExact
<1> SUFFICES ASSUME ScanIInv PROVE ScanExact
  OBVIOUS
<1>1. /\ NumExperts \in Nat \ {0} /\ Experts = 0..(NumExperts - 1)
  BY ScanAssumption DEF Experts
<1>2. round \in [Experts -> 1..(2 * NumExperts + 1)]
  <2>1. ASSUME NEW e \in Experts PROVE round[e] \in 1..(2 * NumExperts + 1)
    <3>1. round[e] \in Nat \ {0} /\ dist[e] \in Nat \ {0}
      BY DEF ScanIInv, ThreadTypes
    <3>2. stage[e] \in {"start", "load", "add", "publish", "done"}
      BY DEF ScanIInv, ThreadTypes
    <3>3. Arrivals[e] = round[e] \/ Arrivals[e] = round[e] - 1
      BY DEF Arrivals
    <3>4. /\ stage[e] = "start" => Arrivals[e] = 0 /\ dist[e] = 1
          /\ stage[e] = "load" => dist[e] < NumExperts /\ Arrivals[e] + 1 <= 2 * dist[e]
          /\ stage[e] = "add" => dist[e] < NumExperts /\ Arrivals[e] <= 2 * dist[e]
          /\ stage[e] \in Past => NumExperts <= dist[e] /\ Arrivals[e] + 1 <= 2 * NumExperts
      BY DEF ScanIInv, Paced
    <3>5. Arrivals[e] <= 2 * NumExperts
      <4>1. CASE stage[e] = "start"
        BY <1>1, <3>4, <4>1, SMT
      <4>2. CASE stage[e] = "load"
        BY <1>1, <3>1, <3>3, <3>4, <4>2, SMT
      <4>3. CASE stage[e] = "add"
        BY <1>1, <3>1, <3>3, <3>4, <4>3, SMT
      <4>4. CASE stage[e] \in Past
        BY <1>1, <3>1, <3>3, <3>4, <4>4, SMT
      <4> QED BY <3>2, <4>1, <4>2, <4>3, <4>4 DEF Past
    <3> QED BY <1>1, <3>1, <3>3, <3>5, SMT
  <2> QED BY <2>1 DEF ScanIInv, ThreadTypes
<1>3. ScanTypeOK
  BY <1>2, EntriesFit DEF ScanIInv, Accepted, ThreadTypes, ResultRight, ScanTypeOK
<1>4. OffsetsExact
  <2>1. ASSUME NEW e \in Experts, stage[e] = "done"
        PROVE  offsets[e] = TotalOf(counts, Below(e))
    <3>1. offsets[e] = SerialOffsets[e] /\ e \in 0..NumExperts
      BY <1>1, <2>1, SMT DEF ScanIInv, ResultRight
    <3>2. SerialOffsets[e] = SumOver(counts, 0..(e - 1))
      BY <3>1 DEF SerialOffsets
    <3> QED BY <3>1, <3>2 DEF TotalOf, SumOver, Below
  <2>2. ASSUME ScanDone
        PROVE  /\ offsets[NumExperts] = TotalOf(counts, Experts)
               /\ total = TotalOf(TilesOf, Experts)
    <3>1. NumExperts - 1 \in Experts /\ NumExperts \in 0..NumExperts
      BY <1>1, SMT
    <3>2. offsets[NumExperts] = SerialOffsets[NumExperts] /\ total = SerialBases[NumExperts]
      BY <2>2, <3>1 DEF ScanDone, ScanIInv, ResultRight
    <3>3. /\ SerialOffsets[NumExperts] = SumOver(counts, Experts)
          /\ SerialBases[NumExperts] = SumOver(TilesOf, Experts)
      BY <1>1, <3>1 DEF SerialOffsets, SerialBases
    <3> QED BY <3>2, <3>3 DEF TotalOf, SumOver
  <2> QED BY <2>1, <2>2 DEF OffsetsExact
<1> QED BY <1>3, <1>4, EntriesFit DEF ScanExact, ScanIInv

\* Whatever the number of experts, not only the powers of two, the histogram, the tile
\* height and the order in which the warps of block 0 run between two __syncthreads: the
\* in-place scan of Phase 1b counts no expert twice and leaves none out, its offsets and
\* tiles are those of the serial loop it replaced, and no entry is past MAX_TILES.
THEOREM ScanIsSerial == ScanSpec => []ScanExact
<1>1. ScanIInv => ScanExact
  BY ScanSuffices
<1> QED BY <1>1, ScanStart, ScanStep, PTL DEF ScanSpec

=============================================================================
