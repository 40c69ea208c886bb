----------------------------- MODULE GridBarrier -----------------------------
(* The software barrier of kernel/moe_monokernel/src/moe_grid_barrier.h:     *)
(* grid_barrier (one id, every block) and partial_barrier (several ids, each *)
(* with its arrival set), and the launches around it: the launcher clears    *)
(* the counters on the stream, then starts one block per SM.                 *)
(*                                                                           *)
(* The call sites differ in which counter they touch, so that is a constant: *)
(* the prefill kernel gives each call site a zeroed pair of its own, while   *)
(* the header's comments describe two slots used alternately.                *)
(*                                                                           *)
(* One step here is one atomic read-modify-write of the code, or one block   *)
(* leaving the spin.  Threads of a block act together: thread 0 arrives, and *)
(* __syncthreads on both sides gathers the rest.                             *)
EXTENDS Naturals, FiniteSets

CONSTANTS
    Blocks,         \* thread blocks of the grid
    Ids,            \* barrier ids; grid_barrier is the case of one id
    IdOf,           \* IdOf[b]: the id whose arrival set holds block b
    SeedOf,         \* SeedOf[i]: the block that seeds id i
    Calls,          \* barrier calls (sites) of one launch
    Slots,          \* counter words of one id
    SlotOf,         \* SlotOf[k]: the word the k-th call of a launch uses
    HighBit,        \* the exit marker, 0x80000000 in the code
    Garbage,        \* contents the counters may have before the first launch
    SMCounts,       \* SM counts of the devices considered
    MaxLaunches     \* bound: launches in one behaviour

ASSUME BarrierAssumption ==
    /\ IsFiniteSet(Blocks)
    /\ IdOf \in [Blocks -> Ids]
    /\ SeedOf \in [Ids -> Blocks]
    /\ \A i \in Ids : IdOf[SeedOf[i]] = i
    /\ Calls \in Nat
    /\ SlotOf \in [1..Calls -> Slots]
    /\ HighBit \in Nat
    /\ Cardinality(Blocks) <= HighBit
    /\ Garbage \subseteq 0..(2 * HighBit - 1)
    /\ SMCounts \subseteq Nat
    /\ MaxLaunches \in Nat

VARIABLES
    counter,    \* counter[i][s]: the 32-bit counter word s of id i
    pc,         \* pc[b]: where block b is
    call,       \* call[b]: the barrier call b is making or will make next
    toFold,     \* toFold[b]: early arrivals a seeder has still to add back
    launches,   \* launches so far
    sms         \* SMs of the device

vars == << counter, pc, call, toFold, launches, sms >>

Word == 0..(2 * HighBit - 1)

Members(i) == {b \in Blocks : IdOf[b] = i}
ArrivalCount(i) == Cardinality(Members(i))

-----------------------------------------------------------------------------
(* Words.                                                                    *)

\* atomicAdd on an unsigned word.
WrapAdd(v, d) == IF v + d >= 2 * HighBit THEN v + d - 2 * HighBit ELSE v + d

\* v & 0x80000000 and v & 0x7FFFFFFF.
Bit31(v) == v >= HighBit
Low31(v) == IF v >= HighBit THEN v - HighBit ELSE v

MutSeedValue(i) == HighBit - (ArrivalCount(i) - 2)
SeedValue(i) == HighBit - (ArrivalCount(i) - 1)

\* What the seeder adds back, given the word it exchanged out.
MutFold(prior) == 0
Fold(prior) == Low31(prior)

-----------------------------------------------------------------------------
(* The host: allocation, and one launch.                                     *)

\* No block of the previous launch is still running.
Idle == \A b \in Blocks : pc[b] = "retired"

MutGridFits == TRUE
GridFits == sms >= Cardinality(Blocks)

MutClearedCounters == counter
ClearedCounters == [i \in Ids |-> [s \in Slots |-> 0]]

Init ==
    /\ \E g \in Garbage : counter = [i \in Ids |-> [s \in Slots |-> g]]
    /\ pc = [b \in Blocks |-> "retired"]
    /\ call = [b \in Blocks |-> Calls + 1]
    /\ toFold = [b \in Blocks |-> 0]
    /\ launches = 0
    /\ sms \in SMCounts

\* cudaMemsetAsync of the workspace and the kernel launch, in stream order
\* after the previous kernel.  A grid larger than the SM count is refused.
Launch ==
    /\ Idle
    /\ launches < MaxLaunches
    /\ GridFits
    /\ counter' = ClearedCounters
    /\ pc' = [b \in Blocks |-> "pending"]
    /\ call' = [b \in Blocks |-> 1]
    /\ launches' = launches + 1
    /\ UNCHANGED << toFold, sms >>

Resident == {b \in Blocks : pc[b] \notin {"pending", "retired"}}

\* The hardware scheduler puts a block on a free SM; it stays until it retires.
Place(b) ==
    /\ pc[b] = "pending"
    /\ Cardinality(Resident) < sms
    /\ pc' = [pc EXCEPT ![b] = "work"]
    /\ UNCHANGED << counter, call, toFold, launches, sms >>

-----------------------------------------------------------------------------
(* One block.                                                                *)

MyWord(b) == counter[IdOf[b]][SlotOf[call[b]]]
SetMyWord(b, v) == [counter EXCEPT ![IdOf[b]][SlotOf[call[b]]] = v]

\* b's next step is to enter a barrier call.
AtCall(b) == pc[b] = "work" /\ call[b] <= Calls

\* ++phase / ++barrier_site.
MutNextCall(b) == [call EXCEPT ![b] = @ + 2]
NextCall(b) == [call EXCEPT ![b] = @ + 1]

\* An arrival set of one block has nothing to wait for.
PassAlone(b) ==
    /\ AtCall(b)
    /\ ArrivalCount(IdOf[b]) = 1
    /\ call' = NextCall(b)
    /\ UNCHANGED << counter, pc, toFold, launches, sms >>

\* A block other than the seeder arrives: atomicAdd(c, 1).
Arrive(b) ==
    /\ AtCall(b)
    /\ ArrivalCount(IdOf[b]) # 1
    /\ b # SeedOf[IdOf[b]]
    /\ counter' = SetMyWord(b, WrapAdd(MyWord(b), 1))
    /\ pc' = [pc EXCEPT ![b] = "spin"]
    /\ UNCHANGED << call, toFold, launches, sms >>

\* The seeder exchanges the seed in and learns who came before it.
Seed(b) ==
    /\ AtCall(b)
    /\ ArrivalCount(IdOf[b]) # 1
    /\ b = SeedOf[IdOf[b]]
    /\ counter' = SetMyWord(b, SeedValue(IdOf[b]))
    /\ toFold' = [toFold EXCEPT ![b] = Fold(MyWord(b))]
    /\ pc' = [pc EXCEPT ![b] = IF Fold(MyWord(b)) # 0 THEN "fold" ELSE "spin"]
    /\ UNCHANGED << call, launches, sms >>

\* The seeder adds the early arrivals back.
FoldBack(b) ==
    /\ pc[b] = "fold"
    /\ counter' = SetMyWord(b, WrapAdd(MyWord(b), toFold[b]))
    /\ toFold' = [toFold EXCEPT ![b] = 0]
    /\ pc' = [pc EXCEPT ![b] = "spin"]
    /\ UNCHANGED << call, launches, sms >>

\* The spin sees bit 31 and the block goes on to its next call.
Exit(b) ==
    /\ pc[b] = "spin"
    /\ Bit31(MyWord(b))
    /\ pc' = [pc EXCEPT ![b] = "work"]
    /\ call' = NextCall(b)
    /\ UNCHANGED << counter, toFold, launches, sms >>

\* After the last barrier a block finishes the kernel and frees its SM.
Retire(b) ==
    /\ pc[b] = "work"
    /\ call[b] = Calls + 1
    /\ pc' = [pc EXCEPT ![b] = "retired"]
    /\ UNCHANGED << counter, call, toFold, launches, sms >>

Step(b) ==
    \/ Place(b)
    \/ PassAlone(b)
    \/ Arrive(b)
    \/ Seed(b)
    \/ FoldBack(b)
    \/ Exit(b)
    \/ Retire(b)

\* The stream has no further launch, or the launcher refuses the grid.
Finished ==
    /\ Idle
    /\ launches = MaxLaunches \/ ~ GridFits
    /\ UNCHANGED vars

Next ==
    \/ Launch
    \/ \E b \in Blocks : Step(b)
    \/ Finished

Spec == Init /\ [][Next]_vars

\* A block that is on an SM is scheduled, and a block waiting for an SM gets a
\* free one.  The host is free not to launch again.
Fairness == \A b \in Blocks : WF_vars(Step(b))
FairSpec == Spec /\ Fairness

-----------------------------------------------------------------------------
(* Properties.                                                               *)

TypeOK ==
    /\ counter \in [Ids -> [Slots -> Word]]
    /\ pc \in [Blocks -> {"pending", "work", "fold", "spin", "retired"}]
    /\ call \in [Blocks -> 1..(Calls + 1)]
    /\ toFold \in [Blocks -> 0..(HighBit - 1)]
    /\ launches \in 0..MaxLaunches
    /\ sms \in SMCounts

\* Block b has entered its k-th call of this launch.
Arrived(b, k) == call[b] > k \/ (call[b] = k /\ pc[b] \in {"fold", "spin"})
ArrivedSet(i, k) == {b \in Members(i) : Arrived(b, k)}

\* The barrier's contract ("every calling thread in every participating block
\* blocks until all blocks have arrived at this call"): a block is past its
\* k-th call only if every block of its arrival set has entered that call.
BarrierSafe ==
    \A b, c \in Blocks : \A k \in 1..Calls :
        IdOf[b] = IdOf[c] /\ call[b] > k => Arrived(c, k)

\* The comments call every count below the full one too small for bit 31
\* ("bit 31 clear, so waiters never exit early"): while some member of an
\* arrival set has not entered call k, the word of call k has bit 31 clear
\* for anybody who spins on it.
NoEarlyHighBit ==
    \A b, c \in Blocks : \A k \in 1..Calls :
        (IdOf[b] = IdOf[c] /\ call[b] = k /\ pc[b] = "spin" /\ ~ Arrived(c, k))
            => ~ Bit31(counter[IdOf[b]][SlotOf[k]])

\* No arrival is lost or counted twice, whatever the order of the seeder's
\* exchange and the other blocks' additions: the word of a call is a function
\* of who has arrived and of what the seeder has still to add back.
WordExact(i, k) ==
    LET n == Cardinality(ArrivedSet(i, k))
        s == SeedOf[i]
        w == counter[i][SlotOf[k]]
    IN  IF ~ Arrived(s, k) THEN w = n
        ELSE IF call[s] = k /\ pc[s] = "fold"
             THEN /\ toFold[s] \in 1..(n - 1)
                  /\ w = SeedValue(i) + (n - 1) - toFold[s]
             ELSE w = SeedValue(i) + (n - 1)

CounterExact ==
    \A i \in Ids : \A k \in 1..Calls :
        ArrivalCount(i) > 1 /\ ~ Idle => WordExact(i, k)

\* Two calls of a launch never use the same word, as in the prefill kernels.
FreshSlots == \A j, k \in 1..Calls : SlotOf[j] = SlotOf[k] => j = k

\* The counters implement the abstract barrier.
Contract == INSTANCE AbstractBarrier
    WITH round <- call,
         inside <- {b \in Blocks : pc[b] \in {"fold", "spin"}}
ImplementsBarrier == Contract!Spec

\* Every launch that starts ends: no interleaving leaves the blocks waiting on
\* one another, given that the launcher only starts a grid that fits the SMs.
EveryLaunchRetires == (~ Idle) ~> Idle

=============================================================================
