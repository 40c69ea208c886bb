-------------------------------- MODULE Trials --------------------------------
(* The trials of the fused epilogue on real devices: tp8_soak.py,            *)
(* tp8_fold_gate.py and tp8_fuse_ab.py.  They drive launches the way an      *)
(* engine does, back to back, skewed, captured and replayed, and compare the *)
(* result with a reduction that the kernel has no part in.  What is checked  *)
(* here is the trials themselves against the protocol: that a right kernel   *)
(* passes on every schedule, that the trial which must fail does, and that   *)
(* no rank is left in a collective.                                          *)
(*                                                                           *)
(* A rank is its stream, which runs the steps of its program in order; the   *)
(* host's synchronizations only make it wait for its own stream.  A launch   *)
(* has the two barriers of SymmPool, one before the sums and one after.      *)
EXTENDS Integers, SequencesExt

CONSTANTS
    World,          \* ranks
    Arms,           \* which trials run: [test, devseq]
    Repeats,        \* ITERS, GREPLAYS, BTB: how often a launch is repeated
    Scale           \* SCALE, routed_scaling_factor, here a whole number

ASSUME TrialsAssumption ==
    /\ World \in Nat /\ World >= 2
    /\ Repeats \in Nat \ {0} /\ Scale \in Nat

Members == 0..(World - 1)
PoolSlots == {0, 1}         \* NSLOTS
Parts == {1, 2}         \* of a slot: a size of TOKS is how many of them it covers

VARIABLES
    arm,        \* the trial
    rest,       \* rank -> the steps of its program that are left
    phase,      \* rank -> where in a launch: idle, sum, done
    seq,        \* rank -> the sequence of its launch
    counter,    \* rank -> the device counter
    hostseq,    \* rank -> _seq
    baked,      \* rank -> the sequence in its captured launch
    pad,        \* rank -> rank -> what that one last wrote in this one's two pads
    buf,        \* rank -> slot -> part -> shard -> value
    kept,       \* rank -> name -> a clone of a buffer
    equal,      \* rank -> every torch.equal since the last vote
    fails       \* the votes that failed

trialVars == << arm, rest, phase, seq, counter, hostseq, baked, pad, buf, kept, equal, fails >>

-----------------------------------------------------------------------------
(* Values: how often the routed half x and the residual R of a rank, or what *)
(* was there before, is in a cell.                                           *)

Terms == ({"x", "R"} \X Members) \cup {<< "old", 0 >>, << "sentinel", 0 >>}
Blank == [t \in Terms |-> 0]
Of(half, r, n) == [Blank EXCEPT ![<< half, r >>] = n]
Plus(v, w) == [t \in Terms |-> v[t] + w[t]]
Times(n, v) == [t \in Terms |-> n * v[t]]
Total(V(_)) == [t \in Terms |-> MapThenSumSet(LAMBDA q : V(q)[t], Members)]
Leftover == Of("old", 0, 1)
Filled(v) == [q \in Members |-> v]
Sentinel == Of("sentinel", 0, 1)

\* A view of a size is the first parts of the slot.
View(r, s, n) == [p \in 1..n |-> buf[r][s][p]]
Put(b, n, v) == [p \in Parts |-> IF p <= n THEN Filled(v) ELSE b[p]]

-----------------------------------------------------------------------------
(* The steps a program is made of, on slot s and a view of size n.           *)

Fill(s, n, what) == << [do |-> "fill", slot |-> s, size |-> n, what |-> what] >>
Zeroed(s, n) == Fill(s, n, "zero")
\* The kernel without its epilogue: the build before it, or, counted, ncomm = 0.
Unfused(s, n) == << [do |-> "local", slot |-> s, size |-> n, counts |-> FALSE] >>
Uncut(s, n) == << [do |-> "local", slot |-> s, size |-> n, counts |-> TRUE] >>
\* The fused launch: its sequence from the device counter, the host or the graph.
Launch(s, n, from, replay, residual, scale) ==
    << [do |-> "launch", slot |-> s, size |-> n, from |-> from, replay |-> replay,
        residual |-> residual, scale |-> scale] >>
\* multimem_all_reduce_, which has its own barriers.
AllReduce(s, n) == << [do |-> "reduce", slot |-> s, size |-> n] >>
Keep(name, s, n) == << [do |-> "keep", slot |-> s, size |-> n, name |-> name] >>
Exact(n) == << [do |-> "exact", size |-> n] >>
Compare(name, s, n) == << [do |-> "compare", slot |-> s, size |-> n, name |-> name] >>
PastEnd(s, n) == << [do |-> "tail", slot |-> s, size |-> n] >>
Vote(must) == << [do |-> "vote", must |-> must] >>
Meet == << [do |-> "barrier"] >>
Capture == << [do |-> "capture"] >>
Repeat(k, steps) == FlattenSeq([i \in 1..k |-> steps])

\* fuse: one more launch on this rank's count.
Source == IF arm.devseq THEN "device" ELSE "host"
Fuse(s, n) == Launch(s, n, Source, FALSE, FALSE, 1)
\* A replay repeats the captured arguments; with a counter on the device there is
\* nothing to repeat.
MutReplay(s, n) == Launch(s, n, "graph", TRUE, FALSE, 1)
Replay(s, n) == Launch(s, n, IF arm.devseq THEN "device" ELSE "graph", TRUE, FALSE, 1)
\* check: compared with the reference, and every rank told.
Check(s, n) == Compare("sum", s, n) \o Vote("equal")
Trial(s, n, launches) == Zeroed(s, n) \o launches \o Check(s, n)

\* The references: the unfused kernel and the reduction of the library.
References ==
    FlattenSeq([n \in 1..2 |->
        Zeroed(0, n) \o Unfused(0, n) \o AllReduce(0, n) \o Keep("sum", 0, n)])
    \o Meet

-----------------------------------------------------------------------------
(* The programs.                                                             *)

T1 == Trial(0, 1, Fuse(0, 1)) \o Trial(0, 2, Fuse(0, 2)) \o Trial(0, 1, Fuse(0, 1)) \o Meet
T2 == Trial(0, 2, Repeat(Repeats, Fuse(0, 2))) \o Meet
\* The late rank is any rank on any schedule.
T3 == Repeat(2, Trial(0, 1, Fuse(0, 1))) \o Meet
\* Warm-up on a side stream, and the capture.
Captured(n) == Repeat(2, Fuse(0, n)) \o Meet \o Capture
T4 ==
    Captured(1)
    \o Repeat(Repeats, Trial(0, 1, Replay(0, 1)))
    \o Trial(0, 1, Replay(0, 1)) \o Trial(0, 1, Fuse(0, 1))
    \o Trial(0, 1, Repeat(Repeats, Replay(0, 1)))
    \o Meet
T5 == Captured(2) \o Repeat(2, Trial(0, 2, Replay(0, 2))) \o Meet
T6(r) ==
    LET Split(replays) == Trial(0, 1, IF replays THEN Replay(0, 1) ELSE Fuse(0, 1))
    IN Captured(1) \o Split(r % 2 = 0) \o Split(r % 2 = 1) \o Split(r = 0) \o Meet
T7 ==
    Trial(0, 2, Fuse(0, 2)) \o Trial(0, 1, Fuse(0, 1)) \o Trial(0, 2, Fuse(0, 2))
    \o FlattenSeq([n \in 1..2 |->
        Fill(0, 2, "sentinel") \o Trial(0, n, Fuse(0, n)) \o PastEnd(0, n) \o Vote("equal")])
    \o Meet
T8 == Repeat(Repeats + 1, Fuse(0, 2)) \o Check(0, 2) \o Meet
Divergent(r) == IF r = 0 THEN 1 ELSE 0
T9(r) ==
    Trial(0, 1, Fuse(0, 1)) \o Trial(1, 1, Fuse(1, 1)) \o Trial(0, 1, Fuse(0, 1)) \o Meet
    \o Zeroed(0, 1) \o Zeroed(1, 1) \o Fuse(Divergent(r), 1)
    \o Compare("sum", 0, 1) \o Vote("differ") \o Meet
    \o Trial(0, 1, Fuse(0, 1)) \o Trial(1, 1, Fuse(1, 1)) \o Meet

\* The timed runs of the two gates: warm, and then apart from each other.
Timed(launches) == Repeat(2, launches) \o Meet \o Repeat(2, Meet \o launches) \o Meet

\* tp8_fold_gate: the older binary's fused entry, and the entry with a residual.
Ship(s, n) == Fuse(s, n)
Folding(residual, scale) == Launch(0, 1, Source, FALSE, residual, scale)
G1 ==
    Zeroed(0, 1) \o Ship(0, 1) \o Keep("fused", 0, 1)
    \o Zeroed(0, 1) \o Folding(FALSE, 1) \o Compare("fused", 0, 1)
    \o Zeroed(0, 1) \o Fuse(0, 1) \o Compare("fused", 0, 1)
    \o Vote("equal")
G2 ==
    Fill(0, 1, "resid") \o AllReduce(0, 1) \o Keep("resid", 0, 1)
    \o Zeroed(0, 1) \o Folding(TRUE, 0) \o Compare("resid", 0, 1) \o Vote("equal")
G3 ==
    Zeroed(0, 1) \o Uncut(0, 1) \o Keep("local", 0, 1) \o Exact(1)
    \o Fill(0, 1, "local") \o AllReduce(0, 1) \o Keep("reduced", 0, 1)
    \o Zeroed(0, 1) \o Folding(TRUE, Scale) \o Compare("exact", 0, 1) \o Vote("equal")
G4 ==
    Timed(Ship(0, 1)) \o Timed(Folding(FALSE, 1)) \o Timed(Folding(TRUE, Scale))
    \o Timed(AllReduce(0, 1))

\* tp8_fuse_ab: the epilogue is inert at ncomm = 0, and equal to the library's
\* reduction; in between, launches are timed.
ABGate ==
    Zeroed(0, 1) \o Unfused(0, 1) \o Keep("kernel", 0, 1)
    \o Zeroed(0, 1) \o Uncut(0, 1) \o Compare("kernel", 0, 1)
    \o Zeroed(0, 1) \o Unfused(0, 1) \o AllReduce(0, 1) \o Keep("sum", 0, 1)
    \o Zeroed(0, 1) \o Unfused(0, 1) \o AllReduce(0, 1) \o Vote("equal")
ABArms == Timed(Unfused(0, 1) \o AllReduce(0, 1)) \o Timed(Uncut(0, 1) \o AllReduce(0, 1))
ABSweep == Repeat(2, Trial(0, 1, Fuse(0, 1)) \o Timed(Fuse(0, 1)))

\* The pads are zeroed after the rendezvous, here with a barrier behind it.
MutSetUp == Meet \o << [do |-> "pads"] >>
SetUp == << [do |-> "pads"] >> \o Meet
Soak(r) == [T1 |-> T1, T2 |-> T2, T3 |-> T3, T4 |-> T4, T5 |-> T5,
            T6 |-> T6(r), T7 |-> T7, T8 |-> T8, T9 |-> T9(r)]
Body(r) ==
    CASE arm.test = "fold" -> G1 \o G2 \o G3 \o G4
      [] arm.test = "ab" -> ABGate \o ABArms \o ABSweep
      [] arm.test \in {"T1", "T2", "T3", "T4", "T5", "T6", "T7", "T8", "T9"} ->
            References \o Soak(r)[arm.test]
Program(r) == SetUp \o Body(r)

-----------------------------------------------------------------------------
(* The steps of a rank.                                                      *)

Has(r) == rest[r] # << >>
Now(r) == Head(rest[r])
Does(r, kind) == Has(r) /\ Now(r).do = kind
Go(r) == rest' = [rest EXCEPT ![r] = Tail(@)]

\* A symmetric window, and the counter, start with whatever the memory holds.
TrialsInit ==
    /\ arm \in Arms
    /\ rest = [r \in Members |-> Program(r)]
    /\ phase = [r \in Members |-> "idle"]
    /\ seq = [r \in Members |-> 0]
    /\ counter = [r \in Members |-> 0] /\ hostseq = [r \in Members |-> 0]
    /\ baked = [r \in Members |-> 0]
    /\ pad \in {[r \in Members |-> [q \in Members |-> << g, g >>]] : g \in {0, 99}}
    /\ buf = [r \in Members |-> [s \in PoolSlots |-> [p \in Parts |-> Filled(Leftover)]]]
    /\ kept = [r \in Members |-> << >>]
    /\ equal = [r \in Members |-> TRUE]
    /\ fails = {}

\* flags.zero_(), of the rank's own window.
ZeroPads(r) ==
    /\ Does(r, "pads") /\ Go(r)
    /\ pad' = [pad EXCEPT ![r] = [q \in Members |-> << 0, 0 >>]]
    /\ UNCHANGED << arm, phase, seq, counter, hostseq, baked, buf, kept, equal, fails >>

\* zero_, fill_ or copy_ into the view.
FillBuffer(r) ==
    /\ Does(r, "fill") /\ Go(r)
    /\ LET s == Now(r)
           b == buf[r][s.slot]
       IN buf' = [buf EXCEPT ![r][s.slot] =
            CASE s.what = "zero" -> Put(b, s.size, Blank)
              [] s.what = "sentinel" -> Put(b, s.size, Sentinel)
              [] s.what = "resid" -> Put(b, s.size, Of("R", r, 1))
              [] s.what = "local" -> kept[r]["local"] @@ b]
    /\ UNCHANGED << arm, phase, seq, counter, hostseq, baked, pad, kept, equal, fails >>

\* The kernel without its epilogue leaves the rank's own half of the sum.
RunUnfused(r) ==
    /\ Does(r, "local") /\ Go(r)
    /\ LET s == Now(r)
       IN /\ buf' = [buf EXCEPT ![r][s.slot] = Put(@, s.size, Of("x", r, 1))]
          /\ hostseq' = IF s.counts THEN [hostseq EXCEPT ![r] = @ + 1] ELSE hostseq
    /\ UNCHANGED << arm, phase, seq, counter, baked, pad, kept, equal, fails >>

\* The fused launch up to its first barrier: the sequence, the rank's own part,
\* and its arrival at every rank.  The host counts every launch, used or not.
Arrive(r) ==
    /\ Does(r, "launch") /\ phase[r] = "idle"
    /\ LET s == Now(r)
           n == CASE s.from = "device" -> counter[r] + 1
                  [] s.from = "host" -> hostseq[r] + 1
                  [] s.from = "graph" -> baked[r]
           part == Plus(Of("x", r, s.scale), Of("R", r, IF s.residual THEN 1 ELSE 0))
       IN /\ seq' = [seq EXCEPT ![r] = n]
          /\ counter' = IF s.from = "device" THEN [counter EXCEPT ![r] = n] ELSE counter
          /\ hostseq' = IF s.replay THEN hostseq ELSE [hostseq EXCEPT ![r] = @ + 1]
          /\ buf' = [buf EXCEPT ![r][s.slot] = Put(@, s.size, part)]
          /\ pad' = [q \in Members |-> [pad[q] EXCEPT ![r][1] = n]]
    /\ phase' = [phase EXCEPT ![r] = "sum"]
    /\ UNCHANGED << arm, rest, baked, kept, equal, fails >>

\* Released, the rank sums its shard of the slot it was given over all ranks and
\* stores it on all of them.
Released(r, b) == \A q \in Members : pad[r][q][b] >= seq[r]
SumShard(r) ==
    /\ Does(r, "launch") /\ phase[r] = "sum" /\ Released(r, 1)
    /\ LET s == Now(r)
           sum == [p \in 1..s.size |-> Total(LAMBDA q : buf[q][s.slot][p][r])]
       IN buf' = [q \in Members |-> [buf[q] EXCEPT ![s.slot] =
            [p \in Parts |-> IF p <= s.size THEN [@[p] EXCEPT ![r] = sum[p]] ELSE @[p]]]]
    /\ pad' = [q \in Members |-> [pad[q] EXCEPT ![r][2] = seq[r]]]
    /\ phase' = [phase EXCEPT ![r] = "done"]
    /\ UNCHANGED << arm, rest, seq, counter, hostseq, baked, kept, equal, fails >>

Retire(r) ==
    /\ Does(r, "launch") /\ phase[r] = "done" /\ Released(r, 2)
    /\ phase' = [phase EXCEPT ![r] = "idle"] /\ Go(r)
    /\ UNCHANGED << arm, seq, counter, hostseq, baked, pad, buf, kept, equal, fails >>

\* A host without a counter on the device bakes its next value into the graph.
CaptureLaunch(r) ==
    /\ Does(r, "capture") /\ Go(r)
    /\ hostseq' = [hostseq EXCEPT ![r] = @ + 1]
    /\ baked' = [baked EXCEPT ![r] = hostseq[r] + 1]
    /\ UNCHANGED << arm, phase, seq, counter, pad, buf, kept, equal, fails >>

KeepCopy(r) ==
    /\ Does(r, "keep") /\ Go(r)
    /\ LET s == Now(r)
       IN kept' = [kept EXCEPT ![r] = (s.name :> View(r, s.slot, s.size)) @@ @]
    /\ UNCHANGED << arm, phase, seq, counter, hostseq, baked, pad, buf, equal, fails >>

\* torch.equal with a copy, of the view or of what lies past it.
CompareView(r) ==
    /\ Does(r, "compare") /\ Go(r)
    /\ LET s == Now(r)
           same == View(r, s.slot, s.size) = [p \in 1..s.size |-> kept[r][s.name][p]]
       IN equal' = [equal EXCEPT ![r] = @ /\ same]
    /\ UNCHANGED << arm, phase, seq, counter, hostseq, baked, pad, buf, kept, fails >>
CompareTail(r) ==
    /\ Does(r, "tail") /\ Go(r)
    /\ LET s == Now(r)
           untouched == \A p \in Parts : p > s.size => buf[r][s.slot][p] = Filled(Sentinel)
       IN equal' = [equal EXCEPT ![r] = @ /\ untouched]
    /\ UNCHANGED << arm, phase, seq, counter, hostseq, baked, pad, buf, kept, fails >>

Alone(r) ==
    \/ ZeroPads(r) \/ FillBuffer(r) \/ RunUnfused(r)
    \/ Arrive(r) \/ SumShard(r) \/ Retire(r) \/ CaptureLaunch(r)
    \/ KeepCopy(r) \/ CompareView(r) \/ CompareTail(r)

-----------------------------------------------------------------------------
(* The steps of all ranks: a collective of the library, which has barriers   *)
(* of its own, and what the scripts decide together.                         *)

Collective(kind) == \A r \in Members : Does(r, kind) /\ Now(r) = Now(0)
GoAll == rest' = [r \in Members |-> Tail(rest[r])]

ReduceView ==
    /\ Collective("reduce") /\ GoAll
    /\ LET s == Now(0)
           sum == [p \in 1..s.size |-> [q \in Members |->
                    Total(LAMBDA m : buf[m][s.slot][p][q])]]
       IN buf' = [r \in Members |-> [buf[r] EXCEPT ![s.slot] = sum @@ @]]
    /\ UNCHANGED << arm, phase, seq, counter, hostseq, baked, pad, kept, equal, fails >>

\* The reference of the fold, summed in another precision: both halves of every
\* rank, the routed one scaled.
SumExactly ==
    /\ Collective("exact") /\ GoAll
    /\ LET exact == [p \in 1..Now(0).size |-> [q \in Members |->
                Plus(Times(Scale, Total(LAMBDA m : kept[m]["local"][p][q])),
                     Total(LAMBDA m : Of("R", m, 1)))]]
       IN kept' = [r \in Members |-> ("exact" :> exact) @@ kept[r]]
    /\ UNCHANGED << arm, phase, seq, counter, hostseq, baked, pad, buf, equal, fails >>

\* A check passes when it does on every rank, the divergent one when on none.
VoteTogether ==
    /\ Collective("vote") /\ GoAll
    /\ LET passed == IF Now(0).must = "equal" THEN \A r \in Members : equal[r]
                                               ELSE \A r \in Members : ~ equal[r]
       IN fails' = IF passed THEN fails ELSE fails \cup {Len(rest[0])}
    /\ equal' = [r \in Members |-> TRUE]
    /\ UNCHANGED << arm, phase, seq, counter, hostseq, baked, pad, buf, kept >>

MeetAll ==
    /\ Collective("barrier") /\ GoAll
    /\ UNCHANGED << arm, phase, seq, counter, hostseq, baked, pad, buf, kept, equal, fails >>

Together == ReduceView \/ SumExactly \/ VoteTogether \/ MeetAll
Over == \A r \in Members : ~ Has(r)

TrialsNext ==
    \/ \E r \in Members : Alone(r)
    \/ Together
    \/ Over /\ UNCHANGED trialVars

\* Every stream runs, and a collective that every rank has joined completes.
TrialsSpec ==
    /\ TrialsInit /\ [][TrialsNext]_trialVars
    /\ \A r \in Members : WF_trialVars(Alone(r))
    /\ WF_trialVars(Together)

-----------------------------------------------------------------------------
(* Properties.                                                               *)

\* On every schedule of the ranks a right kernel passes every check of the soak,
\* the fold gate and the A/B gate, with launches back to back, skewed, replayed,
\* replayed by some ranks only, and of alternating sizes and slots; and the trial
\* in which one rank takes another slot fails on every rank, as "agreement is the
\* failure" (tp8_soak.py:595) asks.
TrialsRight == fails = {}

\* No rank is left in a launch, a vote or a barrier: also the divergent trial
\* "cannot hang" (tp8_soak.py:596), and no arrival of a launch is lost.
TrialsEnd == <> Over

=============================================================================
